------------------------------- MODULE Turns --------------------------------
(***************************************************************************)
(* One run's turns: the backend's turn executor (services/api/src/api/     *)
(* turns), the agents it asks (services/agent/src/agent/service.py, state) *)
(* and the client between them (api/agent_client).                         *)
(*                                                                         *)
(* A driving process moves a turn by steps separated by awaits: it looks   *)
(* at the latest turn, builds or rereads an observation, asks the agent,   *)
(* records the answer and hands the signed action to the relay.  Between   *)
(* any two of them the chain moves, the agent answers, restarts or is      *)
(* released, an operator aborts, the process dies, or another one takes    *)
(* the run over while this one is stalled and then finishes what it began. *)
(*                                                                         *)
(* The poll is one step here (Outbox and EventIndex take it apart), the    *)
(* end of the session is one block (RunControl has the transactions that   *)
(* bring it), and an answer is its kind and the observation it was made    *)
(* on (Negotiation has its terms).                                         *)
(***************************************************************************)
EXTENDS Integers, Sequences, FiniteSets, SequencesExt

CONSTANTS
    Procs,          \* backend processes
    Kinds,          \* what an agent may decide: a subset of AnswerKinds
    MaxTurns,       \* bound: turns of the run
    End,            \* the session's expires_at; chain time runs from 0
    Life,           \* offer_validity_s
    FaultKinds,     \* the faults injected
    MaxFaults       \* bound: faults injected, a takeover included

VARIABLES
    chain,          \* [blocks, deep, time]: transactions mined, those past the threshold
    view,           \* [blocks, deep]: what the indexer recorded of it
    db,             \* [turns, stage, cause]: the run's rows
    owner,          \* holder of the run's lease
    procs,          \* each process's place in advance(), with its locals
    reqs,           \* turn requests on their way or in an agent's handler
    agents,         \* each agent's registry entry for the run
    answered,       \* every answer an agent made, in order
    faults          \* [left, takeover]: faults still to come, whether a takeover was one

vars == <<chain, view, db, owner, procs, reqs, agents, answered, faults>>

Parties == {"buyer", "seller"}
AnswerKinds == {"offer", "accept", "close", "model_failed", "budget_exhausted"}
Unsigned == {"model_failed", "budget_exhausted"}
Settled == {"confirmed", "reverted"}
Final == {"confirmed", "model_failed", "execution_failed"}
Replied == {"answered", "refused"}
Forgotten == {"unprovisioned", "provisioned"}

Observations == [hist : Seq(Nat), time : Nat, until : Nat]
AgentStates == {"unprovisioned", "provisioned", "approved", "released"}
Reasons == {"none", "idempotency_conflict", "session_deadline_passed"}

(* The agent's side of the wire: what a request carries and what comes     *)
(* back of it, an answer or an error with the run's state there.           *)
Requests == [party : Parties, turn : 1..MaxTurns, obs : Observations,
             from : Procs \cup {"nobody"},
             phase : {"sent", "queued", "deciding", "answered", "refused"},
             answer : Nat, state : AgentStates \cup Reasons]
Answers == [party : Parties, turn : 1..MaxTurns, obs : Observations,
            kind : AnswerKinds, seq : Nat, until : Nat, life : Nat]

ASSUME BoundsAssumption ==
    /\ MaxTurns \in Nat /\ MaxFaults \in Nat
    /\ End \in Nat /\ Life \in Nat
    /\ Kinds \subseteq AnswerKinds
    /\ "nobody" \notin Procs

-----------------------------------------------------------------------------
(* The chain, as the exchange contract orders a session's actions.  Each   *)
(* block has one transaction of the session and, as its state, the actions *)
(* executed up to it: [id, ok, done].                                      *)

IsEnd(b) == b.ok /\ (b.id = 0 \/ answered[b.id].kind \in {"accept", "close"})
Ended(bs) == \E i \in DOMAIN bs : IsEnd(bs[i])
Offers(bs) == IF bs = <<>> THEN <<>> ELSE bs[Len(bs)].done
Mined(bs, id, ok) ==
    Append(bs, [id |-> id, ok |-> ok, done |->
        IF ok /\ id # 0 THEN Append(Offers(bs), id) ELSE Offers(bs)])
Place(bs, id) == {i \in DOMAIN bs : bs[i].id = id}

Executable(a) ==
    /\ ~Ended(chain.blocks)
    /\ a.seq = Len(Offers(chain.blocks)) + 1
    /\ chain.time < a.until

(* The validity an action is signed with, cut at the session's end; an     *)
(* acceptance stands as long as the offer it accepts.                      *)
UntilOf(kind, obs) ==
    CASE kind = "offer"  -> IF obs.time + Life < End THEN obs.time + Life ELSE End
      [] kind = "accept" -> obs.until
      [] OTHER           -> End

-----------------------------------------------------------------------------
(* The rows.                                                               *)

OpenTurn(d) ==
    LET n == Len(d.turns)
    IN  IF n = 0 \/ d.turns[n].done THEN 0 ELSE n

(* Mutant: a paused run is left alone with its turn open.                  *)
DrivenUnlessPaused(d) ==
    \/ d.stage = "driving"
    \/ d.stage \in {"paused", "recovery"} /\ d.cause

Driven(d) ==
    \/ d.stage = "driving"
    \/ d.stage = "paused" /\ OpenTurn(d) # 0
    \/ d.stage \in {"paused", "recovery"} /\ d.cause

Finish(d, t, state) ==
    [d EXCEPT !.turns[t] = [@ EXCEPT !.state = state, !.done = TRUE]]

RequestTermination(d) == [d EXCEPT !.cause = TRUE]

Recovery(d) ==
    IF d.stage \in {"driving", "paused"} THEN [d EXCEPT !.stage = "recovery"] ELSE d

(* The session has ended: the latest turn, if open, gets its final state.  *)
Close(d) ==
    LET t == OpenTurn(d)
    IN  IF t = 0 THEN d
        ELSE Finish(d, t, CASE d.turns[t].status = "confirmed" -> "confirmed"
                            [] d.turns[t].status = "reverted" -> "execution_failed"
                            [] OTHER -> d.turns[t].state)

-----------------------------------------------------------------------------
Stopped == [pc |-> "idle", turn |-> 0, obs |-> [hist |-> <<>>, time |-> 0, until |-> 0],
            snap |-> "none", restored |-> FALSE]
Fresh(life) == [state |-> "approved", released |-> FALSE, life |-> life,
                turns |-> [t \in 1..MaxTurns |-> 0]]

Init ==
    /\ chain = [blocks |-> <<>>, deep |-> 0, time |-> 0]
    /\ view = [blocks |-> <<>>, deep |-> 0]
    /\ db = [turns |-> <<>>, stage |-> "driving", cause |-> FALSE]
    /\ owner \in Procs
    /\ procs = [p \in Procs |-> Stopped]
    /\ reqs = {}
    /\ agents = [q \in Parties |-> Fresh(0)]
    /\ answered = <<>>
    /\ faults = [left |-> MaxFaults, takeover |-> FALSE]

At(p, pc) == procs[p].pc = pc
Go(p, pc) == procs' = [procs EXCEPT ![p].pc = pc]
Yield(p) == procs' = [procs EXCEPT ![p] = Stopped]
PartyOf(obs) == IF Len(obs.hist) % 2 = 0 THEN "buyer" ELSE "seller"
Asked(p) == procs[p].turn

-----------------------------------------------------------------------------
(* The driver's tick: poll, record, and decide what to advance.            *)

Mirrored(turn) ==
    LET at == Place(chain.blocks, turn.action)
    IN  IF turn.action = 0 \/ turn.status = "signed" THEN turn.status
        ELSE IF at = {} THEN "submitted"
        ELSE LET i == CHOOSE j \in at : TRUE
             IN  CASE ~chain.blocks[i].ok -> "reverted"
                   [] chain.blocks[i].ok /\ i <= chain.deep -> "confirmed"
                   [] OTHER -> "included"

Tick(p) ==
    /\ owner = p /\ At(p, "idle") /\ Driven(db)
    /\ LET polled == [db EXCEPT !.turns = [t \in DOMAIN db.turns |->
                         [db.turns[t] EXCEPT !.status = Mirrored(db.turns[t])]]]
           reorg  == ~IsPrefix(view.blocks, chain.blocks)
           noted  == IF reorg /\ polled.stage = "driving"
                     THEN [polled EXCEPT !.stage = "paused"] ELSE polled
           over   == Ended(SubSeq(chain.blocks, 1, chain.deep))
       IN  /\ view' = [blocks |-> chain.blocks, deep |-> chain.deep]
           /\ db' = IF over THEN [Close(noted) EXCEPT !.stage = "over"] ELSE noted
           /\ Go(p, CASE over -> "release"
                      [] ~over /\ Driven(noted) /\ ~noted.cause -> "look"
                      [] OTHER -> "idle")
    /\ UNCHANGED <<chain, owner, reqs, agents, answered, faults>>

(* The run has its outcome: both agents are told to drop it.  The calls    *)
(* are best effort; one that fails is not repeated.                        *)
ReleaseAgents(p) ==
    /\ At(p, "release")
    /\ \E lost \in SUBSET Parties :
        /\ lost # {} => "unreachable" \in FaultKinds
        /\ agents' = [q \in Parties |->
               IF q \in lost THEN agents[q]
               ELSE [agents[q] EXCEPT !.released = TRUE, !.state = "released"]]
    /\ Yield(p)
    /\ UNCHANGED <<chain, view, db, owner, reqs, answered, faults>>

-----------------------------------------------------------------------------
(* TurnExecutor.advance.                                                   *)

Look(p) ==
    /\ At(p, "look")
    /\ LET t == OpenTurn(db)
       IN  procs' = [procs EXCEPT ![p] =
             CASE t = 0 -> [@ EXCEPT !.pc = "begin"]
               [] t # 0 /\ db.turns[t].action # 0 ->
                    [@ EXCEPT !.pc = "follow", !.turn = t, !.snap = db.turns[t].status]
               [] OTHER ->
                    [@ EXCEPT !.pc = "stale", !.turn = t, !.obs = db.turns[t].obs,
                              !.snap = db.turns[t].state]]
    /\ UNCHANGED <<chain, view, db, owner, reqs, agents, answered, faults>>

(* ADR-071: an observation is asked again only while what it shows lasts.  *)
Stale(p) ==
    /\ At(p, "stale")
    /\ LET obs == procs[p].obs
       IN  IF (obs.until # 0 /\ chain.time >= obs.until) \/ chain.time >= End
           THEN db' = Finish(db, Asked(p), procs[p].snap) /\ Yield(p)
           ELSE db' = db /\ Go(p, "ask")
    /\ UNCHANGED <<chain, view, owner, reqs, agents, answered, faults>>

EventsConfirmed == \A i \in DOMAIN view.blocks : view.blocks[i].ok => i <= view.deep

(* Mutant: an action a reorg set back no longer holds the next turn.       *)
ActionsSettledAlways(d) == TRUE

ActionsSettled(d) ==
    \A t \in DOMAIN d.turns : d.turns[t].action # 0 => d.turns[t].status \in Settled

Observed(time) ==
    LET hist == Offers(view.blocks)
        last == IF hist = <<>> THEN 0 ELSE answered[Last(hist)].until
    IN  [hist |-> hist, time |-> time, until |-> IF last > time THEN last ELSE 0]

Begin(p) ==
    /\ At(p, "begin")
    /\ CASE chain.time >= End -> db' = RequestTermination(db) /\ Yield(p)
         [] chain.time < End /\ EventsConfirmed /\ ~Ended(view.blocks) /\ ActionsSettled(db) ->
              /\ procs' = [procs EXCEPT ![p].pc = "add", ![p].obs = Observed(chain.time)]
              /\ UNCHANGED db
         [] OTHER -> UNCHANGED db /\ Yield(p)
    /\ UNCHANGED <<chain, view, owner, reqs, agents, answered, faults>>

(* The new turn's number is read and taken in one unit of work.            *)
AddTurn(p) ==
    /\ At(p, "add")
    /\ Len(db.turns) < MaxTurns
    /\ db' = [db EXCEPT !.turns = Append(@,
                [party |-> PartyOf(procs[p].obs), seq |-> Len(procs[p].obs.hist) + 1,
                 obs |-> procs[p].obs, state |-> "observing", done |-> FALSE,
                 decided |-> FALSE, action |-> 0, status |-> "none"])]
    /\ procs' = [procs EXCEPT ![p] =
                [@ EXCEPT !.pc = "ask", !.turn = Len(db.turns) + 1, !.snap = "observing"]]
    /\ UNCHANGED <<chain, view, owner, reqs, agents, answered, faults>>

Ask(p) ==
    LET t    == Asked(p)
        snap == procs[p].snap
    IN
    /\ At(p, "ask")
    /\ db' = IF snap = "observing"
             THEN [db EXCEPT !.turns[t].state = "deciding"] ELSE db
    /\ reqs' = reqs \cup {[party |-> db.turns[t].party, turn |-> t, obs |-> procs[p].obs,
                           from |-> p, phase |-> "sent", answer |-> 0, state |-> "none"]}
    /\ procs' = [procs EXCEPT ![p] = [@ EXCEPT !.pc = "sent", !.snap =
                    IF snap = "observing" THEN "deciding" ELSE snap]]
    /\ UNCHANGED <<chain, view, owner, agents, answered, faults>>

Answer(p, r) == At(p, "sent") /\ r.from = p /\ r.turn = Asked(p)

(* Any defect the agent reports closes the turn and stops the run; an      *)
(* agent that has lost the run is given it again, once.                    *)
Refused(p) ==
    \E r \in reqs :
        /\ Answer(p, r) /\ r.phase = "refused"
        /\ reqs' = reqs \ {r}
        /\ IF r.state \in Forgotten /\ ~procs[p].restored
           THEN Go(p, "provision") /\ UNCHANGED db
           ELSE db' = Recovery(Finish(db, r.turn, procs[p].snap)) /\ Yield(p)
        /\ UNCHANGED <<chain, view, owner, agents, answered, faults>>

(* Mutant: another process's decision on the sequence is not looked for.   *)
TakenByTurn(d, t) == d.turns[t].decided

(* UNIQUE (turn, attempt), (turn_id) and (run_id, sequence).               *)
Taken(d, t) ==
    \/ d.turns[t].decided
    \/ \E u \in DOMAIN d.turns : d.turns[u].action # 0 /\ d.turns[u].seq = d.turns[t].seq

(* The rows of an answer: what the agent decided, and the action it signed.*)
Kept(d, t) == [d EXCEPT !.turns[t].decided = TRUE]
Signed(d, t, answer) ==
    [Kept(d, t) EXCEPT !.turns[t] =
        [@ EXCEPT !.action = answer, !.status = "signed", !.state = "broadcasting"]]

(* The answer is kept before anything is sent, in one unit of work that    *)
(* looks at the termination under the run's row lock (ADR-070).  A         *)
(* duplicate key fails it, and with it the tick.                           *)
Record(p) ==
    \E r \in reqs :
        LET t == r.turn
            a == answered[r.answer]
        IN
        /\ Answer(p, r) /\ r.phase = "answered"
        /\ reqs' = reqs \ {r}
        /\ CASE a.kind \in Unsigned /\ ~db.turns[t].decided ->
                  db' = RequestTermination(Finish(Kept(db, t), t, "model_failed")) /\ Yield(p)
             [] a.kind \notin Unsigned /\ db.cause /\ ~db.turns[t].decided ->
                  db' = Finish(Kept(db, t), t, procs[p].snap) /\ Yield(p)
             [] a.kind \notin Unsigned /\ ~db.cause /\ ~Taken(db, t) ->
                  /\ db' = Signed(db, t, r.answer)
                  /\ Go(p, "submit")
             [] OTHER -> db' = Recovery(db) /\ Yield(p)
        /\ UNCHANGED <<chain, view, owner, agents, answered, faults>>

(* The relay persists and sends the action; a second call resumes it.      *)
Submit(p) ==
    /\ At(p, "submit")
    /\ db' = [db EXCEPT !.turns[Asked(p)].status = IF @ = "signed" THEN "submitted" ELSE @]
    /\ Go(p, "mark")
    /\ UNCHANGED <<chain, view, owner, reqs, agents, answered, faults>>

MarkConfirming(p) ==
    /\ At(p, "mark")
    /\ db' = [db EXCEPT !.turns[Asked(p)].state = "confirming"]
    /\ Yield(p)
    /\ UNCHANGED <<chain, view, owner, reqs, agents, answered, faults>>

Follow(p) ==
    LET t == Asked(p) IN
    /\ At(p, "follow")
    /\ CASE procs[p].snap = "signed" -> Go(p, "submit") /\ UNCHANGED db
         [] procs[p].snap = "confirmed" -> db' = Finish(db, t, "confirmed") /\ Yield(p)
         [] procs[p].snap = "reverted" ->
              db' = RequestTermination(Finish(db, t, "execution_failed")) /\ Yield(p)
         [] OTHER -> db' = [db EXCEPT !.turns[t].state = "confirming"] /\ Yield(p)
    /\ UNCHANGED <<chain, view, owner, reqs, agents, answered, faults>>

(* ADR-048: give a restarted agent the run again, then its session.        *)
Reprovision(p) ==
    LET q == db.turns[Asked(p)].party IN
    /\ At(p, "provision")
    /\ IF agents[q].state = "released"
       THEN db' = Recovery(Finish(db, Asked(p), procs[p].snap)) /\ Yield(p) /\ UNCHANGED agents
       ELSE /\ agents' = [agents EXCEPT ![q].state = IF @ = "unprovisioned" THEN "provisioned" ELSE @]
            /\ Go(p, "approve") /\ UNCHANGED db
    /\ UNCHANGED <<chain, view, owner, reqs, answered, faults>>

Reapprove(p) ==
    LET q == db.turns[Asked(p)].party IN
    /\ At(p, "approve")
    /\ IF agents[q].state \in {"unprovisioned", "released"}
       THEN db' = Recovery(Finish(db, Asked(p), procs[p].snap)) /\ Yield(p) /\ UNCHANGED agents
       ELSE /\ agents' = [agents EXCEPT ![q].state = "approved"]
            /\ procs' = [procs EXCEPT ![p].pc = "ask", ![p].restored = TRUE] /\ UNCHANGED db
    /\ UNCHANGED <<chain, view, owner, reqs, answered, faults>>

-----------------------------------------------------------------------------
(* The agent: the run's record is looked up before its lock is awaited, so *)
(* a turn that waits or decides outlives a release of the record.          *)

(* What becomes of a request; the reply to one nobody waits for is lost    *)
(* with its connection.                                                    *)
Become(r, s) == reqs' = (reqs \ {r}) \cup (IF s.from = "nobody" /\ s.phase \in Replied
                                           THEN {} ELSE {s})
Refuse(r, state) == Become(r, [r EXCEPT !.phase = "refused", !.state = state])

(* Mutant: no lock.                                                        *)
UnlockedAlways(q) == TRUE

Unlocked(q) == ~\E r \in reqs : r.party = q /\ r.phase = "deciding"

Cached(r) == agents[r.party].turns[r.turn]

(* Under the lock: the answer given before, for the same observation only, *)
(* or a new decision.                                                      *)
TakeTurn(r) ==
    LET c == Cached(r) IN
    CASE c # 0 /\ answered[c].obs = r.obs ->
            Become(r, [r EXCEPT !.phase = "answered", !.answer = c])
      [] c # 0 /\ answered[c].obs # r.obs -> Refuse(r, "idempotency_conflict")
      [] c = 0 /\ r.obs.time >= End -> Refuse(r, "session_deadline_passed")
      [] OTHER -> Become(r, [r EXCEPT !.phase = "deciding"])

(* A free lock is taken without a pause.                                   *)
Receive(r) ==
    /\ r \in reqs /\ r.phase = "sent"
    /\ CASE agents[r.party].state # "approved" -> Refuse(r, agents[r.party].state)
         [] agents[r.party].state = "approved" /\ Unlocked(r.party) -> TakeTurn(r)
         [] OTHER -> Become(r, [r EXCEPT !.phase = "queued"])
    /\ UNCHANGED <<chain, view, db, owner, procs, agents, answered, faults>>

Dequeue(r) ==
    /\ r \in reqs /\ r.phase = "queued" /\ Unlocked(r.party)
    /\ TakeTurn(r)
    /\ UNCHANGED <<chain, view, db, owner, procs, agents, answered, faults>>

StillOpen(q) == ~agents[q].released

Decide(r, kind) ==
    LET signs == kind \notin Unsigned
        n     == Len(answered) + 1
    IN
    /\ r \in reqs /\ r.phase = "deciding"
    /\ kind = "accept" => r.obs.until # 0
    /\ IF signs /\ ~StillOpen(r.party)
       THEN Refuse(r, "released") /\ UNCHANGED <<agents, answered>>
       ELSE /\ answered' = Append(answered,
                 [party |-> r.party, turn |-> r.turn, obs |-> r.obs, kind |-> kind,
                  seq |-> Len(r.obs.hist) + 1, until |-> UntilOf(kind, r.obs),
                  life |-> agents[r.party].life])
            /\ agents' = [agents EXCEPT ![r.party].turns[r.turn] = n]
            /\ Become(r, [r EXCEPT !.phase = "answered", !.answer = n])
    /\ UNCHANGED <<chain, view, db, owner, procs, faults>>

-----------------------------------------------------------------------------
(* The environment: blocks, time, the operator.                            *)

Mine(t) ==
    LET id == db.turns[t].action IN
    /\ id # 0 /\ db.turns[t].status # "signed" /\ Place(chain.blocks, id) = {}
    /\ chain' = [chain EXCEPT !.blocks = Mined(@, id, Executable(answered[id]))]
    /\ UNCHANGED <<view, db, owner, procs, reqs, agents, answered, faults>>

MineEnd ==
    /\ ~Ended(chain.blocks)
    /\ chain.time >= End \/ db.cause
    /\ chain' = [chain EXCEPT !.blocks = Mined(@, 0, TRUE)]
    /\ UNCHANGED <<view, db, owner, procs, reqs, agents, answered, faults>>

Deepen ==
    /\ chain.deep < Len(chain.blocks)
    /\ chain' = [chain EXCEPT !.deep = @ + 1]
    /\ UNCHANGED <<view, db, owner, procs, reqs, agents, answered, faults>>

Pass ==
    /\ chain.time < End
    /\ chain' = [chain EXCEPT !.time = @ + 1]
    /\ UNCHANGED <<view, db, owner, procs, reqs, agents, answered, faults>>

Resume ==
    /\ db.stage = "paused" \/ (db.stage = "recovery" /\ faults.left > 0)
    /\ ~db.cause
    /\ db' = [db EXCEPT !.stage = "driving"]
    /\ faults' = IF db.stage = "recovery" THEN [faults EXCEPT !.left = @ - 1] ELSE faults
    /\ UNCHANGED <<chain, view, owner, procs, reqs, agents, answered>>

-----------------------------------------------------------------------------
(* Faults.                                                                 *)

Inject(kind) ==
    /\ kind \in FaultKinds /\ faults.left > 0
    /\ faults' = [faults EXCEPT !.left = @ - 1]

(* An operator aborts the run.                                             *)
Abort ==
    /\ ~db.cause /\ db.stage # "over" /\ Inject("abort")
    /\ db' = RequestTermination(db)
    /\ UNCHANGED <<chain, view, owner, procs, reqs, agents, answered>>

Orphaned(rs, p) ==
    LET awaited(r) == r.from # p
    IN  {r \in rs : awaited(r)}
        \cup {[r EXCEPT !.from = "nobody"] : r \in {s \in rs : ~awaited(s) /\ s.phase \notin Replied}}

(* No answer in time: the turn is asked again at a later tick, or, past    *)
(* the outage limit, the run goes to a person.                             *)
Timeout(p) ==
    /\ Inject("unreachable")
    /\ procs[p].pc \in {"sent", "provision", "approve"}
    /\ reqs' = Orphaned(reqs, p)
    /\ db' \in {db, Recovery(db)}
    /\ Yield(p)
    /\ UNCHANGED <<chain, view, owner, agents, answered>>

(* The backend dies and is started again: RunController.recover.           *)
Crash ==
    /\ Inject("crash")
    /\ reqs' = Orphaned(reqs, owner)
    /\ Yield(owner)
    /\ UNCHANGED <<chain, view, db, owner, agents, answered>>

(* The holder stalls past its lease; another process takes the run.        *)
TakeOver(p) ==
    /\ p # owner /\ At(p, "idle")
    /\ "takeover" \in FaultKinds /\ faults.left > 0
    /\ faults' = [faults EXCEPT !.left = @ - 1, !.takeover = TRUE]
    /\ owner' = p
    /\ UNCHANGED <<chain, view, db, procs, reqs, agents, answered>>

(* An agent restarts with nothing but its root key.                        *)
AgentRestart(q) ==
    LET gone == {r \in reqs : r.party = q} IN
    /\ Inject("restart")
    /\ agents' = [agents EXCEPT ![q] = [Fresh(@.life + 1) EXCEPT !.state = "unprovisioned"]]
    /\ reqs' = reqs \ gone
    /\ procs' = [p \in Procs |-> IF \E r \in gone : r.from = p THEN Stopped ELSE procs[p]]
    /\ UNCHANGED <<chain, view, db, owner, answered>>

Reorg ==
    /\ chain.blocks # <<>> /\ Inject("reorg")
    /\ LET n == Len(chain.blocks) - 1
       IN  chain' = [chain EXCEPT !.blocks = SubSeq(@, 1, n), !.deep = IF @ > n THEN n ELSE @]
    /\ UNCHANGED <<view, db, owner, procs, reqs, agents, answered>>

-----------------------------------------------------------------------------
Advance(p) ==
    \/ Tick(p) \/ ReleaseAgents(p) \/ Look(p) \/ Stale(p) \/ Begin(p) \/ AddTurn(p)
    \/ Ask(p) \/ Refused(p) \/ Record(p) \/ Submit(p) \/ MarkConfirming(p) \/ Follow(p)
    \/ Reprovision(p) \/ Reapprove(p)

AgentStep(q) ==
    \E r \in {s \in reqs : s.party = q} :
        Receive(r) \/ Dequeue(r) \/ \E k \in Kinds : Decide(r, k)

MineNext == MineEnd \/ \E t \in DOMAIN db.turns : Mine(t)

Fault ==
    \/ Crash \/ Reorg \/ Abort
    \/ \E p \in Procs : Timeout(p) \/ TakeOver(p)
    \/ \E q \in Parties : AgentRestart(q)

Next ==
    \/ \E p \in Procs : Advance(p)
    \/ \E q \in Parties : AgentStep(q)
    \/ MineNext \/ Deepen \/ Pass \/ Resume \/ Fault

(* The loop ticks while the run is driven, an agent answers what it is     *)
(* asked, a sent transaction is mined in the end and blocks follow it.     *)
Fairness ==
    /\ \A p \in Procs : WF_vars(Advance(p))
    /\ \A q \in Parties : WF_vars(AgentStep(q))
    /\ WF_vars(MineNext) /\ WF_vars(Deepen) /\ WF_vars(Pass)

Spec == Init /\ [][Next]_vars
FairSpec == Spec /\ Fairness
-----------------------------------------------------------------------------
(* Whatever is lost, retried, taken over or reorganised, two messages      *)
(* signed for one sequence are never both kept for broadcast, and what     *)
(* executes on chain was decided on exactly the history it follows         *)
(* (executor.py _record_signed, uq_run_sequence).                          *)
ActedOnSeenHistory ==
    LET executed == Offers(chain.blocks)
    IN  /\ \A t, u \in DOMAIN db.turns :
            (t # u /\ db.turns[t].action # 0 /\ db.turns[u].action # 0)
                => db.turns[t].seq # db.turns[u].seq
        /\ \A i \in DOMAIN executed :
            answered[executed[i]].obs.hist = SubSeq(executed, 1, i - 1)

(* Unless a second process interfered, no turn is begun on a sequence      *)
(* that a recorded action may still take: one a reorg set back to          *)
(* submitted holds the next turn (builder.py _actions_settled).            *)
NoSecondDecision ==
    [][\A n \in DOMAIN db'.turns \ DOMAIN db.turns :
         ~faults.takeover =>
            \A t \in DOMAIN db.turns :
                (db.turns[t].action # 0 /\ db.turns[t].seq = db'.turns[n].seq)
                    => db.turns[t].status = "reverted"]_vars

(* An agent decides one turn at a time however often it is asked; its      *)
(* budget's check relies on that (service.py turn_lock, budget/guard.py).  *)
OneDecisionInFlight ==
    \A q \in Parties :
        Cardinality({r \in reqs : r.party = q /\ r.phase = "deciding"}) <= 1

(* A turn begun is finished, or the run stops for a person: nobody waits   *)
(* for ever on an agent, a transaction or each other (driver.py _on_turn). *)
EveryTurnEnds ==
    \A t \in 1..MaxTurns :
        (Len(db.turns) >= t) ~> \/ t \in DOMAIN db.turns /\ db.turns[t].done
                                \/ db.stage = "recovery" /\ ~db.cause
                                \/ faults.takeover
=============================================================================
