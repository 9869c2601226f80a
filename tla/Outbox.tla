------------------------------- MODULE Outbox -------------------------------
(***************************************************************************)
(* The transaction outbox of one run: the relay (relay/relay.py) that      *)
(* signs, persists, broadcasts, reconciles and replaces transactions, and  *)
(* the part of the indexer (indexer/indexer.py) that records what became   *)
(* of them, over a chain that forgets, reorders and reorganises.           *)
(*                                                                         *)
(* Tasks of one backend process interleave at their awaits: the background *)
(* driver ticks, and a `resume` request reconciles in its own handler.     *)
(* One step is one RPC answer, or one database unit of work; the process   *)
(* may die between any two.  Its memory is `task`; the database is outbox, *)
(* action, next, run, cause, open, terminating and reorgEvent.             *)
(***************************************************************************)
EXTENDS Naturals, Sequences, FiniteSets

CONSTANTS
    NumActions,     \* signed actions of the run, relayed one after another
    Driver,         \* the run's background task
    Resumers,       \* resume requests that may be served while it runs
    Threshold,      \* confirmations that make a transaction CONFIRMED
    ReplaceAfter,   \* blocks after which a transaction counts as stuck
    MaxFee,         \* fee levels up to the ceiling
    Faults,         \* which of crash, lost, evict, reorg, revert may happen
    MaxFaults,      \* bound: how many faults in a behaviour
    MaxEmpty,       \* bound: no empty block is mined past this height
    NoBlock, NoTx

Actions == 1..NumActions
Workers == {Driver} \cup Resumers

ASSUME OutboxAssumption ==
    /\ NumActions \in Nat \ {0}
    /\ Driver \notin Resumers
    /\ Threshold \in Nat \ {0} /\ ReplaceAfter \in Nat
    /\ MaxFee \in Nat \ {0} /\ MaxFaults \in Nat /\ MaxEmpty \in Nat
    /\ Faults \subseteq {"crash", "lost", "evict", "reorg", "revert"}

(* The raw bytes of a relayed transaction; their hash is the record.       *)
Tx == [action : Actions, nonce : Nat, fee : 1..MaxFee]

Block == [height : Nat, hash : Nat \X Nat]

ASSUME NoBlockAssumption == NoTx \notin Tx /\ NoBlock \notin Nat \cup Block

Statuses == {"PENDING", "SUBMITTED", "INCLUDED", "CONFIRMED", "FINALIZED",
             "REVERTED", "REPLACED", "DROPPED"}
Live == Statuses \ {"REPLACED", "DROPPED", "REVERTED"}
Included == {"INCLUDED", "CONFIRMED", "FINALIZED", "REVERTED"}
AwaitingReceipt == {"PENDING", "SUBMITTED", "REPLACED", "DROPPED"}

ActionStatuses == {"UNSIGNED", "SIGNED", "SUBMITTED"} \cup Included

VARIABLES
    (* the chain, and what every node holds unmined *)
    chain,      \* Seq of blocks: hash, the transaction of ours, whether it succeeded
    fin,        \* the finalized head
    mempool,
    faults,     \* faults so far; a block's hash is its height and this
    (* the database *)
    outbox,     \* Seq of tx_outbox rows, in order of creation
    action,     \* the status of each signed action
    next,       \* relay_nonce_next of the run's lease
    run,        \* running, paused or recovery
    cause,      \* why recovery
    open,       \* the turn of the newest signed action is unfinished
    terminating,
    reorgEvent, \* a chain.reorg run event nobody acted on
    (* the process *)
    up,
    task        \* what each worker is doing, and what it read for it

chainVars == <<chain, fin, mempool, faults>>
rowVars == <<outbox, action, next>>
runVars == <<run, cause, open, terminating, reorgEvent>>
vars == <<chainVars, rowVars, runVars, up, task>>

Row == [action : Actions, nonce : Nat, fee : 1..MaxFee, status : Statuses,
        block : Block \cup {NoBlock}, since : Nat \cup {NoBlock},
        tried : BOOLEAN]

TxOf(r) == [action |-> r.action, nonce |-> r.nonce, fee |-> r.fee]
Rows == 1..Len(outbox)
RowsOf(a) == {i \in Rows : outbox[i].action = a}

Quiet == [kind |-> "none", phase |-> "idle", step |-> "idle", head |-> 0,
          final |-> 0, stale |-> {}, todo |-> {}, row |-> 0, pending |-> {},
          found |-> NoBlock, ok |-> TRUE, nonce |-> 0, answer |-> "none",
          bad |-> "none"]

Init ==
    /\ chain = << >> /\ fin = 0 /\ mempool = {} /\ faults = 0
    /\ outbox = << >> /\ action = [a \in Actions |-> "UNSIGNED"] /\ next = 0
    /\ run = "running" /\ cause = "none" /\ open = FALSE
    /\ terminating = FALSE /\ reorgEvent = FALSE
    /\ up = TRUE /\ task = [w \in Workers |-> Quiet]

-----------------------------------------------------------------------------
(* The chain, as the node answers *)

OnChain(b) == b.height <= Len(chain) /\ chain[b.height].hash = b.hash

Mined(tx) == {h \in 1..Len(chain) : chain[h].tx = tx}

MinedNonce == Cardinality({h \in 1..Len(chain) : chain[h].tx # NoTx})

(* The node keeps, of the transactions at one nonce, the one paying most.  *)
Outbid(tx) == \E u \in mempool : u.nonce = tx.nonce /\ u.fee > tx.fee
Known(tx) == Mined(tx) # {} \/ (tx \in mempool /\ ~Outbid(tx))

PendingNonce ==
    CHOOSE n \in MinedNonce..(MinedNonce + NumActions) :
        /\ \A m \in MinedNonce..(n - 1) : \E u \in mempool : u.nonce = m
        /\ ~\E u \in mempool : u.nonce = n

Fault(kind) ==
    /\ kind \in Faults /\ faults < MaxFaults
    /\ faults' = faults + 1

Mine(tx, ok) ==
    chain' = Append(chain, [hash |-> <<Len(chain) + 1, faults>>,
                            tx |-> tx, ok |-> ok])

(* Any transaction a miner holds at the next nonce, outbid or not.         *)
MineTx(tx) ==
    /\ tx \in mempool /\ tx.nonce = MinedNonce
    /\ \/ Mine(tx, TRUE) /\ UNCHANGED faults
       \/ Mine(tx, FALSE) /\ Fault("revert")
    /\ mempool' = {u \in mempool : u.nonce # tx.nonce}
    /\ UNCHANGED <<fin, rowVars, runVars, up, task>>

MineEmpty ==
    /\ Len(chain) < MaxEmpty
    /\ Mine(NoTx, TRUE)
    /\ UNCHANGED <<fin, mempool, faults, rowVars, runVars, up, task>>

Finalize ==
    /\ fin < Len(chain)
    /\ fin' = fin + 1
    /\ UNCHANGED <<chain, mempool, faults, rowVars, runVars, up, task>>

(* A fork replaces every block above k.  Its transactions are back in the  *)
(* mempool, or some of them are lost.                                      *)
Reorg(k) ==
    LET orphans == {chain[h].tx : h \in (k + 1)..Len(chain)} \ {NoTx}
    IN  /\ Fault("reorg")
        /\ chain' = SubSeq(chain, 1, k)
        /\ \E back \in SUBSET orphans :
              /\ "evict" \in Faults \/ back = orphans
              /\ mempool' = mempool \cup back
        /\ UNCHANGED <<fin, rowVars, runVars, up, task>>

Evict(tx) ==
    /\ Fault("evict")
    /\ mempool' = mempool \ {tx}
    /\ UNCHANGED <<chain, fin, rowVars, runVars, up, task>>

-----------------------------------------------------------------------------
(* Tasks *)

At(w, phase, step) == up /\ task[w].phase = phase /\ task[w].step = step

Becomes(w, t) == task' = [task EXCEPT ![w] = t]
Step(w, step) == Becomes(w, [task[w] EXCEPT !.step = step])
Phase(w, phase, step) ==
    Becomes(w, [task[w] EXCEPT !.phase = phase, !.step = step])
Ends(w) == Becomes(w, Quiet)

(* The rows of a list are taken up one by one, by nonce and then by        *)
(* creation; the steps after that are about the row taken.                 *)
First(w) ==
    CHOOSE i \in task[w].todo : \A j \in task[w].todo :
        \/ outbox[i].nonce < outbox[j].nonce
        \/ outbox[i].nonce = outbox[j].nonce /\ i <= j
Takes(w, step) ==
    Becomes(w, [task[w] EXCEPT !.step = step, !.row = First(w), !.todo = @ \ {First(w)}])
Skips(w) == Becomes(w, [task[w] EXCEPT !.todo = @ \ {First(w)}])

Taken(w) == outbox[task[w].row]
Done(w) == Becomes(w, [task[w] EXCEPT !.step = "receipt", !.row = 0])

ToRecovery(why) == run' = "recovery" /\ cause' = why
SameRun == UNCHANGED <<run, cause>>

(* driven(): what makes the background task go on. *)
Driven ==
    \/ run = "running"
    \/ run = "paused" /\ (open \/ terminating)
    \/ run = "recovery" /\ terminating

(* A tick begins with the poll, which describes the chain at this head.    *)
PollFrom(w, kind) ==
    Becomes(w, [Quiet EXCEPT !.kind = kind, !.phase = "poll", !.step = "blocks",
                             !.head = Len(chain), !.final = fin])

BeginTick(w) ==
    /\ up /\ w = Driver /\ task[w] = Quiet
    /\ Driven
    /\ PollFrom(w, "tick")
    /\ UNCHANGED <<chainVars, rowVars, runVars, up>>

(* resume(): reconcile first, from paused or from recovery.                *)
BeginResume(w) ==
    /\ up /\ task[w] = Quiet
    /\ ~terminating
    /\ w = Driver => ~Driven
    /\ run \in {"paused", "recovery"}
    /\ Becomes(w, [Quiet EXCEPT
          !.kind = IF run = "paused" THEN "resume" ELSE "recover",
          !.phase = "reconcile", !.step = "list"])
    /\ UNCHANGED <<chainVars, rowVars, runVars, up>>

Crash ==
    /\ up
    /\ Fault("crash")
    /\ up' = FALSE
    /\ task' = [w \in Workers |-> Quiet]
    /\ UNCHANGED <<chain, fin, mempool, rowVars, runVars>>

(* recover() at process start.                                             *)
Restart ==
    /\ ~up
    /\ up' = TRUE
    /\ IF run = "recovery" THEN UNCHANGED task
       ELSE Becomes(Driver, [Quiet EXCEPT !.kind = "restart",
                                          !.phase = "reconcile", !.step = "list"])
    /\ UNCHANGED <<chainVars, rowVars, runVars>>

(* An RPC that does not answer ends the task; past the outage limit the    *)
(* run needs an operator.                                                  *)
RpcSteps == {<<"poll", "blocks">>, <<"poll", "receipt">>, <<"replace", "list">>,
             <<"replace", "receipt">>, <<"submit", "quote">>}

Unanswered(w) ==
    /\ up /\ <<task[w].phase, task[w].step>> \in RpcSteps
    /\ Fault("lost")
    /\ (task[w].kind = "tick" /\ SameRun) \/ ToRecovery("rpc_timeout")
    /\ Ends(w)
    /\ UNCHANGED <<chain, fin, mempool, rowVars, open, terminating, reorgEvent, up>>

-----------------------------------------------------------------------------
(* Indexer.poll *)

(* Recorded blocks above the finalized head that the chain no longer has.  *)
StaleBlocks(w) ==
    {b \in {outbox[i].block : i \in Rows} \ {NoBlock} :
        b.height > task[w].final /\ ~OnChain(b)}

CheckReorg(w) ==
    /\ At(w, "poll", "blocks")
    /\ Becomes(w, [task[w] EXCEPT
          !.stale = StaleBlocks(w),
          !.step = IF StaleBlocks(w) = {} THEN "waiting" ELSE "rewind"])
    /\ UNCHANGED <<chainVars, rowVars, runVars, up>>

ClearInclusion(r) == [r EXCEPT !.status = "SUBMITTED", !.block = NoBlock]

(* The actions whose inclusion is lost wait for the chain again.           *)
ResetToSubmitted(acts) ==
    [a \in Actions |-> IF a \in acts THEN "SUBMITTED" ELSE action[a]]

(* Mutant: the action keeps the status its lost block gave it.             *)
RewindRowsOnly(w) ==
    LET gone == {i \in Rows : outbox[i].block \in task[w].stale}
    IN  /\ At(w, "poll", "rewind")
        /\ outbox' = [i \in Rows |->
              IF i \in gone THEN ClearInclusion(outbox[i]) ELSE outbox[i]]
        /\ reorgEvent' = (reorgEvent \/ gone # {})
        /\ Becomes(w, [task[w] EXCEPT !.step = "waiting", !.stale = {}])
        /\ UNCHANGED <<chainVars, next, action, run, cause, open, terminating, up>>

Rewind(w) ==
    LET gone == {i \in Rows : outbox[i].block \in task[w].stale}
        acts == {outbox[i].action : i \in gone}
    IN  /\ At(w, "poll", "rewind")
        /\ outbox' = [i \in Rows |->
              IF i \in gone THEN ClearInclusion(outbox[i]) ELSE outbox[i]]
        /\ action' = ResetToSubmitted(acts)
        /\ reorgEvent' = (reorgEvent \/ gone # {})
        /\ Becomes(w, [task[w] EXCEPT !.step = "waiting", !.stale = {}])
        /\ UNCHANGED <<chainVars, next, run, cause, open, terminating, up>>

GroupOf(i) == {j \in Rows : outbox[j].nonce = outbox[i].nonce}

(* Mutant: only live transactions are waited for.                          *)
AwaitsLiveOnly(i) ==
    /\ outbox[i].status \in {"PENDING", "SUBMITTED"}
    /\ outbox[i].block = NoBlock

(* A REPLACED original and a DROPPED sibling can still be the one mined.   *)
Awaits(i) ==
    /\ outbox[i].status \in AwaitingReceipt
    /\ \A j \in GroupOf(i) : outbox[j].block = NoBlock

ListWaiting(w) ==
    /\ At(w, "poll", "waiting")
    /\ Becomes(w, [task[w] EXCEPT !.step = "receipt", !.todo = {i \in Rows : Awaits(i)}])
    /\ UNCHANGED <<chainVars, rowVars, runVars, up>>

(* A receipt in a block newer than the poll's head waits for the next.     *)
LookUp(w) ==
    LET i == First(w)
        seen == {h \in Mined(TxOf(outbox[i])) : h <= task[w].head}
    IN  /\ At(w, "poll", "receipt") /\ task[w].todo # {}
        /\ IF seen = {} THEN Skips(w)
           ELSE \E h \in seen :
              Becomes(w, [task[w] EXCEPT !.step = "include", !.ok = chain[h].ok,
                    !.row = i, !.todo = @ \ {i},
                    !.found = [height |-> h, hash |-> chain[h].hash]])
        /\ UNCHANGED <<chainVars, rowVars, runVars, up>>

(* What a mined transaction drops: the live rows at its nonce, and the     *)
(* live row of its action.                                                 *)
Rivals(i) ==
    {j \in Rows \ {i} :
        /\ \/ outbox[j].nonce = outbox[i].nonce
           \/ outbox[j].action = outbox[i].action /\ outbox[j].status \in Live
        /\ outbox[j].status \in {"PENDING", "SUBMITTED"}}

(* An action takes the status its row has just been given.                 *)
Mirrored(a, status) == [action EXCEPT ![a] = status]

RecordInclusion(w) ==
    LET i == task[w].row
        status == IF task[w].ok THEN "INCLUDED" ELSE "REVERTED"
    IN  /\ At(w, "poll", "include")
        /\ outbox' = [j \in Rows |->
              CASE j = i -> [outbox[i] EXCEPT !.status = status,
                                              !.block = task[w].found]
                [] j \in Rivals(i) -> [outbox[j] EXCEPT !.status = "DROPPED"]
                [] OTHER -> outbox[j]]
        /\ action' = Mirrored(outbox[i].action, status)
        /\ Becomes(w, [task[w] EXCEPT !.step = "receipt", !.found = NoBlock,
              !.ok = TRUE, !.row = 0, !.todo = @ \ GroupOf(i)])
        /\ UNCHANGED <<chainVars, next, runVars, up>>

DeepEnough(r, head) == head - r.block.height + 1 >= Threshold

(* The status a recorded row has by its depth below the head of this poll. *)
AtDepth(r, head, final) ==
    IF r.status \notin {"INCLUDED", "CONFIRMED"} \/ r.block = NoBlock THEN r.status
    ELSE IF r.block.height <= final THEN "FINALIZED"
    ELSE IF r.status = "INCLUDED" /\ DeepEnough(r, head) THEN "CONFIRMED"
    ELSE r.status

UpdateDepth(w) ==
    LET now(i) == AtDepth(outbox[i], task[w].head, task[w].final)
        moved == {i \in Rows : now(i) # outbox[i].status}
    IN  /\ At(w, "poll", "receipt") /\ task[w].todo = {}
        /\ outbox' = [i \in Rows |-> [outbox[i] EXCEPT !.status = now(i)]]
        /\ action' = [a \in Actions |->
              IF \E i \in moved : outbox[i].action = a
              THEN now(CHOOSE i \in moved : outbox[i].action = a)
              ELSE action[a]]
        /\ Phase(w, "replace", "list")
        /\ UNCHANGED <<chainVars, next, runVars, up>>

-----------------------------------------------------------------------------
(* Relay.replace_stuck, then what the driver does with the poll's report   *)

Stuck(i) ==
    /\ outbox[i].status = "SUBMITTED" /\ outbox[i].block = NoBlock
    /\ outbox[i].since # NoBlock
    /\ Len(chain) >= outbox[i].since + ReplaceAfter

ListStuck(w) ==
    /\ At(w, "replace", "list")
    /\ Becomes(w, [task[w] EXCEPT !.step = "receipt", !.head = 0, !.final = 0,
                                  !.todo = {i \in Rows : Stuck(i)}])
    /\ UNCHANGED <<chainVars, rowVars, runVars, up>>

(* One already mined is left alone; one at the fee ceiling keeps waiting.  *)
CheckStuck(w) ==
    /\ At(w, "replace", "receipt") /\ task[w].todo # {}
    /\ LET r == outbox[First(w)]
       IN  IF Mined(TxOf(r)) # {} \/ r.fee = MaxFee THEN Skips(w) ELSE Takes(w, "swap")
    /\ UNCHANGED <<chainVars, rowVars, runVars, up>>

NewRow(a, nonce, fee) ==
    [action |-> a, nonce |-> nonce, fee |-> fee, status |-> "PENDING",
     block |-> NoBlock, since |-> NoBlock, tried |-> FALSE]

(* The successor is signed at the same nonce, and is live in its place.    *)
Replace(w) ==
    LET r == Taken(w)
    IN  /\ At(w, "replace", "swap")
        /\ outbox' = Append([outbox EXCEPT ![task[w].row].status = "REPLACED"],
                            NewRow(r.action, r.nonce, r.fee + 1))
        /\ Becomes(w, [task[w] EXCEPT !.step = "send", !.row = Len(outbox) + 1])
        /\ UNCHANGED <<chainVars, action, next, runVars, up>>

(* A reorg not yet acted on pauses the run and reconciles its transactions.*)
Synced(w) ==
    /\ At(w, "replace", "receipt") /\ task[w].todo = {}
    /\ UNCHANGED <<chainVars, rowVars, open, terminating, up>>
    /\ CASE run # "recovery" /\ reorgEvent ->
              /\ run' = "paused" /\ reorgEvent' = FALSE /\ UNCHANGED cause
              /\ Becomes(w, [task[w] EXCEPT !.phase = "reconcile", !.step = "list",
                                !.kind = IF @ = "recover" THEN "restart" ELSE @])
         [] task[w].kind = "recover" /\ run = "recovery" ->
              /\ run' = "paused" /\ cause' = "none" /\ UNCHANGED reorgEvent
              /\ Ends(w)
         [] OTHER ->
              /\ UNCHANGED <<run, cause, reorgEvent>>
              /\ IF task[w].kind = "recover" THEN Ends(w)
                 ELSE Phase(w, "resend", "list")

(* A row no node ever accepted is reconciled on every tick.                *)
Unsent == {i \in Rows : outbox[i].status = "PENDING" /\ outbox[i].tried}

Resend(w) ==
    /\ At(w, "resend", "list")
    /\ IF Unsent = {} THEN Phase(w, "act", "follow")
       ELSE Becomes(w, [task[w] EXCEPT !.kind = "resend",
                           !.phase = "reconcile", !.step = "list"])
    /\ UNCHANGED <<chainVars, rowVars, runVars, up>>

-----------------------------------------------------------------------------
(* Relay.reconcile: look before sending                                    *)

Unfinished(i) == outbox[i].status \in {"PENDING", "SUBMITTED"}

ListUnfinished(w) ==
    /\ At(w, "reconcile", "list")
    /\ Becomes(w, [task[w] EXCEPT !.step = "receipt", !.bad = "none",
          !.todo = {i \in Rows : Unfinished(i)},
          !.pending = {i \in Rows : outbox[i].status = "PENDING"}])
    /\ UNCHANGED <<chainVars, rowVars, runVars, up>>

(* The outcome of the current row, when it needs a person; the first of    *)
(* the list decides.                                                       *)
Judged(w, outcome) ==
    Becomes(w, [task[w] EXCEPT !.step = "receipt", !.row = 0,
                   !.bad = IF @ = "none" THEN outcome ELSE @])

HasReceipt(w) ==
    /\ At(w, "reconcile", "receipt") /\ task[w].todo # {}
    /\ IF Mined(TxOf(outbox[First(w)])) # {} THEN Skips(w) ELSE Takes(w, "known")
    /\ UNCHANGED <<chainVars, rowVars, runVars, up>>

(* In the pool: one read as PENDING is recorded as sent, from this head.   *)
IsKnown(w) ==
    /\ At(w, "reconcile", "known")
    /\ CASE ~Known(TxOf(Taken(w))) -> Step(w, "nonce")
         [] Known(TxOf(Taken(w))) /\ task[w].row \in task[w].pending ->
              Becomes(w, [task[w] EXCEPT !.step = "record",
                             !.answer = "accepted", !.head = Len(chain)])
         [] OTHER -> Done(w)
    /\ UNCHANGED <<chainVars, rowVars, runVars, up>>

IsNonceFree(w) ==
    /\ At(w, "reconcile", "nonce")
    /\ Step(w, IF MinedNonce > Taken(w).nonce THEN "siblings" ELSE "send")
    /\ UNCHANGED <<chainVars, rowVars, runVars, up>>

(* Mutant: only a sibling that is still live can have taken the nonce.     *)
TakenByLive(i) ==
    \E j \in GroupOf(i) \ {i} :
        outbox[j].status \in Live /\ Mined(TxOf(outbox[j])) # {}

TakenBySibling(i) == \E j \in GroupOf(i) \ {i} : Mined(TxOf(outbox[j])) # {}

NonceConsumed(w) ==
    /\ At(w, "reconcile", "siblings")
    /\ IF TakenBySibling(task[w].row)
       THEN /\ outbox' = [outbox EXCEPT ![task[w].row].status = "DROPPED"]
            /\ Done(w)
       ELSE /\ UNCHANGED outbox
            /\ Judged(w, "nonce_conflict")
    /\ UNCHANGED <<chainVars, action, next, runVars, up>>

(* No answer while reconciling is an outcome of the row.                   *)
Unreachable(w) ==
    /\ up /\ task[w].phase = "reconcile"
    /\ Fault("lost")
    /\ \/ task[w].step \in {"known", "nonce", "siblings"} /\ Judged(w, "unreachable")
       \/ /\ task[w].step = "receipt" /\ task[w].todo # {}
          /\ Becomes(w, [task[w] EXCEPT !.todo = @ \ {First(w)},
                           !.bad = IF @ = "none" THEN "unreachable" ELSE @])
    /\ UNCHANGED <<chain, fin, mempool, rowVars, runVars, up>>

(* What each caller does with the outcomes.                                *)
Reconciled(w) ==
    LET t == task[w]
        good == t.bad = "none"
    IN  /\ At(w, "reconcile", "receipt") /\ t.todo = {}
        /\ UNCHANGED <<chainVars, rowVars, open, terminating, reorgEvent, up>>
        /\ CASE t.kind = "tick" ->
                  /\ IF good THEN SameRun ELSE ToRecovery(t.bad)
                  /\ Becomes(w, [t EXCEPT !.phase = "resend", !.step = "list",
                                          !.pending = {}, !.bad = "none"])
             [] t.kind = "resend" ->
                  /\ CASE good -> SameRun
                       [] t.bad = "unreachable" ->
                            SameRun \/ ToRecovery("rpc_timeout")
                       [] OTHER -> ToRecovery(t.bad)
                  /\ IF good THEN Becomes(w, [t EXCEPT !.kind = "tick",
                                    !.phase = "act", !.step = "follow",
                                    !.pending = {}])
                     ELSE Ends(w)
             [] t.kind = "recover" ->
                  /\ IF good THEN SameRun ELSE ToRecovery(t.bad)
                  /\ IF good THEN PollFrom(w, "recover") ELSE Ends(w)
             [] OTHER ->
                  /\ CASE ~good -> ToRecovery(t.bad)
                       [] good /\ t.kind = "resume" /\ run = "paused" ->
                            run' = "running" /\ cause' = "none"
                       [] OTHER -> SameRun
                  /\ Ends(w)

-----------------------------------------------------------------------------
(* Broadcasting stored bytes, and recording what came of it                *)

SendSteps == {<<"submit", "send">>, <<"replace", "send">>, <<"reconcile", "send">>}
RecordSteps == {<<"submit", "record">>, <<"replace", "record">>,
                <<"reconcile", "record">>}

(* A used nonce is an acceptance when the receipt is this transaction's.   *)
NodeAnswer(tx) ==
    IF Mined(tx) = {} /\ (tx.nonce < MinedNonce \/ Outbid(tx)) THEN "refused"
    ELSE "accepted"

Delivered(tx) ==
    IF NodeAnswer(tx) = "accepted" /\ Mined(tx) = {} THEN mempool \cup {tx}
    ELSE mempool

Send(w) ==
    LET tx == TxOf(Taken(w))
        heard(answer) == Becomes(w, [task[w] EXCEPT !.step = "record",
                                        !.answer = answer, !.head = Len(chain)])
    IN  /\ up /\ <<task[w].phase, task[w].step>> \in SendSteps
        /\ \/ /\ heard(NodeAnswer(tx))
              /\ mempool' = Delivered(tx)
              /\ UNCHANGED faults
           \/ /\ Fault("lost")
              /\ heard("unreachable")
              /\ mempool' \in {mempool, Delivered(tx)}
        /\ UNCHANGED <<chain, fin, rowVars, runVars, up>>

(* mark_submitted sets the status whatever it is by now; record_attempt    *)
(* leaves it.                                                              *)
RecordSend(w) ==
    LET i == task[w].row
        r == outbox[i]
        t == task[w]
        sent == t.answer = "accepted"
    IN  /\ up /\ <<t.phase, t.step>> \in RecordSteps
        /\ outbox' = [outbox EXCEPT ![i].tried = TRUE,
              ![i].status = IF sent THEN "SUBMITTED" ELSE @,
              ![i].since = IF sent /\ @ = NoBlock THEN t.head ELSE @]
        /\ action' = [action EXCEPT ![r.action] =
              IF sent /\ @ = "SIGNED" THEN "SUBMITTED" ELSE @]
        /\ CASE t.phase = "submit" -> Ends(w)
             [] t.phase = "replace" ->
                  Becomes(w, [t EXCEPT !.step = "receipt", !.row = 0,
                                       !.answer = "none", !.head = 0])
             [] OTHER ->
                  Becomes(w, [t EXCEPT !.step = "receipt", !.row = 0,
                        !.answer = "none", !.head = 0,
                        !.bad = IF @ # "none" \/ sent THEN @ ELSE t.answer])
        /\ UNCHANGED <<chainVars, next, runVars, up>>

-----------------------------------------------------------------------------
(* TurnExecutor, as far as it hands signed actions to Relay.submit_action  *)

Newest == Cardinality({a \in Actions : action[a] # "UNSIGNED"})

Halt(w) ==
    /\ At(w, "act", "follow")
    /\ ~Driven \/ terminating \/ (open /\ action[Newest] \in {"SUBMITTED", "INCLUDED"})
       \/ (~open /\ \E a \in 1..Newest : action[a] \notin {"CONFIRMED", "FINALIZED"})
       \/ (~open /\ Newest = NumActions)
    /\ Ends(w)
    /\ UNCHANGED <<chainVars, rowVars, runVars, up>>

(* A turn's decision is signed once every earlier action is confirmed.     *)
SignAction(w) ==
    /\ At(w, "act", "follow")
    /\ Driven /\ ~terminating /\ ~open /\ Newest < NumActions
    /\ \A a \in 1..Newest : action[a] \in {"CONFIRMED", "FINALIZED"}
    /\ action' = [action EXCEPT ![Newest + 1] = "SIGNED"]
    /\ open' = TRUE
    /\ Phase(w, "submit", "history")
    /\ UNCHANGED <<chainVars, outbox, next, run, cause, terminating, reorgEvent, up>>

CloseTurn(w) ==
    /\ At(w, "act", "follow")
    /\ Driven /\ ~terminating /\ open
    /\ action[Newest] \in {"CONFIRMED", "FINALIZED", "REVERTED"}
    /\ open' = FALSE
    /\ terminating' = (action[Newest] = "REVERTED")
    /\ Ends(w)
    /\ UNCHANGED <<chainVars, rowVars, run, cause, reorgEvent, up>>

Resubmit(w) ==
    /\ At(w, "act", "follow")
    /\ Driven /\ ~terminating /\ open /\ action[Newest] = "SIGNED"
    /\ Phase(w, "submit", "history")
    /\ UNCHANGED <<chainVars, rowVars, runVars, up>>

History(a) == RowsOf(a)

(* An action with any transaction is never signed into another: its newest *)
(* is sent if no node accepted it yet, and otherwise left alone.           *)
ResumeHistory(w) ==
    LET rows == History(Newest)
        last == CHOOSE i \in rows : \A j \in rows : j <= i
    IN  /\ At(w, "submit", "history")
        /\ CASE rows = {} -> Step(w, "quote")
             [] rows # {} /\ outbox[last].status = "PENDING" ->
                  Becomes(w, [task[w] EXCEPT !.step = "send", !.row = last])
             [] OTHER -> Ends(w)
        /\ UNCHANGED <<chainVars, rowVars, runVars, up>>

Quote(w) ==
    /\ At(w, "submit", "quote")
    /\ Becomes(w, [task[w] EXCEPT !.step = "persist", !.nonce = PendingNonce])
    /\ UNCHANGED <<chainVars, rowVars, runVars, up>>

(* Mutant: the lease's own counter is not a floor.                         *)
TakeChainNonce(chainNonce) == chainNonce

(* take_relay_nonce: the larger of the lease's counter and the chain's.    *)
TakeNonce(chainNonce) == IF next >= chainNonce THEN next ELSE chainNonce

(* The nonce is taken and the row inserted in one unit of work.            *)
Persist(w) ==
    LET nonce == TakeNonce(task[w].nonce)
    IN  /\ At(w, "submit", "persist")
        /\ next' = nonce + 1
        /\ outbox' = Append(outbox, NewRow(Newest, nonce, 1))
        /\ Becomes(w, [task[w] EXCEPT !.step = "send", !.nonce = 0,
                                      !.row = Len(outbox) + 1])
        /\ UNCHANGED <<chainVars, action, runVars, up>>

-----------------------------------------------------------------------------
Poll(w) == CheckReorg(w) \/ Rewind(w) \/ ListWaiting(w) \/ LookUp(w)
           \/ RecordInclusion(w) \/ UpdateDepth(w)
ReplaceStuck(w) == ListStuck(w) \/ CheckStuck(w) \/ Replace(w)
Reconcile(w) == ListUnfinished(w) \/ HasReceipt(w) \/ IsKnown(w)
                \/ IsNonceFree(w) \/ NonceConsumed(w) \/ Reconciled(w)
Broadcast(w) == Send(w) \/ RecordSend(w)
Act(w) == Halt(w) \/ SignAction(w) \/ CloseTurn(w) \/ Resubmit(w)
          \/ ResumeHistory(w) \/ Quote(w) \/ Persist(w)
Work(w) == Poll(w) \/ ReplaceStuck(w) \/ Synced(w) \/ Resend(w)
           \/ Reconcile(w) \/ Broadcast(w) \/ Act(w)

ChainStep ==
    \/ \E tx \in mempool : MineTx(tx) \/ Evict(tx)
    \/ MineEmpty
    \/ Finalize
    \/ \E k \in fin..(Len(chain) - 1) : Reorg(k)

Next ==
    \/ ChainStep
    \/ \E w \in Workers :
          BeginTick(w) \/ BeginResume(w) \/ Work(w) \/ Unanswered(w) \/ Unreachable(w)
    \/ Crash
    \/ Restart

Spec == Init /\ [][Next]_vars

(* The driver's task and the process supervisor keep going, an operator    *)
(* resumes a run that waits for one, and miners and the finalized head     *)
(* move on.                                                                *)
FairSpec ==
    /\ Spec
    /\ WF_vars(BeginTick(Driver) \/ BeginResume(Driver) \/ Work(Driver))
    /\ WF_vars(Restart)
    /\ WF_vars(\E tx \in mempool : MineTx(tx))
    /\ WF_vars(Finalize)

-----------------------------------------------------------------------------
(* Properties *)

(* One action is signed into one nonce, once, and a nonce carries one      *)
(* action: whatever was lost, evicted, replaced or reorganised away.       *)
NonceIdentifiesAction ==
    \A i, j \in Rows :
        outbox[i].action = outbox[j].action <=> outbox[i].nonce = outbox[j].nonce

(* A row says it was mined exactly when it says in which block, so no row  *)
(* with a block is left where neither the receipt poll nor the depth       *)
(* update looks.  It fails when a resume reconciles beside a poll: see     *)
(* "Disagreements seen" in the README.                                     *)
MinedHasBlock ==
    \A i \in Rows : outbox[i].block # NoBlock <=> outbox[i].status \in Included

(* The rows the run's gas and fees are added up from: those mined.         *)
Charged(a) == {i \in RowsOf(a) : outbox[i].block # NoBlock}

(* What the turn executor reads in signed_actions is what the outbox says  *)
(* of the one transaction of that action which was mined, and the metrics  *)
(* charge the action's gas for no other (executor.py _follow, figures.py   *)
(* chain_cost).                                                            *)
ActionMirrorsRow ==
    \A a \in Actions :
        /\ Cardinality(Charged(a)) <= 1
        /\ {outbox[i].status : i \in Charged(a)}
              = IF action[a] \in Included THEN {action[a]} ELSE {}

(* Recovery never blames another user of the relay key for a nonce one of  *)
(* the outbox's own transactions took.                                     *)
NoFalseConflict == cause # "nonce_conflict"

(* A transaction called finalized is in a block at or below the finalized  *)
(* head of the chain as it is.  It fails when a fork's replacement is      *)
(* final before the next poll: see "Disagreements seen" in the README.     *)
FinalizedIsFinal ==
    \A i \in Rows : outbox[i].status = "FINALIZED" =>
        LET b == outbox[i].block IN
        b.height <= fin /\ OnChain(b) /\ chain[b.height].tx = TxOf(outbox[i])

(* A signed action is never lost between the database and the chain: it    *)
(* ends up finalized, or reverted, across crashes at any step.             *)
EveryActionLands ==
    \A a \in Actions :
        action[a] = "SIGNED" ~> action[a] \in {"FINALIZED", "REVERTED"}
=============================================================================
