----------------------------- MODULE EventIndex -----------------------------
(***************************************************************************)
(* The indexer's poll over a chain that moves under it: which of the       *)
(* exchange's logs the database holds as canonical, at what depth, and     *)
(* which balances it kept of a finished session.  A poll is a sequence of  *)
(* awaited reads, so blocks are mined, replaced and finalized between any  *)
(* two of its steps; it may fail at each of them, and the process may die. *)
(*                                                                         *)
(* The two transactions are those of one watched run's session, its opening *)
(* and its end.  What a poll does to the outbox's own rows is module Outbox. *)
(***************************************************************************)
EXTENDS Naturals, Sequences, FiniteSets

CONSTANTS
    Salts,          \* what else tells the blocks of one fork from another's
    Original,       \* the first fork
    Sent,           \* the transactions of Txs this backend sent
    Threshold,      \* the run's confirmation threshold
    Chunk,          \* log_chunk_blocks
    Slow,           \* BOOLEAN: a block is polled before it is final
    MaxHeight,      \* bound: blocks mined above the genesis
    MaxReorgs,      \* bound: times the chain replaces blocks
    MaxFaults       \* bound: failed polls and restarts

Txs == {"open", "end"}
Start == 1

ASSUME EventIndexAssumption ==
    /\ Original \in Salts /\ Sent \subseteq Txs
    /\ Threshold \in Nat \ {0} /\ Chunk \in Nat \ {0}
    /\ Slow \in BOOLEAN
    /\ {MaxHeight, MaxReorgs, MaxFaults} \subseteq Nat

VARIABLES
    chain,      \* the blocks above the genesis: [salt, txs]
    final,      \* the finalized height
    rows,       \* chain_events
    snaps,      \* balance_snapshots of the terminal block
    next,       \* the indexer's _next_block
    poll,       \* the poll in progress
    last,       \* the last complete poll: its head, what it reported, and
                \* how often the chain had replaced blocks when it began
    reorgs,     \* how often the chain has replaced blocks
    faults      \* how often a poll has failed or the process died

vars == <<chain, final, rows, snaps, next, poll, last, reorgs, faults>>
chainVars == <<chain, final, reorgs>>
indexerVars == <<rows, snaps, next, last>>

Block == [salt : Salts, txs : SUBSET Txs]
Min2(a, b) == IF a <= b THEN a ELSE b
Max2(a, b) == IF a >= b THEN a ELSE b

(* A block's hash commits to everything below it. *)
Hash(n) == SubSeq(chain, 1, n)
Height(hash) == Len(hash)

(* The exchange's logs between two heights, each by its block and          *)
(* transaction.                                                            *)
LogsIn(from, to) ==
    UNION {{[hash |-> Hash(n), tx |-> t] : t \in chain[n].txs} :
               n \in from..Min2(to, Len(chain))}

Canonical == {r \in rows : r.canonical}
Kept == {s \in snaps : s.canonical}

NoPoll == [pc |-> "idle", began |-> 0, head |-> 0, fin |-> 0, unchecked |-> {}, stale |-> {},
           logs |-> {}, from |-> 0, due |-> << >>, read |-> << >>]

NothingPolled == [head |-> 0, began |-> 0, terminal |-> << >>]

Init ==
    /\ chain = << >> /\ final = 0 /\ reorgs = 0
    /\ rows = {} /\ snaps = {}
    /\ next = Start
    /\ poll = NoPoll
    /\ last = NothingPolled
    /\ faults = 0

-----------------------------------------------------------------------------
(* The chain *)

MinedIn(blocks) == UNION {blocks[n].txs : n \in DOMAIN blocks}

(* A session ends after it opened; both can be in one block. *)
Fits(blocks, b) ==
    /\ b.txs \cap MinedIn(blocks) = {}
    /\ "end" \in b.txs => "open" \in MinedIn(blocks) \cup b.txs

(* A block goes on with the fork of its parent.                            *)
Mine(b) ==
    /\ Len(chain) < MaxHeight
    /\ b.salt = (IF chain = << >> THEN Original ELSE chain[Len(chain)].salt)
    /\ Fits(chain, b)
    /\ chain' = Append(chain, b)
    /\ UNCHANGED <<final, indexerVars, poll, reorgs, faults>>

(* Blocks above the finalized head give way to another; what they held is  *)
(* mined again, now or later, or never.                                    *)
Reorg(n, b) ==
    /\ reorgs < MaxReorgs
    /\ n \in final + 1..Len(chain)
    /\ Fits(SubSeq(chain, 1, n - 1), b) /\ b.salt # chain[n].salt
    /\ chain' = Append(SubSeq(chain, 1, n - 1), b)
    /\ reorgs' = reorgs + 1
    /\ UNCHANGED <<final, indexerVars, poll, faults>>

(* No replacement of blocks since the last complete poll began.            *)
Steady == last.began = reorgs

(* Blocks become final.  If that is slow enough, a whole poll that saw no  *)
(* replacement has read a block by then.                                   *)
Finalize ==
    /\ final < Len(chain)
    /\ Slow => Steady /\ final < last.head
    /\ final' = final + 1
    /\ UNCHANGED <<chain, indexerVars, poll, reorgs, faults>>

-----------------------------------------------------------------------------
(* The poll, one await at a time. *)

At(pc) == poll.pc = pc
After(pc) == [NoPoll EXCEPT !.pc = pc, !.began = poll.began, !.head = poll.head]
(* The head is read, and with it the poll begins: a replacement from here  *)
(* on is the next poll's to see.                                           *)
ReadHead ==
    /\ At("idle")
    /\ poll' = [NoPoll EXCEPT !.pc = "finalized", !.began = reorgs,
                              !.head = Len(chain)]
    /\ UNCHANGED <<chainVars, indexerVars, faults>>

(* Every stored block hash above the finalized head. *)
Watched(fin) ==
    {r.hash : r \in {x \in Canonical \cup Kept : Height(x.hash) > fin}}

ReadFinalized ==
    /\ At("finalized")
    /\ LET fin == Min2(final, poll.head)
       IN  poll' = [poll EXCEPT !.pc = "checking", !.fin = fin,
                                !.unchecked = Watched(fin)]
    /\ UNCHANGED <<chainVars, indexerVars, faults>>

(* Mutant: a height above the head has lost nothing.                       *)
GoneBelowHead(hash) == Height(hash) <= Len(chain) /\ Hash(Height(hash)) # hash

(* The chain has another block at the hash's height, or none: a height     *)
(* above the head has lost every block stored at it.                       *)
Gone(hash) == Height(hash) > Len(chain) \/ Hash(Height(hash)) # hash

(* One height's block is read and compared, the lowest first.              *)
CheckBlock ==
    /\ At("checking") /\ poll.unchecked # {}
    /\ LET n == CHOOSE m \in {Height(h) : h \in poll.unchecked} :
                   \A h \in poll.unchecked : m <= Height(h)
           at == {h \in poll.unchecked : Height(h) = n}
       IN  poll' = [poll EXCEPT !.unchecked = @ \ at,
                                !.stale = @ \cup {h \in at : Gone(h)}]
    /\ UNCHANGED <<chainVars, indexerVars, faults>>

Invalidated(set, stale) ==
    {IF x.hash \in stale THEN [x EXCEPT !.canonical = FALSE] ELSE x : x \in set}

Fork(stale) == CHOOSE n \in {Height(h) : h \in stale} :
                   \A h \in stale : n <= Height(h)

(* Mutant: the balances of replaced blocks stay canonical.                 *)
RewindEvents ==
    /\ At("checking") /\ poll.unchecked = {} /\ poll.stale # {}
    /\ rows' = Invalidated(rows, poll.stale)
    /\ next' = Min2(next, Fork(poll.stale))
    /\ poll' = [After("receipts") EXCEPT !.fin = poll.fin]
    /\ UNCHANGED <<chainVars, snaps, last, faults>>

(* One unit of work invalidates what the chain no longer has; the scan     *)
(* resumes from the lowest height that changed.                            *)
Rewind ==
    /\ At("checking") /\ poll.unchecked = {} /\ poll.stale # {}
    /\ rows' = Invalidated(rows, poll.stale)
    /\ snaps' = Invalidated(snaps, poll.stale)
    /\ next' = Min2(next, Fork(poll.stale))
    /\ poll' = [After("receipts") EXCEPT !.fin = poll.fin]
    /\ UNCHANGED <<chainVars, last, faults>>

NothingStale ==
    /\ At("checking") /\ poll.unchecked = {} /\ poll.stale = {}
    /\ poll' = [After("receipts") EXCEPT !.fin = poll.fin]
    /\ UNCHANGED <<chainVars, indexerVars, faults>>

(* Mutant: the scan goes on from where the last poll stopped.              *)
ScanFromNext(fin) == Max2(Start, next)

(* Everything above the finalized head is read again.                      *)
ScanFrom(fin) == Max2(Start, Min2(next, fin + 1))

(* Receipts of this backend's transactions: their logs, if mined at or     *)
(* below the head the poll read.                                           *)
ReadReceipts ==
    /\ At("receipts")
    /\ poll' = [After("scanning") EXCEPT !.from = ScanFrom(poll.fin),
                   !.logs = {l \in LogsIn(1, poll.head) : l.tx \in Sent}]
    /\ UNCHANGED <<chainVars, indexerVars, faults>>

ScanChunk ==
    /\ At("scanning") /\ poll.from <= poll.head
    /\ LET end == Min2(poll.from + Chunk - 1, poll.head)
       IN  poll' = [poll EXCEPT !.from = end + 1,
                                !.logs = @ \cup LogsIn(poll.from, end)]
    /\ UNCHANGED <<chainVars, indexerVars, faults>>

Depth(hash, head) == IF head + 1 >= Height(hash) THEN head + 1 - Height(hash) ELSE 0

(* Inserted, or made canonical again; a canonical row is left as it is.    *)
Recorded(log, depth) ==
    LET same == {r \in rows : r.hash = log.hash /\ r.tx = log.tx /\ r.canonical}
    IN  IF same # {} THEN same
        ELSE {[hash |-> log.hash, tx |-> log.tx, canonical |-> TRUE, depth |-> depth]}

Record ==
    /\ At("scanning") /\ poll.from > poll.head
    /\ rows' = {r \in rows : \A l \in poll.logs : l.hash # r.hash \/ l.tx # r.tx}
               \cup UNION {Recorded(l, Depth(l.hash, poll.head)) : l \in poll.logs}
    /\ next' = Max2(next, poll.head + 1)
    /\ poll' = After("depth")
    /\ UNCHANGED <<chainVars, snaps, last, faults>>

(* Every event of a watched run, at any height, and every one above the    *)
(* finalized head: in this module, every canonical one.                    *)
UpdateDepth ==
    /\ At("depth")
    /\ rows' = {IF r.canonical /\ poll.head + 1 >= Height(r.hash)
                THEN [r EXCEPT !.depth = Depth(r.hash, poll.head)] ELSE r :
                    r \in rows}
    /\ poll' = After("terminal")
    /\ UNCHANGED <<chainVars, snaps, next, last, faults>>

(* The first canonical terminal event, if it is deep enough and its        *)
(* session's opening is canonical too.                                     *)
Due ==
    LET ends == {r \in Canonical : r.tx = "end"}
        first == CHOOSE r \in ends : \A x \in ends : Height(r.hash) <= Height(x.hash)
    IN  IF ends = {} \/ ~ \E r \in Canonical : r.tx = "open" THEN << >>
        ELSE IF poll.head + 1 < Height(first.hash) + Threshold THEN << >>
        ELSE first.hash

(* The poll is over, and reports.                                          *)
Complete(terminal) ==
    /\ last' = [head |-> poll.head, began |-> poll.began, terminal |-> terminal]
    /\ poll' = NoPoll

ConfirmTerminal ==
    /\ At("terminal")
    /\ \/ /\ \/ Due = << >>
             \/ \E s \in Kept : Height(s.hash) = Height(Due)
          /\ Complete(Due)
       \/ /\ Due # << >>
          /\ ~ \E s \in Kept : Height(s.hash) = Height(Due)
          /\ poll' = [poll EXCEPT !.pc = "block", !.due = Due]
          /\ UNCHANGED last
    /\ UNCHANGED <<chainVars, rows, snaps, next, faults>>

(* The block a snapshot is of is read by its number ...                    *)
ReadBlock ==
    /\ At("block")
    /\ \/ /\ Height(poll.due) <= Len(chain)
          /\ poll' = [poll EXCEPT !.pc = "balances", !.read = Hash(Height(poll.due))]
          /\ UNCHANGED last
       \/ /\ Height(poll.due) > Len(chain)
          /\ Complete(poll.due)
    /\ UNCHANGED <<chainVars, rows, snaps, next, faults>>

(* A snapshot of a block already known is made canonical again as it was.  *)
Added(read) ==
    LET known == {s \in snaps : s.hash = read.hash}
    IN  IF known = {} THEN snaps \cup {read}
        ELSE (snaps \ known) \cup {[s EXCEPT !.canonical = TRUE] : s \in known}

(* ... and then the balances at that number, which are those of whatever   *)
(* block is there by then.                                                 *)
ReadBalances ==
    /\ At("balances") /\ Height(poll.read) <= Len(chain)
    /\ snaps' = Added([hash |-> poll.read, canonical |-> TRUE,
                       of |-> Hash(Height(poll.read))])
    /\ Complete(poll.due)
    /\ UNCHANGED <<chainVars, rows, next, faults>>

(* A number that is no block's any more is refused, and the poll fails.    *)
BalancesRefused ==
    /\ At("balances") /\ Height(poll.read) > Len(chain)
    /\ poll' = NoPoll
    /\ UNCHANGED <<chainVars, indexerVars, faults>>

(* The RPC does not answer: the poll fails, and what it committed stays.   *)
Fail ==
    /\ ~ At("idle") /\ faults < MaxFaults
    /\ poll' = NoPoll
    /\ faults' = faults + 1
    /\ UNCHANGED <<chainVars, indexerVars>>

(* The process dies: the next one rescans from the deployment's block.     *)
Restart ==
    /\ faults < MaxFaults
    /\ poll' = NoPoll
    /\ next' = Start
    /\ last' = NothingPolled
    /\ faults' = faults + 1
    /\ UNCHANGED <<chainVars, rows, snaps>>

Step ==
    \/ ReadHead \/ ReadFinalized \/ CheckBlock \/ Rewind \/ NothingStale
    \/ ReadReceipts \/ ScanChunk \/ Record \/ UpdateDepth \/ ConfirmTerminal
    \/ ReadBlock \/ ReadBalances \/ BalancesRefused

Next ==
    \/ \E b \in Block : Mine(b) \/ \E n \in 1..MaxHeight : Reorg(n, b)
    \/ Finalize
    \/ Step
    \/ Fail
    \/ Restart

Spec == Init /\ [][Next]_vars

(* The driver and the service poll again and again.                        *)
FairSpec == Spec /\ WF_vars(Step)

-----------------------------------------------------------------------------
(* Properties *)

(* A poll that saw no replacement leaves the canonical rows, up to the     *)
(* head it read, exactly the chain's logs: no row of a replaced block, no  *)
(* log missing at a height an earlier poll had already passed.             *)
CanonicalIsChain ==
    Steady => {[hash |-> r.hash, tx |-> r.tx] :
                  r \in {x \in Canonical : Height(x.hash) <= last.head}}
              = LogsIn(1, last.head)

(* A terminal event that such a poll reports is on the chain under its     *)
(* threshold of blocks, its row says so, and the balances kept of it are   *)
(* filed under its own block and not one that it replaced.                 *)
TerminalBacked ==
    Steady /\ last.terminal # << >> =>
        /\ Height(last.terminal) + Threshold <= last.head + 1
        /\ \E r \in Canonical : /\ r.hash = last.terminal /\ r.tx = "end"
                                /\ r.depth >= Threshold
        /\ {s.hash : s \in {x \in Kept : Height(x.hash) = Height(last.terminal)}}
               = {last.terminal}

(* However the blocks were replaced, once the chain rests the canonical    *)
(* rows become its logs and stay so, failed polls and restarts included.   *)
Converges ==
    <>[]({[hash |-> r.hash, tx |-> r.tx] : r \in Canonical} = LogsIn(1, Len(chain)))

(* docs/data_model.md, balance_snapshots: each party's balances at a       *)
(* block.  The amounts kept as canonical are those of the block they are   *)
(* filed under.  It does not hold when a block is replaced between two     *)
(* reads: see "Disagreements seen" in the README.                          *)
SnapshotsOfTheirBlock == \A s \in Kept : s.of = s.hash

=============================================================================
