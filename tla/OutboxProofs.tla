---------------------------- MODULE OutboxProofs ----------------------------
(***************************************************************************)
(* Theorems about Outbox, for any number of actions, fees, thresholds and  *)
(* faults: one nonce for one action, whoever reconciles beside the driver; *)
(* and, while the driver works alone, what is recorded of an action is its *)
(* mined transaction's, and no nonce is blamed on a foreign user.          *)
(***************************************************************************)
EXTENDS Outbox, FiniteSetTheorems, SequenceTheorems, WellFoundedInduction, TLAPS

-----------------------------------------------------------------------------
(* Types *)

Kinds == {"none", "tick", "resend", "recover", "resume", "restart"}
Phases == {"idle", "poll", "replace", "reconcile", "resend", "act", "submit"}
Answers == {"none", "accepted", "refused", "unreachable"}
Outcomes == {"none", "nonce_conflict", "refused", "unreachable"}

(* The steps that are about the row taken.                                 *)
Held == {"include", "swap", "known", "nonce", "siblings", "send", "record"}
Steps == Held \cup {"idle", "blocks", "rewind", "waiting", "receipt", "list",
                    "follow", "history", "quote", "persist"}

Task == [kind : Kinds, phase : Phases, step : Steps, head : Nat, final : Nat,
         stale : SUBSET Block, todo : SUBSET Nat, row : Nat, pending : SUBSET Nat,
         found : Block \cup {NoBlock}, ok : BOOLEAN, nonce : Nat,
         answer : Answers, bad : Outcomes]

ChainBlock == [hash : Nat \X Nat, tx : Tx \cup {NoTx}, ok : BOOLEAN]

Typed ==
    /\ chain \in Seq(ChainBlock) /\ fin \in Nat /\ faults \in Nat
    /\ mempool \subseteq Tx
    /\ outbox \in Seq(Row) /\ action \in [Actions -> ActionStatuses] /\ next \in Nat
    /\ open \in BOOLEAN
    /\ task \in [Workers -> Task]

-----------------------------------------------------------------------------
(* One nonce for one action *)

Signed == {a \in Actions : action[a] # "UNSIGNED"}

(* Actions are signed in order, and the relay's rows are about signed      *)
(* actions, at nonces the lease's counter has passed.                      *)
KeysInv ==
    /\ NonceIdentifiesAction
    /\ \A i \in Rows : outbox[i].nonce < next /\ outbox[i].action \in Signed
    /\ \A a \in Actions : a \in Signed <=> a <= Newest
    /\ open => Newest # 0

(* What the node holds was relayed from the outbox.                        *)
Relayed(tx) == \E i \in Rows : tx = TxOf(outbox[i])
PoolInv ==
    /\ \A tx \in mempool : Relayed(tx)
    /\ \A h \in 1..Len(chain) : chain[h].tx # NoTx => Relayed(chain[h].tx)

(* Only the driver signs, and an action it asks a nonce for has none.      *)
TaskInv(w, t) ==
    /\ t.kind \in {"tick", "resend"} => w = Driver
    /\ t.phase \in {"poll", "replace"} => t.kind \in {"tick", "recover"}
    /\ t.phase \in {"resend", "act", "submit"} => t.kind = "tick"
    /\ t.todo \subseteq Rows
    /\ t.step \in Held => t.row \in Rows
    /\ t.step = "include" => t.found \in Block
    /\ t.step = "swap" => outbox[t.row].fee < MaxFee
    /\ t.phase = "submit" => Newest # 0
    /\ t.phase = "submit" /\ t.step \in {"quote", "persist"} => RowsOf(Newest) = {}

Base == Typed /\ KeysInv /\ PoolInv /\ \A w \in Workers : TaskInv(w, task[w])

-----------------------------------------------------------------------------
(* What is recorded of an action *)

Clear(i) == outbox[i].block = NoBlock

OneCharged ==
    \A i, j \in Rows :
        (outbox[i].action = outbox[j].action /\ ~Clear(i) /\ ~Clear(j)) => i = j

(* A row with a block gives its action its status; without one, nothing    *)
(* says that the action was mined.                                         *)
Mirrors ==
    /\ \A i \in Rows : ~Clear(i) => action[outbox[i].action] = outbox[i].status
    /\ \A a \in Actions : action[a] \in Included => \E i \in RowsOf(a) : ~Clear(i)

(* What a task has listed, or taken, is not recorded as mined; a poll's    *)
(* receipts are for nonces no row was mined at.                            *)
Listed(t) == t.todo \cup (IF t.step \in Held THEN {t.row} ELSE {})
ListInv(t) ==
    /\ \A i \in Listed(t) : Clear(i)
    /\ t.phase = "poll" => \A i \in Listed(t) : \A j \in GroupOf(i) : Clear(j)

MirrorInv ==
    /\ MinedHasBlock /\ OneCharged /\ Mirrors
    /\ \A w \in Workers : ListInv(task[w])

-----------------------------------------------------------------------------
(* Who took a nonce *)

(* Every nonce below the mined one is some block's.                        *)
NoncesMined ==
    \A n \in 0..(MinedNonce - 1) : \E h \in 1..Len(chain) :
        chain[h].tx # NoTx /\ chain[h].tx.nonce = n

Stays(b) == b.height # 0 /\ OnChain(b)
BlocksStay == \A i \in Rows : ~Clear(i) => Stays(outbox[i].block)

(* The row of a nonce still waited for pays more than any other.           *)
PaysMost ==
    \A i \in Rows : Unfinished(i) =>
        \A j \in GroupOf(i) \ {i} : outbox[j].fee < outbox[i].fee

(* The chain's transactions and the node's do not have this row's.         *)
Unseen(i) == Mined(TxOf(outbox[i])) = {} /\ TxOf(outbox[i]) \notin mempool

(* What a task holds is waited for; a row looked for and not found is not  *)
(* there until the task sends it; no outcome is a conflict.                *)
LookInv(t) ==
    /\ t.stale = {} /\ t.bad # "nonce_conflict"
    /\ t.found # NoBlock => Stays(t.found)
    /\ t.phase = "resend" => t.todo = {}
    /\ t.phase \in {"replace", "reconcile"} =>
         /\ \A i \in t.todo : Unfinished(i)
         /\ t.step \in Held => t.row \notin t.todo
    /\ t.phase \in {"replace", "reconcile", "submit"} /\ t.step \in Held =>
         Unfinished(t.row)
    /\ t.phase = "reconcile" /\ t.step \in {"nonce", "siblings"} =>
         /\ Unseen(t.row)
         /\ t.step = "siblings" => MinedNonce > outbox[t.row].nonce

ConflictInv ==
    /\ NoncesMined /\ BlocksStay /\ PaysMost /\ NoFalseConflict
    /\ \A w \in Workers : LookInv(task[w])

-----------------------------------------------------------------------------
(* About the operators *)

LEMMA QuietTask == Quiet \in Task
  BY DEF Quiet, Task, Kinds, Phases, Steps, Held, Answers, Outcomes

(* Sets of rows have a first one, by nonce and then by creation.           *)
LEMMA LeastOf ==
    ASSUME NEW S, S \subseteq Nat, S # {}
    PROVE  \E x \in S : \A y \in S : x <= y
<1> DEFINE Below == OpToRel(<, Nat)
<1>1. IsWellFoundedOn(Below, Nat)
  BY NatLessThanWellFounded
<1>2. \A y, x \in Nat : ~(<<y, x>> \in Below) => x <= y
  BY DEF OpToRel
<1> HIDE DEF Below
<1>3. PICK x \in S : \A y \in S : ~(<<y, x>> \in Below)
  BY <1>1, WFMin
<1>4. \A y \in S : x <= y
  BY <1>2, <1>3
<1> QED
  BY <1>4

LEMMA RowTyped ==
    ASSUME Typed, NEW i \in Rows
    PROVE  outbox[i] \in Row /\ outbox[i].nonce \in Nat /\ outbox[i].action \in Actions
             /\ i \in Nat /\ TxOf(outbox[i]) \in Tx
<1>1. outbox[i] \in Row /\ i \in Nat
  BY ElementOfSeq, LenProperties DEF Typed, Rows
<1> QED
  BY <1>1 DEF Row, TxOf, Tx

LEMMA FirstListed ==
    ASSUME Typed, NEW w \in Workers, task[w].todo \subseteq Rows, task[w].todo # {}
    PROVE  First(w) \in task[w].todo
<1> DEFINE S == task[w].todo
           N == {outbox[i].nonce : i \in S}
<1>1. \A i \in S : i \in Nat /\ outbox[i].nonce \in Nat
  BY RowTyped
<1>2. N \subseteq Nat /\ N # {}
  BY <1>1
<1> HIDE DEF N
<1>3. PICK n \in N : \A m \in N : n <= m
  BY <1>2, LeastOf
<1> USE DEF N
<1> DEFINE L == {i \in S : outbox[i].nonce = n}
<1>4. L \subseteq Nat /\ L # {}
  BY <1>1, <1>3
<1> HIDE DEF L
<1>5. PICK i \in L : \A j \in L : i <= j
  BY <1>4, LeastOf
<1>6. i \in S /\ \A j \in S :
         outbox[i].nonce < outbox[j].nonce \/ (outbox[i].nonce = outbox[j].nonce /\ i <= j)
  <2>1. i \in S /\ outbox[i].nonce = n
    BY <1>5 DEF L
  <2>2. ASSUME NEW j \in S
        PROVE  outbox[i].nonce < outbox[j].nonce \/ (outbox[i].nonce = outbox[j].nonce /\ i <= j)
    <3>1. n <= outbox[j].nonce /\ n \in Nat /\ outbox[j].nonce \in Nat
      BY <1>1, <1>2, <1>3
    <3>2. CASE outbox[j].nonce = n
      BY <3>2, <2>1, <1>5 DEF L
    <3>3. CASE outbox[j].nonce # n
      BY <3>1, <3>3, <2>1
    <3> QED
      BY <3>2, <3>3
  <2> QED
    BY <2>1, <2>2
<1> QED
  BY <1>6 DEF First

LEMMA MinedIsNat ==
    ASSUME chain \in Seq(ChainBlock)
    PROVE  MinedNonce \in Nat /\ IsFiniteSet({h \in 1..Len(chain) : chain[h].tx # NoTx})
<1>1. Len(chain) \in Nat
  BY LenProperties
<1>2. IsFiniteSet(1..Len(chain))
  BY <1>1, FS_Interval
<1>3. IsFiniteSet({h \in 1..Len(chain) : chain[h].tx # NoTx})
  BY <1>2, FS_Subset
<1> QED
  BY <1>3, FS_CardinalityType DEF MinedNonce

LEMMA NewestIsNat == Newest \in Nat /\ Newest <= NumActions
<1>1. IsFiniteSet(Actions) /\ Cardinality(Actions) = NumActions
  BY FS_Interval, OutboxAssumption DEF Actions
<1>2. {a \in Actions : action[a] # "UNSIGNED"} \in SUBSET Actions
  OBVIOUS
<1> QED
  BY <1>1, <1>2, FS_Subset, FS_CardinalityType DEF Newest

(* A node that holds the relay's transactions has a nonce to offer: more   *)
(* nonces than actions are never taken in a row.                           *)
LEMMA FreeNonce ==
    ASSUME Base PROVE PendingNonce \in Nat
<1> DEFINE Tried == MinedNonce..(MinedNonce + NumActions)
           Free == {n \in Tried : ~\E u \in mempool : u.nonce = n}
<1>1. MinedNonce \in Nat /\ NumActions \in Nat
  BY MinedIsNat, OutboxAssumption DEF Base, Typed
<1>2. Free # {}
  <2> SUFFICES ASSUME \A n \in Tried : \E u \in mempool : u.nonce = n
               PROVE  FALSE
    OBVIOUS
  <2> DEFINE carried == [n \in Tried |-> (CHOOSE u \in mempool : u.nonce = n).action]
  <2>1. \A n \in Tried : \E i \in Rows : outbox[i].nonce = n /\ outbox[i].action = carried[n]
    <3> SUFFICES ASSUME NEW n \in Tried
                 PROVE  \E i \in Rows : outbox[i].nonce = n /\ outbox[i].action = carried[n]
      OBVIOUS
    <3> DEFINE u == CHOOSE u \in mempool : u.nonce = n
    <3>1. u \in mempool /\ u.nonce = n
      OBVIOUS
    <3>2. carried[n] = u.action
      OBVIOUS
    <3> HIDE DEF u, carried
    <3>3. PICK i \in Rows : u = TxOf(outbox[i])
      BY <3>1 DEF Base, PoolInv, Relayed
    <3> QED
      BY <3>1, <3>2, <3>3 DEF TxOf
  <2>2. carried \in [Tried -> Actions]
    <3>1. \A n \in Tried : carried[n] \in Actions
      BY <2>1, RowTyped DEF Base
    <3> QED
      BY <3>1
  <2>3. IsFiniteSet(Tried) /\ Cardinality(Tried) = NumActions + 1
    BY <1>1, FS_Interval
  <2>4. IsFiniteSet(Actions) /\ Cardinality(Actions) = NumActions
    BY <1>1, FS_Interval DEF Actions
  <2>5. Cardinality(Actions) < Cardinality(Tried)
    BY <1>1, <2>3, <2>4
  <2> HIDE DEF carried, Tried
  <2>6. \E x, y \in Tried : x # y /\ carried[x] = carried[y]
    BY <2>2, <2>3, <2>4, <2>5, FS_PigeonHole
  <2> QED
    BY <2>6, <2>1 DEF Base, KeysInv, NonceIdentifiesAction
<1>3. Free \subseteq Nat
  BY <1>1
<1> HIDE DEF Free
<1>4. PICK n \in Free : \A m \in Free : n <= m
  BY <1>2, <1>3, LeastOf
<1>5. /\ n \in Tried /\ n \in Nat
      /\ \A m \in MinedNonce..(n - 1) : \E u \in mempool : u.nonce = m
      /\ ~\E u \in mempool : u.nonce = n
  <2>1. n \in Tried /\ n \in Nat /\ ~\E u \in mempool : u.nonce = n
    BY <1>3, <1>4 DEF Free
  <2>2. ASSUME NEW m \in MinedNonce..(n - 1)
        PROVE  \E u \in mempool : u.nonce = m
    <3>1. m \in Tried /\ ~(n <= m)
      BY <1>1, <2>1
    <3> QED
      BY <3>1, <1>4 DEF Free
  <2> QED
    BY <2>1, <2>2
<1>6. PendingNonce \in Tried
  BY <1>5 DEF PendingNonce
<1> QED
  BY <1>1, <1>6

-----------------------------------------------------------------------------
(* Steps that give no nonce away and sign nothing *)

(* Rows keep what they were signed for, and a new one replaces another.    *)
SameKeys ==
    /\ Len(outbox) <= Len(outbox')
    /\ \A i \in Rows : TxOf(outbox'[i]) = TxOf(outbox[i])
    /\ \A i \in 1..Len(outbox') : \E j \in Rows :
         outbox'[i].action = outbox[j].action /\ outbox'[i].nonce = outbox[j].nonce
    /\ Signed' = Signed /\ next' = next /\ (open' => open)

PoolStep ==
    /\ \A tx \in mempool' : Relayed(tx)
    /\ \A h \in 1..Len(chain') : chain'[h].tx # NoTx => Relayed(chain'[h].tx)

LEMMA SameNewest ==
    ASSUME Signed' = Signed PROVE Newest' = Newest
  BY DEF Newest, Signed

LEMMA RowsGrow ==
    ASSUME Typed, Typed', Len(outbox) <= Len(outbox')
    PROVE  Rows' = 1..Len(outbox') /\ Rows \subseteq Rows'
<1>1. Len(outbox) \in Nat /\ Len(outbox') \in Nat
  BY LenProperties DEF Typed
<1> QED
  BY <1>1 DEF Rows

LEMMA KeysStay ==
    ASSUME Typed, Typed', KeysInv, SameKeys
    PROVE  KeysInv'
<1> USE DEF SameKeys
<1>1. Rows' = 1..Len(outbox') /\ Rows \subseteq Rows'
  BY RowsGrow
<1>2. Newest' = Newest
  BY SameNewest
<1>3. NonceIdentifiesAction'
  <2> SUFFICES ASSUME NEW i \in Rows', NEW j \in Rows'
               PROVE  outbox'[i].action = outbox'[j].action <=> outbox'[i].nonce = outbox'[j].nonce
    BY DEF NonceIdentifiesAction
  <2>1. PICK k \in Rows : outbox'[i].action = outbox[k].action /\ outbox'[i].nonce = outbox[k].nonce
    BY <1>1
  <2>2. PICK m \in Rows : outbox'[j].action = outbox[m].action /\ outbox'[j].nonce = outbox[m].nonce
    BY <1>1
  <2> QED
    BY <2>1, <2>2 DEF KeysInv, NonceIdentifiesAction
<1>4. \A i \in Rows' : outbox'[i].nonce < next' /\ outbox'[i].action \in Signed'
  BY <1>1 DEF KeysInv
<1>5. \A a \in Actions : a \in Signed' <=> a <= Newest'
  BY <1>2 DEF KeysInv
<1>6. open' => Newest' # 0
  BY <1>2 DEF KeysInv
<1> QED
  BY <1>3, <1>4, <1>5, <1>6 DEF KeysInv

LEMMA PoolStays ==
    ASSUME Typed, Typed', SameKeys, PoolStep
    PROVE  PoolInv'
<1>1. Rows \subseteq Rows'
  BY RowsGrow DEF SameKeys
<1>2. ASSUME NEW tx, Relayed(tx)
      PROVE  \E i \in Rows' : tx = TxOf(outbox'[i])
  BY <1>1, <1>2 DEF SameKeys, Relayed
<1>3. (\A tx \in mempool : Relayed(tx))'
  BY <1>2 DEF PoolStep, Relayed
<1>4. (\A h \in 1..Len(chain) : chain[h].tx # NoTx => Relayed(chain[h].tx))'
  BY <1>2 DEF PoolStep, Relayed
<1> QED
  BY <1>3, <1>4 DEF PoolInv

LEMMA TaskStays ==
    ASSUME Typed, Typed', SameKeys,
           NEW w \in Workers, NEW t, task'[w] = t, TaskInv(w, t)
    PROVE  TaskInv(w, task[w])'
<1>1. Rows' = 1..Len(outbox') /\ Rows \subseteq Rows'
  BY RowsGrow DEF SameKeys
<1>2. Newest' = Newest
  BY SameNewest DEF SameKeys
<1>3. RowsOf(Newest) = {} => RowsOf(Newest)' = {}
  BY <1>1, <1>2 DEF RowsOf, SameKeys
<1>4. \A i \in Rows : outbox'[i].fee = outbox[i].fee
  BY DEF SameKeys, TxOf
<1> QED
  BY <1>1, <1>2, <1>3, <1>4 DEF TaskInv, Held

(* One worker's step, or the node's.                                       *)
LEMMA StepKeepsBase ==
    ASSUME Base, Typed', SameKeys, PoolStep,
           NEW w \in Workers, NEW t, task'[w] = t, TaskInv(w, t),
           \A v \in Workers \ {w} : task'[v] = task[v]
    PROVE  Base'
<1>1. KeysInv' /\ PoolInv'
  BY KeysStay, PoolStays DEF Base
<1>2. ASSUME NEW v \in Workers
      PROVE  TaskInv(v, task[v])'
  <2>1. CASE v = w
    BY <2>1, TaskStays DEF Base
  <2>2. CASE v # w
    BY <2>2, TaskStays DEF Base
  <2> QED
    BY <2>1, <2>2
<1> QED
  BY <1>1, <1>2 DEF Base

LEMMA Becoming ==
    ASSUME Typed, NEW w \in Workers, NEW t \in Task, Becomes(w, t)
    PROVE  /\ task' \in [Workers -> Task] /\ task'[w] = t
           /\ \A v \in Workers \ {w} : task'[v] = task[v]
  BY DEF Becomes, Typed

LEMMA SameRows ==
    ASSUME Typed, UNCHANGED <<outbox, action, next>>, open' => open
    PROVE  SameKeys
<1>1. Len(outbox) \in Nat
  BY LenProperties DEF Typed
<1> QED
  BY <1>1 DEF SameKeys, Signed, Rows

(* A worker goes on with what it has read.                                 *)
LEMMA TaskOnly ==
    ASSUME Base, NEW w \in Workers, NEW t \in Task, Becomes(w, t), TaskInv(w, t),
           UNCHANGED <<chain, mempool, fin, outbox, action, next>>,
           faults' \in Nat, open' \in BOOLEAN, open' => open
    PROVE  Base'
<1>1. /\ task' \in [Workers -> Task] /\ task'[w] = t
      /\ \A v \in Workers \ {w} : task'[v] = task[v]
  BY Becoming DEF Base
<1>2. Typed'
  BY <1>1 DEF Base, Typed
<1>3. SameKeys
  BY SameRows DEF Base
<1>4. PoolStep
  BY DEF Base, PoolInv, PoolStep
<1> QED
  BY <1>1, <1>2, <1>3, <1>4, StepKeepsBase

(* The node's steps: it learns of no transaction the outbox does not have. *)
LEMMA NodeOnly ==
    ASSUME Base, chain' \in Seq(ChainBlock), fin' \in Nat, faults' \in Nat,
           mempool' \subseteq Tx, PoolStep, UNCHANGED <<rowVars, runVars, task>>
    PROVE  Base'
<1>1. Typed'
  BY DEF Base, Typed, rowVars, runVars
<1>2. SameKeys
  BY SameRows DEF Base, rowVars, runVars
<1>3. Driver \in Workers
  BY DEF Workers
<1> QED
  BY <1>1, <1>2, <1>3, StepKeepsBase DEF Base

-----------------------------------------------------------------------------
(* The node, and the process's end and start *)

LEMMA InitBase == Init => Base
<1> SUFFICES ASSUME Init PROVE Base
  OBVIOUS
<1> USE DEF Init
<1>1. Len(outbox) = 0 /\ Len(chain) = 0 /\ Rows = {}
  BY EmptySeq DEF Rows
<1>2. Typed
  BY QuietTask, EmptySeq, OutboxAssumption DEF Typed, ActionStatuses
<1>3. Newest = 0 /\ Signed = {}
  <2>1. {a \in Actions : action[a] # "UNSIGNED"} = {}
    OBVIOUS
  <2> QED
    BY <2>1, FS_EmptySet DEF Newest, Signed
<1>4. KeysInv
  BY <1>1, <1>3 DEF KeysInv, NonceIdentifiesAction, Actions
<1>5. PoolInv
  BY <1>1 DEF PoolInv
<1>6. ASSUME NEW w \in Workers
      PROVE  TaskInv(w, task[w])
  BY DEF TaskInv, Quiet, Held
<1> QED
  BY <1>2, <1>4, <1>5, <1>6 DEF Base

LEMMA MinedBlock ==
    ASSUME Typed, NEW tx \in Tx \cup {NoTx}, NEW ok \in BOOLEAN, Mine(tx, ok)
    PROVE  /\ chain' \in Seq(ChainBlock) /\ Len(chain') = Len(chain) + 1
           /\ \A h \in 1..Len(chain) : chain'[h] = chain[h]
           /\ chain'[Len(chain) + 1].tx = tx
<1> DEFINE b == [hash |-> <<Len(chain) + 1, faults>>, tx |-> tx, ok |-> ok]
<1>1. b \in ChainBlock
  BY LenProperties DEF Typed, ChainBlock
<1>2. chain' = Append(chain, b) /\ b.tx = tx
  BY DEF Mine
<1> HIDE DEF b
<1> QED
  BY <1>1, <1>2, AppendProperties DEF Typed

LEMMA MinedStays ==
    ASSUME Base, NEW tx \in Tx \cup {NoTx}, NEW ok \in BOOLEAN, Mine(tx, ok),
           tx # NoTx => Relayed(tx), mempool' \subseteq mempool, faults' \in Nat,
           UNCHANGED <<fin, rowVars, runVars, task>>
    PROVE  Base'
<1>1. /\ chain' \in Seq(ChainBlock) /\ Len(chain') = Len(chain) + 1
      /\ \A h \in 1..Len(chain) : chain'[h] = chain[h]
      /\ chain'[Len(chain) + 1].tx = tx
  BY MinedBlock DEF Base
<1>2. Len(chain) \in Nat
  BY LenProperties DEF Base, Typed
<1>3. \A h \in 1..Len(chain') : chain'[h].tx # NoTx => Relayed(chain'[h].tx)
  <2> SUFFICES ASSUME NEW h \in 1..Len(chain'), chain'[h].tx # NoTx
               PROVE  Relayed(chain'[h].tx)
    OBVIOUS
  <2>1. h \in 1..Len(chain) \/ h = Len(chain) + 1
    BY <1>1, <1>2
  <2>2. CASE h \in 1..Len(chain)
    BY <2>2, <1>1 DEF Base, PoolInv
  <2>3. CASE h = Len(chain) + 1
    BY <2>3, <1>1
  <2> QED
    BY <2>1, <2>2, <2>3
<1>4. PoolStep
  BY <1>3 DEF PoolStep, Base, PoolInv
<1>5. mempool' \subseteq Tx /\ fin' \in Nat
  BY DEF Base, Typed
<1> QED
  BY <1>1, <1>4, <1>5, NodeOnly

LEMMA FaultCounts ==
    ASSUME Typed, NEW kind, Fault(kind)
    PROVE  faults' \in Nat
  BY DEF Typed, Fault

LEMMA MineTxKeepsBase ==
    ASSUME Base, NEW tx \in mempool, MineTx(tx)
    PROVE  Base'
<1>1. PICK ok \in BOOLEAN : Mine(tx, ok) /\ (UNCHANGED faults \/ Fault("revert"))
  BY DEF MineTx
<1>2. faults' \in Nat
  BY <1>1, FaultCounts DEF Base, Typed
<1>3. tx \in Tx \cup {NoTx} /\ Relayed(tx)
  BY DEF Base, Typed, PoolInv
<1>4. mempool' \subseteq mempool /\ UNCHANGED <<fin, rowVars, runVars, task>>
  BY DEF MineTx
<1> QED
  BY <1>1, <1>2, <1>3, <1>4, MinedStays

LEMMA MineEmptyKeepsBase ==
    ASSUME Base, MineEmpty
    PROVE  Base'
<1>1. /\ Mine(NoTx, TRUE) /\ mempool' \subseteq mempool /\ faults' \in Nat
      /\ UNCHANGED <<fin, rowVars, runVars, task>>
  BY DEF MineEmpty, Base, Typed
<1> QED
  BY <1>1, MinedStays

LEMMA FinalizeKeepsBase ==
    ASSUME Base, Finalize
    PROVE  Base'
<1>1. PoolStep
  BY DEF Finalize, PoolStep, Base, PoolInv
<1>2. /\ chain' \in Seq(ChainBlock) /\ fin' \in Nat /\ faults' \in Nat
      /\ mempool' \subseteq Tx /\ UNCHANGED <<rowVars, runVars, task>>
  BY DEF Finalize, Base, Typed
<1> QED
  BY <1>1, <1>2, NodeOnly

LEMMA EvictKeepsBase ==
    ASSUME Base, NEW tx \in mempool, Evict(tx)
    PROVE  Base'
<1>1. faults' \in Nat
  BY FaultCounts DEF Evict, Base
<1>2. PoolStep
  BY DEF Evict, PoolStep, Base, PoolInv
<1>3. /\ chain' \in Seq(ChainBlock) /\ fin' \in Nat
      /\ mempool' \subseteq Tx /\ UNCHANGED <<rowVars, runVars, task>>
  BY DEF Evict, Base, Typed
<1> QED
  BY <1>1, <1>2, <1>3, NodeOnly

LEMMA ReorgKeepsBase ==
    ASSUME Base, NEW k \in fin..(Len(chain) - 1), Reorg(k)
    PROVE  Base'
<1>1. k \in Nat /\ k < Len(chain) /\ Len(chain) \in Nat
  BY LenProperties DEF Base, Typed
<1>2. faults' \in Nat
  BY FaultCounts DEF Reorg, Base
<1>3. \A h \in 1..k : chain[h] \in ChainBlock
  BY <1>1, ElementOfSeq DEF Base, Typed
<1>4. chain' = SubSeq(chain, 1, k)
  BY DEF Reorg
<1>5. /\ chain' \in Seq(ChainBlock) /\ Len(chain') = k
      /\ \A h \in 1..k : chain'[h] = chain[h]
  BY <1>1, <1>3, <1>4, SubSeqProperties
<1>6. ASSUME NEW tx \in mempool'
      PROVE  tx \in Tx /\ Relayed(tx)
  <2>1. tx \in mempool \/ tx \in {chain[h].tx : h \in (k + 1)..Len(chain)} \ {NoTx}
    BY DEF Reorg
  <2>2. CASE tx \in mempool
    BY <2>2 DEF Base, Typed, PoolInv
  <2>3. CASE tx \in {chain[h].tx : h \in (k + 1)..Len(chain)} \ {NoTx}
    <3>1. PICK h \in 1..Len(chain) : tx = chain[h].tx /\ tx # NoTx
      BY <2>3, <1>1
    <3>2. chain[h] \in ChainBlock
      BY ElementOfSeq DEF Base, Typed
    <3> QED
      BY <3>1, <3>2 DEF Base, PoolInv, ChainBlock
  <2> QED
    BY <2>1, <2>2, <2>3
<1>7. PoolStep
  BY <1>1, <1>5, <1>6 DEF PoolStep, Base, PoolInv
<1>8. mempool' \subseteq Tx /\ fin' \in Nat /\ UNCHANGED <<rowVars, runVars, task>>
  BY <1>6 DEF Reorg, Base, Typed
<1> QED
  BY <1>2, <1>5, <1>7, <1>8, NodeOnly

(* A process that dies forgets what it was about.                          *)
LEMMA QuietInv ==
    ASSUME NEW w \in Workers
    PROVE  TaskInv(w, Quiet)
  BY DEF TaskInv, Quiet, Held

LEMMA CrashKeepsBase ==
    ASSUME Base, Crash
    PROVE  Base'
<1>1. faults' \in Nat
  BY FaultCounts DEF Crash, Base
<1>2. Typed'
  BY <1>1, QuietTask DEF Crash, Base, Typed, rowVars, runVars
<1>3. SameKeys /\ PoolStep
  BY SameRows DEF Crash, Base, PoolInv, PoolStep, rowVars, runVars
<1>4. ASSUME NEW w \in Workers
      PROVE  TaskInv(w, task[w])'
  <2>1. task'[w] = Quiet
    BY DEF Crash
  <2> QED
    BY <1>2, <1>3, <2>1, QuietInv, TaskStays DEF Base
<1> QED
  BY <1>2, <1>3, <1>4, KeysStay, PoolStays DEF Base

LEMMA RestartKeepsBase ==
    ASSUME Base, Restart
    PROVE  Base'
<1> DEFINE t == IF run = "recovery" THEN task[Driver]
                ELSE [Quiet EXCEPT !.kind = "restart", !.phase = "reconcile", !.step = "list"]
<1>1. Driver \in Workers
  BY DEF Workers
<1>2. t \in Task
  BY ZenonT(60), <1>1, QuietTask DEF Base, Typed, Quiet, Task, Kinds, Phases, Steps
<1>3. TaskInv(Driver, t)
  BY <1>1 DEF Base, TaskInv, Quiet, Held
<1>4. Becomes(Driver, t)
  <2>1. CASE run = "recovery"
    <3>1. task' = task /\ task = [task EXCEPT ![Driver] = task[Driver]]
      BY <2>1 DEF Restart, Base, Typed
    <3> QED
      BY <2>1, <3>1 DEF Becomes
  <2>2. CASE run # "recovery"
    BY <2>2 DEF Restart
  <2> QED
    BY <2>1, <2>2
<1>5. /\ UNCHANGED <<chain, mempool, fin, outbox, action, next>>
      /\ faults' \in Nat /\ open' \in BOOLEAN /\ (open' => open)
  BY DEF Restart, Base, Typed, chainVars, rowVars, runVars
<1> HIDE DEF t
<1> QED
  BY <1>1, <1>2, <1>3, <1>4, <1>5, TaskOnly

-----------------------------------------------------------------------------
(* Steps that only read *)

OnlyTask ==
    /\ UNCHANGED <<chain, mempool, fin, outbox, action, next>>
    /\ faults' \in Nat /\ open' \in BOOLEAN /\ (open' => open)

LEMMA Reading ==
    ASSUME Base, UNCHANGED <<chainVars, rowVars, open>>
    PROVE  OnlyTask
  BY DEF Base, Typed, OnlyTask, chainVars, rowVars

LEMMA Lost ==
    ASSUME Base, NEW kind, Fault(kind), UNCHANGED <<chain, fin, mempool, rowVars, open>>
    PROVE  OnlyTask
<1>1. faults' \in Nat
  BY FaultCounts DEF Base
<1> QED
  BY <1>1 DEF Base, Typed, OnlyTask, rowVars

LEMMA GoesOn ==
    ASSUME Base, OnlyTask, NEW w \in Workers, NEW t \in Task, Becomes(w, t), TaskInv(w, t)
    PROVE  Base'
  BY TaskOnly DEF OnlyTask

LEMMA HasTask ==
    ASSUME Base, NEW w \in Workers
    PROVE  /\ task[w] \in Task /\ TaskInv(w, task[w])
           /\ Len(chain) \in Nat /\ fin \in Nat /\ Len(outbox) \in Nat
  BY LenProperties DEF Base, Typed

LEMMA FirstTaken ==
    ASSUME Base, NEW w \in Workers, task[w].todo # {}
    PROVE  First(w) \in task[w].todo /\ First(w) \in Rows /\ First(w) \in Nat
<1>1. task[w].todo \subseteq Rows
  BY HasTask DEF TaskInv
<1> QED
  BY <1>1, FirstListed, RowTyped DEF Base

LEMMA SkipsKeeps ==
    ASSUME Base, OnlyTask, NEW w \in Workers, Skips(w)
    PROVE  Base'
<1> DEFINE t == [task[w] EXCEPT !.todo = @ \ {First(w)}]
<1>1. t \in Task /\ TaskInv(w, t)
  BY ZenonT(60), HasTask DEF Task, TaskInv
<1>2. Becomes(w, t)
  BY DEF Skips
<1> HIDE DEF t
<1> QED
  BY <1>1, <1>2, GoesOn

LEMMA TakesKeeps ==
    ASSUME Base, OnlyTask, NEW w \in Workers, NEW step \in {"known", "swap"},
           task[w].todo # {}, task[w].phase # "submit", Takes(w, step),
           step = "swap" => outbox[First(w)].fee < MaxFee
    PROVE  Base'
<1> DEFINE t == [task[w] EXCEPT !.step = step, !.row = First(w), !.todo = @ \ {First(w)}]
<1>1. t \in Task /\ TaskInv(w, t)
  BY ZenonT(150), HasTask, FirstTaken DEF Task, TaskInv, Steps, Held
<1>2. Becomes(w, t)
  BY DEF Takes
<1> HIDE DEF t
<1> QED
  BY <1>1, <1>2, GoesOn

LEMMA EndsKeeps ==
    ASSUME Base, OnlyTask, NEW w \in Workers, Ends(w)
    PROVE  Base'
<1> HIDE DEF Quiet
<1> QED
  BY GoesOn, QuietTask, QuietInv DEF Ends

LEMMA PollKeeps ==
    ASSUME Base, OnlyTask, NEW w \in Workers, NEW kind \in {"tick", "recover"},
           kind = "tick" => w = Driver, PollFrom(w, kind)
    PROVE  Base'
<1> DEFINE t == [Quiet EXCEPT !.kind = kind, !.phase = "poll", !.step = "blocks",
                              !.head = Len(chain), !.final = fin]
<1>1. t \in Task
  BY ZenonT(60), HasTask, QuietTask DEF Task, Quiet, Kinds, Phases, Steps
<1>2. TaskInv(w, t)
  BY DEF TaskInv, Quiet, Held
<1>3. Becomes(w, t)
  BY DEF PollFrom
<1> HIDE DEF t
<1> QED
  BY <1>1, <1>2, <1>3, GoesOn

(* Where the next step is about no row, and is not the driver's to sign.   *)
LEMMA StepKeeps ==
    ASSUME Base, OnlyTask, NEW w \in Workers,
           NEW step \in Steps \ {"include", "swap", "quote", "persist"},
           step \in Held => task[w].row \in Rows, Step(w, step)
    PROVE  Base'
<1> DEFINE t == [task[w] EXCEPT !.step = step]
<1>1. t \in Task /\ TaskInv(w, t)
  BY SMTT(40), HasTask DEF Task, TaskInv, Steps, Held
<1>2. Becomes(w, t)
  BY DEF Step
<1> HIDE DEF t
<1> QED
  BY <1>1, <1>2, GoesOn

LEMMA PhaseKeeps ==
    ASSUME Base, OnlyTask, NEW w \in Workers,
           NEW phase \in Phases, NEW step \in {"list", "follow", "history"},
           phase \in {"poll", "replace"} => task[w].kind \in {"tick", "recover"},
           phase \in {"resend", "act", "submit"} => task[w].kind = "tick",
           phase = "submit" => Newest # 0, Phase(w, phase, step)
    PROVE  Base'
<1> DEFINE t == [task[w] EXCEPT !.phase = phase, !.step = step]
<1>1. t \in Task /\ TaskInv(w, t)
  BY ZenonT(150), HasTask DEF Task, TaskInv, Steps, Held
<1>2. Becomes(w, t)
  BY DEF Phase
<1> HIDE DEF t
<1> QED
  BY <1>1, <1>2, GoesOn

-----------------------------------------------------------------------------
(* The driver begins, polls, replaces *)

LEMMA BeginsKeepBase ==
    ASSUME Base, NEW w \in Workers, BeginTick(w) \/ BeginResume(w)
    PROVE  Base'
<1>1. CASE BeginTick(w)
  <2>1. OnlyTask /\ w = Driver /\ PollFrom(w, "tick")
    BY <1>1, Reading DEF BeginTick, runVars
  <2> QED
    BY <2>1, PollKeeps
<1>2. CASE BeginResume(w)
  <2> DEFINE t == [Quiet EXCEPT !.kind = IF run = "paused" THEN "resume" ELSE "recover",
                                !.phase = "reconcile", !.step = "list"]
  <2>1. OnlyTask /\ Becomes(w, t)
    BY <1>2, Reading DEF BeginResume, runVars
  <2>2. t \in Task
    BY ZenonT(90), QuietTask DEF Task, Quiet, Kinds, Phases, Steps
  <2>3. TaskInv(w, t)
    BY DEF TaskInv, Quiet, Held
  <2> HIDE DEF t
  <2> QED
    BY <2>1, <2>2, <2>3, GoesOn
<1> QED
  BY <1>1, <1>2

LEMMA CheckReorgKeepsBase ==
    ASSUME Base, NEW w \in Workers, CheckReorg(w)
    PROVE  Base'
<1> DEFINE t == [task[w] EXCEPT !.stale = StaleBlocks(w),
                    !.step = IF StaleBlocks(w) = {} THEN "waiting" ELSE "rewind"]
<1>1. OnlyTask /\ Becomes(w, t) /\ At(w, "poll", "blocks")
  BY Reading DEF CheckReorg, runVars
<1>2. StaleBlocks(w) \subseteq Block
  BY RowTyped DEF StaleBlocks, Base, Row
<1>3. t \in Task
  BY ZenonT(90), <1>2, HasTask DEF Task, Steps
<1>4. TaskInv(w, t)
  BY <1>1, HasTask DEF At, TaskInv, Held
<1> HIDE DEF t
<1> QED
  BY <1>1, <1>3, <1>4, GoesOn

LEMMA ListWaitingKeepsBase ==
    ASSUME Base, NEW w \in Workers, ListWaiting(w)
    PROVE  Base'
<1> DEFINE t == [task[w] EXCEPT !.step = "receipt", !.todo = {i \in Rows : Awaits(i)}]
<1>1. OnlyTask /\ Becomes(w, t) /\ At(w, "poll", "waiting")
  BY Reading DEF ListWaiting, runVars
<1>2. {i \in Rows : Awaits(i)} \subseteq Nat
  BY RowTyped DEF Base
<1>3. t \in Task
  BY ZenonT(90), <1>2, HasTask DEF Task, Steps
<1>4. TaskInv(w, t)
  BY <1>1, HasTask DEF At, TaskInv, Held
<1> HIDE DEF t
<1> QED
  BY <1>1, <1>3, <1>4, GoesOn

LEMMA LookUpKeepsBase ==
    ASSUME Base, NEW w \in Workers, LookUp(w)
    PROVE  Base'
<1> DEFINE i == First(w)
           seen == {h \in Mined(TxOf(outbox[i])) : h <= task[w].head}
<1>1. OnlyTask /\ At(w, "poll", "receipt") /\ task[w].todo # {}
  BY Reading DEF LookUp, runVars
<1>2. CASE Skips(w)
  BY <1>1, <1>2, SkipsKeeps
<1>3. ASSUME NEW h \in seen,
             Becomes(w, [task[w] EXCEPT !.step = "include", !.ok = chain[h].ok,
                            !.row = i, !.todo = @ \ {i},
                            !.found = [height |-> h, hash |-> chain[h].hash]])
      PROVE  Base'
  <2> DEFINE t == [task[w] EXCEPT !.step = "include", !.ok = chain[h].ok,
                      !.row = i, !.todo = @ \ {i},
                      !.found = [height |-> h, hash |-> chain[h].hash]]
  <2>1. h \in 1..Len(chain) /\ h \in Nat
    BY HasTask DEF Mined
  <2>2. chain[h] \in ChainBlock
    BY <2>1, ElementOfSeq DEF Base, Typed
  <2>3. [height |-> h, hash |-> chain[h].hash] \in Block /\ chain[h].ok \in BOOLEAN
    BY <2>1, <2>2 DEF Block, ChainBlock
  <2>4. i \in Rows /\ i \in Nat
    BY <1>1, FirstTaken
  <2>5. t \in Task
    BY ZenonT(150), <2>3, <2>4, HasTask DEF Task, Steps, Held
  <2>6. TaskInv(w, t)
    BY <1>1, <2>3, <2>4, HasTask DEF At, TaskInv, Task
  <2>7. Becomes(w, t)
    BY <1>3
  <2> HIDE DEF t
  <2> QED
    BY <1>1, <2>5, <2>6, <2>7, GoesOn
<1> QED
  BY <1>2, <1>3 DEF LookUp

LEMMA ListStuckKeepsBase ==
    ASSUME Base, NEW w \in Workers, ListStuck(w)
    PROVE  Base'
<1> DEFINE t == [task[w] EXCEPT !.step = "receipt", !.head = 0, !.final = 0,
                                !.todo = {i \in Rows : Stuck(i)}]
<1>1. OnlyTask /\ Becomes(w, t) /\ At(w, "replace", "list")
  BY Reading DEF ListStuck, runVars
<1>2. {i \in Rows : Stuck(i)} \subseteq Nat
  BY RowTyped DEF Base
<1>3. t \in Task
  BY ZenonT(90), <1>2, HasTask DEF Task, Steps
<1>4. TaskInv(w, t)
  BY <1>1, HasTask DEF At, TaskInv, Held
<1> HIDE DEF t
<1> QED
  BY <1>1, <1>3, <1>4, GoesOn

LEMMA CheckStuckKeepsBase ==
    ASSUME Base, NEW w \in Workers, CheckStuck(w)
    PROVE  Base'
<1>1. /\ OnlyTask /\ task[w].todo # {} /\ task[w].phase # "submit"
      /\ Skips(w) \/ (outbox[First(w)].fee # MaxFee /\ Takes(w, "swap"))
  BY Reading DEF CheckStuck, At, runVars
<1>2. outbox[First(w)].fee \in 1..MaxFee
  BY <1>1, FirstTaken, RowTyped DEF Base, Row
<1>3. outbox[First(w)].fee # MaxFee => outbox[First(w)].fee < MaxFee
  BY <1>2, OutboxAssumption
<1> QED
  BY <1>1, <1>3, SkipsKeeps, TakesKeeps

LEMMA SyncedKeepsBase ==
    ASSUME Base, NEW w \in Workers, Synced(w)
    PROVE  Base'
<1>1. OnlyTask /\ At(w, "replace", "receipt")
  BY Reading DEF Synced, runVars
<1>2. task[w].kind \in {"tick", "recover"}
  BY <1>1, HasTask DEF At, TaskInv
<1>3. CASE Ends(w)
  BY <1>1, <1>3, EndsKeeps
<1>4. CASE task[w].kind # "recover" /\ Phase(w, "resend", "list")
  BY <1>1, <1>2, <1>4, PhaseKeeps DEF Phases
<1>5. CASE Becomes(w, [task[w] EXCEPT !.phase = "reconcile", !.step = "list",
                          !.kind = IF @ = "recover" THEN "restart" ELSE @])
  <2> DEFINE t == [task[w] EXCEPT !.phase = "reconcile", !.step = "list",
                      !.kind = IF @ = "recover" THEN "restart" ELSE @]
  <2>1. t \in Task
    BY ZenonT(150), HasTask DEF Task, Steps, Phases, Kinds
  <2>2. TaskInv(w, t)
    BY <1>1, HasTask DEF At, TaskInv, Held
  <2>3. Becomes(w, t)
    BY <1>5
  <2> HIDE DEF t
  <2> QED
    BY <1>1, <2>1, <2>2, <2>3, GoesOn
<1> QED
  BY <1>3, <1>4, <1>5 DEF Synced

LEMMA ResendKeepsBase ==
    ASSUME Base, NEW w \in Workers, Resend(w)
    PROVE  Base'
<1>1. OnlyTask /\ At(w, "resend", "list")
  BY Reading DEF Resend, runVars
<1>2. task[w].kind = "tick" /\ w = Driver
  BY <1>1, HasTask DEF At, TaskInv
<1>3. CASE Phase(w, "act", "follow")
  BY <1>1, <1>2, <1>3, PhaseKeeps DEF Phases
<1>4. CASE Becomes(w, [task[w] EXCEPT !.kind = "resend",
                          !.phase = "reconcile", !.step = "list"])
  <2> DEFINE t == [task[w] EXCEPT !.kind = "resend", !.phase = "reconcile", !.step = "list"]
  <2>1. t \in Task
    BY ZenonT(150), HasTask DEF Task, Steps, Phases, Kinds
  <2>2. TaskInv(w, t)
    BY <1>1, <1>2, HasTask DEF At, TaskInv, Held
  <2>3. Becomes(w, t)
    BY <1>4
  <2> HIDE DEF t
  <2> QED
    BY <1>1, <2>1, <2>2, <2>3, GoesOn
<1> QED
  BY <1>3, <1>4 DEF Resend

-----------------------------------------------------------------------------
(* Reconciling *)

LEMMA ListUnfinishedKeepsBase ==
    ASSUME Base, NEW w \in Workers, ListUnfinished(w)
    PROVE  Base'
<1> DEFINE t == [task[w] EXCEPT !.step = "receipt", !.bad = "none",
                    !.todo = {i \in Rows : Unfinished(i)},
                    !.pending = {i \in Rows : outbox[i].status = "PENDING"}]
<1>1. OnlyTask /\ Becomes(w, t) /\ At(w, "reconcile", "list")
  BY Reading DEF ListUnfinished, runVars
<1>2. /\ {i \in Rows : Unfinished(i)} \subseteq Nat
      /\ {i \in Rows : outbox[i].status = "PENDING"} \subseteq Nat
  BY RowTyped DEF Base
<1>3. t \in Task
  BY ZenonT(90), <1>2, HasTask DEF Task, Steps, Outcomes
<1>4. TaskInv(w, t)
  BY <1>1, HasTask DEF At, TaskInv, Held
<1> HIDE DEF t
<1> QED
  BY <1>1, <1>3, <1>4, GoesOn

LEMMA HasReceiptKeepsBase ==
    ASSUME Base, NEW w \in Workers, HasReceipt(w)
    PROVE  Base'
<1>1. /\ OnlyTask /\ task[w].todo # {} /\ task[w].phase # "submit"
      /\ Skips(w) \/ Takes(w, "known")
  BY Reading DEF HasReceipt, At, runVars
<1> QED
  BY <1>1, SkipsKeeps, TakesKeeps

LEMMA DoneTask ==
    ASSUME Base, NEW w \in Workers, task[w].phase = "reconcile"
    PROVE  LET t == [task[w] EXCEPT !.step = "receipt", !.row = 0]
           IN  t \in Task /\ TaskInv(w, t)
  BY ZenonT(150), HasTask DEF TaskInv, Task, Steps, Held

LEMMA JudgedTask ==
    ASSUME Base, NEW w \in Workers, task[w].phase = "reconcile", NEW outcome \in Outcomes
    PROVE  LET t == [task[w] EXCEPT !.step = "receipt", !.row = 0,
                        !.bad = IF @ = "none" THEN outcome ELSE @]
           IN  t \in Task /\ TaskInv(w, t)
  BY ZenonT(150), HasTask DEF TaskInv, Task, Steps, Held

LEMMA IsKnownKeepsBase ==
    ASSUME Base, NEW w \in Workers, IsKnown(w)
    PROVE  Base'
<1>1. OnlyTask /\ At(w, "reconcile", "known")
  BY Reading DEF IsKnown, runVars
<1>2. task[w].row \in Rows /\ task[w].phase = "reconcile"
  BY <1>1, HasTask DEF At, TaskInv, Held
<1>3. CASE Step(w, "nonce")
  BY <1>1, <1>2, <1>3, StepKeeps DEF Steps, Held
<1>4. CASE Done(w)
  <2> DEFINE t == [task[w] EXCEPT !.step = "receipt", !.row = 0]
  <2>1. t \in Task /\ TaskInv(w, t)
    BY <1>2, DoneTask
  <2>2. Becomes(w, t)
    BY <1>4 DEF Done
  <2> HIDE DEF t
  <2> QED
    BY <1>1, <2>1, <2>2, GoesOn
<1>5. CASE Becomes(w, [task[w] EXCEPT !.step = "record",
                          !.answer = "accepted", !.head = Len(chain)])
  <2> DEFINE t == [task[w] EXCEPT !.step = "record", !.answer = "accepted", !.head = Len(chain)]
  <2>1. t \in Task
    BY ZenonT(150), HasTask DEF Task, Steps, Held, Answers
  <2>2. TaskInv(w, t)
    BY <1>2, HasTask DEF TaskInv
  <2>3. Becomes(w, t)
    BY <1>5
  <2> HIDE DEF t
  <2> QED
    BY <1>1, <2>1, <2>2, <2>3, GoesOn
<1> QED
  BY <1>3, <1>4, <1>5 DEF IsKnown

LEMMA IsNonceFreeKeepsBase ==
    ASSUME Base, NEW w \in Workers, IsNonceFree(w)
    PROVE  Base'
<1>1. OnlyTask /\ At(w, "reconcile", "nonce")
  BY Reading DEF IsNonceFree, runVars
<1>2. task[w].row \in Rows
  BY <1>1, HasTask DEF At, TaskInv, Held
<1>3. PICK step \in {"siblings", "send"} : Step(w, step)
  BY DEF IsNonceFree
<1> QED
  BY <1>1, <1>2, <1>3, StepKeeps DEF Steps, Held

LEMMA UnreachableKeepsBase ==
    ASSUME Base, NEW w \in Workers, Unreachable(w)
    PROVE  Base'
<1>1. OnlyTask /\ task[w].phase = "reconcile"
  BY Lost DEF Unreachable, runVars
<1>2. CASE Judged(w, "unreachable")
  <2> DEFINE t == [task[w] EXCEPT !.step = "receipt", !.row = 0,
                      !.bad = IF @ = "none" THEN "unreachable" ELSE @]
  <2>1. t \in Task /\ TaskInv(w, t)
    BY <1>1, JudgedTask DEF Outcomes
  <2>2. Becomes(w, t)
    BY <1>2 DEF Judged
  <2> HIDE DEF t
  <2> QED
    BY SMTT(30), <1>1, <2>1, <2>2, GoesOn
<1>3. CASE Becomes(w, [task[w] EXCEPT !.todo = @ \ {First(w)},
                          !.bad = IF @ = "none" THEN "unreachable" ELSE @])
  <2> DEFINE t == [task[w] EXCEPT !.todo = @ \ {First(w)},
                      !.bad = IF @ = "none" THEN "unreachable" ELSE @]
  <2>1. t \in Task
    BY ZenonT(60), HasTask DEF Task, Outcomes
  <2>2. TaskInv(w, t)
    BY <1>1, HasTask DEF TaskInv
  <2>3. Becomes(w, t)
    BY <1>3
  <2> HIDE DEF t
  <2> QED
    BY <1>1, <2>1, <2>2, <2>3, GoesOn
<1> QED
  BY <1>2, <1>3 DEF Unreachable

LEMMA UnansweredKeepsBase ==
    ASSUME Base, NEW w \in Workers, Unanswered(w)
    PROVE  Base'
<1>1. OnlyTask /\ Ends(w)
  BY Lost DEF Unanswered
<1> QED
  BY <1>1, EndsKeeps

LEMMA ReconciledKeepsBase ==
    ASSUME Base, NEW w \in Workers, Reconciled(w)
    PROVE  Base'
<1>1. OnlyTask /\ At(w, "reconcile", "receipt")
  BY Reading DEF Reconciled, runVars
<1>2. CASE Ends(w)
  BY <1>1, <1>2, EndsKeeps
<1>3. CASE PollFrom(w, "recover")
  BY <1>1, <1>3, PollKeeps
<1>4. CASE /\ task[w].kind = "tick"
           /\ Becomes(w, [task[w] EXCEPT !.phase = "resend", !.step = "list",
                             !.pending = {}, !.bad = "none"])
  <2> DEFINE t == [task[w] EXCEPT !.phase = "resend", !.step = "list",
                      !.pending = {}, !.bad = "none"]
  <2>1. t \in Task
    BY ZenonT(150), HasTask DEF Task, Steps, Phases, Outcomes
  <2>2. TaskInv(w, t)
    BY <1>4, HasTask DEF TaskInv, Held
  <2>3. Becomes(w, t)
    BY <1>4
  <2> HIDE DEF t
  <2> QED
    BY <1>1, <2>1, <2>2, <2>3, GoesOn
<1>5. CASE /\ task[w].kind = "resend"
           /\ Becomes(w, [task[w] EXCEPT !.kind = "tick", !.phase = "act",
                             !.step = "follow", !.pending = {}])
  <2> DEFINE t == [task[w] EXCEPT !.kind = "tick", !.phase = "act",
                      !.step = "follow", !.pending = {}]
  <2>1. t \in Task
    BY ZenonT(150), HasTask DEF Task, Steps, Phases, Kinds
  <2>2. TaskInv(w, t)
    BY <1>5, HasTask DEF TaskInv, Held
  <2>3. Becomes(w, t)
    BY <1>5
  <2> HIDE DEF t
  <2> QED
    BY <1>1, <2>1, <2>2, <2>3, GoesOn
<1> QED
  BY <1>2, <1>3, <1>4, <1>5 DEF Reconciled

-----------------------------------------------------------------------------
(* The turn's action *)

LEMMA GreatestOf ==
    ASSUME NEW n \in Nat, NEW S, S \subseteq 1..n, S # {}
    PROVE  \E x \in S : \A y \in S : y <= x
<1> DEFINE T == {n - x : x \in S}
<1>1. T \subseteq Nat /\ T # {}
  <2>1. \A x \in S : n - x \in Nat
    OBVIOUS
  <2> QED
    BY <2>1
<1> HIDE DEF T
<1>2. PICK m \in T : \A k \in T : m <= k
  BY <1>1, LeastOf
<1>3. PICK x \in S : m = n - x
  BY <1>2 DEF T
<1>4. ASSUME NEW y \in S
      PROVE  y <= x
  <2>1. n - y \in T
    BY DEF T
  <2>2. m <= n - y
    BY <1>2, <2>1
  <2> QED
    BY <1>3, <2>2
<1> QED
  BY <1>4

LEMMA Deciding ==
    ASSUME Base, NEW w \in Workers, task[w].phase \in {"act", "submit"}
    PROVE  task[w].kind = "tick" /\ w = Driver
  BY HasTask DEF TaskInv

LEMMA ReadingActKeepsBase ==
    ASSUME Base, NEW w \in Workers, Halt(w) \/ CloseTurn(w) \/ Resubmit(w)
    PROVE  Base'
<1>1. CASE Halt(w)
  <2>1. OnlyTask /\ Ends(w)
    BY <1>1, Reading DEF Halt, runVars
  <2> QED
    BY <2>1, EndsKeeps
<1>2. CASE CloseTurn(w)
  <2>1. OnlyTask /\ Ends(w)
    BY <1>2 DEF CloseTurn, OnlyTask, Base, Typed, chainVars, rowVars
  <2> QED
    BY <2>1, EndsKeeps
<1>3. CASE Resubmit(w)
  <2>1. OnlyTask /\ Phase(w, "submit", "history") /\ At(w, "act", "follow") /\ open
    BY <1>3, Reading DEF Resubmit, runVars
  <2>2. Newest # 0 /\ task[w].kind = "tick"
    BY <2>1, Deciding DEF Base, KeysInv, At
  <2> QED
    BY <2>1, <2>2, PhaseKeeps DEF Phases
<1> QED
  BY <1>1, <1>2, <1>3

LEMMA NewestRow ==
    ASSUME Base, NEW rows, rows \subseteq Rows, rows # {}
    PROVE  (CHOOSE i \in rows : \A j \in rows : j <= i) \in rows
<1>1. \E i \in rows : \A j \in rows : j <= i
  BY GreatestOf, LenProperties DEF Base, Typed, Rows
<1> QED
  BY <1>1

LEMMA ResumeHistoryKeepsBase ==
    ASSUME Base, NEW w \in Workers, ResumeHistory(w)
    PROVE  Base'
<1> DEFINE rows == History(Newest)
           last == CHOOSE i \in rows : \A j \in rows : j <= i
<1>1. OnlyTask /\ At(w, "submit", "history")
  BY Reading DEF ResumeHistory, runVars
<1>2. CASE rows = {} /\ Step(w, "quote")
  <2> DEFINE t == [task[w] EXCEPT !.step = "quote"]
  <2>1. t \in Task
    BY SMTT(40), HasTask DEF Task, Steps
  <2>2. TaskInv(w, t)
    BY <1>1, <1>2, HasTask DEF At, TaskInv, Held, History
  <2>3. Becomes(w, t)
    BY <1>2 DEF Step
  <2> HIDE DEF t
  <2> QED
    BY <1>1, <2>1, <2>2, <2>3, GoesOn
<1>3. CASE rows # {} /\ Becomes(w, [task[w] EXCEPT !.step = "send", !.row = last])
  <2> DEFINE t == [task[w] EXCEPT !.step = "send", !.row = last]
  <2>1. last \in Rows /\ last \in Nat
    <3>1. rows \subseteq Rows
      BY DEF History, RowsOf
    <3>2. last \in rows
      BY <1>3, <3>1, NewestRow
    <3> QED
      BY <3>1, <3>2, RowTyped DEF Base
  <2> HIDE DEF last, rows
  <2>2. t \in Task
    BY ZenonT(90), <2>1, HasTask DEF Task, Steps, Held
  <2>3. TaskInv(w, t)
    BY <1>1, <2>1, HasTask DEF At, TaskInv
  <2>4. Becomes(w, t)
    BY <1>3
  <2> HIDE DEF t
  <2> QED
    BY <1>1, <2>2, <2>3, <2>4, GoesOn
<1>4. CASE Ends(w)
  BY <1>1, <1>4, EndsKeeps
<1>5. \/ rows = {} /\ Step(w, "quote")
      \/ rows # {} /\ Becomes(w, [task[w] EXCEPT !.step = "send", !.row = last])
      \/ Ends(w)
  <2>1. CASE rows = {}
    BY <2>1 DEF ResumeHistory
  <2>2. CASE rows # {}
    BY <2>2 DEF ResumeHistory
  <2> QED
    BY <2>1, <2>2
<1> QED
  BY <1>2, <1>3, <1>4, <1>5

LEMMA QuoteKeepsBase ==
    ASSUME Base, NEW w \in Workers, Quote(w)
    PROVE  Base'
<1> DEFINE t == [task[w] EXCEPT !.step = "persist", !.nonce = PendingNonce]
<1>1. OnlyTask /\ At(w, "submit", "quote") /\ Becomes(w, t)
  BY Reading DEF Quote, runVars
<1>2. t \in Task
  BY ZenonT(90), FreeNonce, HasTask DEF Task, Steps
<1>3. TaskInv(w, t)
  BY <1>1, HasTask DEF At, TaskInv, Held
<1> HIDE DEF t
<1> QED
  BY <1>1, <1>2, <1>3, GoesOn

(* Nobody but the driver is about to ask a nonce.                          *)
LEMMA OthersKept ==
    ASSUME Base, Typed', NEW v \in Workers, v # Driver, task'[v] = task[v],
           Len(outbox) <= Len(outbox'), \A i \in Rows : outbox'[i] = outbox[i]
    PROVE  TaskInv(v, task[v])'
<1>1. Rows \subseteq Rows'
  BY RowsGrow DEF Base
<1>2. task[v].phase # "submit" /\ TaskInv(v, task[v])
  BY HasTask DEF TaskInv
<1> QED
  BY <1>1, <1>2 DEF TaskInv, Held

LEMMA SignActionKeepsBase ==
    ASSUME Base, NEW w \in Workers, SignAction(w)
    PROVE  Base'
<1> DEFINE t == [task[w] EXCEPT !.phase = "submit", !.step = "history"]
<1>1. /\ At(w, "act", "follow") /\ Newest < NumActions
      /\ action' = [action EXCEPT ![Newest + 1] = "SIGNED"] /\ open' = TRUE
      /\ Becomes(w, t) /\ UNCHANGED <<chain, fin, mempool, faults, outbox, next>>
  BY DEF SignAction, Phase, chainVars
<1>2. task[w].kind = "tick" /\ w = Driver
  BY <1>1, Deciding DEF At
<1>3. t \in Task
  BY ZenonT(90), HasTask DEF Task, Steps, Phases
<1>4. Newest \in Nat /\ NumActions \in Nat /\ Newest + 1 \in Actions
  BY <1>1, NewestIsNat, OutboxAssumption DEF Actions
<1>5. \A a \in Actions : a \in Signed <=> a <= Newest
  BY DEF Base, KeysInv
<1>6. Signed' = Signed \cup {Newest + 1}
  BY <1>1, <1>4 DEF Signed, Base, Typed
<1>7. Newest' = Newest + 1
  <2>1. IsFiniteSet(Signed)
    <3>1. IsFiniteSet(Actions)
      BY FS_Interval, OutboxAssumption DEF Actions
    <3>2. Signed \in SUBSET Actions
      BY DEF Signed
    <3> QED
      BY <3>1, <3>2, FS_Subset
  <2>2. Newest + 1 \notin Signed
    BY <1>4, <1>5
  <2>3. Cardinality(Signed') = Cardinality(Signed) + 1
    BY <1>6, <2>1, <2>2, FS_AddElement
  <2> QED
    BY <2>3 DEF Newest, Signed
<1> HIDE DEF t
<1>8. /\ task' \in [Workers -> Task] /\ task'[w] = t
      /\ \A v \in Workers \ {w} : task'[v] = task[v]
  BY <1>1, <1>3, Becoming DEF Base
<1>9. Typed'
  BY <1>1, <1>4, <1>8 DEF Base, Typed, ActionStatuses
<1>10. Rows' = Rows
  BY <1>1 DEF Rows
<1>11. KeysInv'
  <2>1. NonceIdentifiesAction'
    BY <1>1, <1>10 DEF Base, KeysInv, NonceIdentifiesAction
  <2>2. (\A i \in Rows : outbox[i].nonce < next /\ outbox[i].action \in Signed)'
    BY <1>1, <1>6, <1>10 DEF Base, KeysInv
  <2>3. ASSUME NEW a \in Actions
        PROVE  a \in Signed' <=> a <= Newest'
    BY <1>4, <1>5, <1>6, <1>7 DEF Actions
  <2> QED
    BY <1>4, <1>7, <2>1, <2>2, <2>3 DEF KeysInv
<1>12. PoolInv'
  BY <1>1, <1>10 DEF Base, PoolInv, Relayed
<1>13. TaskInv(w, task[w])'
  <2>1. /\ t.kind = "tick" /\ t.phase = "submit" /\ t.step = "history"
        /\ t.todo = task[w].todo /\ task[w].todo \subseteq Rows
    BY <1>2, HasTask DEF t, Task, TaskInv
  <2>2. Newest' # 0
    BY <1>4, <1>7
  <2> QED
    BY <1>2, <1>8, <1>10, <2>1, <2>2 DEF TaskInv, Held
<1>14. ASSUME NEW v \in Workers, v # w
       PROVE  TaskInv(v, task[v])'
  BY <1>1, <1>2, <1>8, <1>9, <1>14, HasTask, OthersKept
<1> QED
  BY <1>9, <1>11, <1>12, <1>13, <1>14 DEF Base

LEMMA TakesANewNonce ==
    ASSUME next \in Nat, NEW n \in Nat
    PROVE  TakeNonce(n) \in Nat /\ next <= TakeNonce(n)
  BY DEF TakeNonce

LEMMA PersistKeepsBase ==
    ASSUME Base, NEW w \in Workers, Persist(w)
    PROVE  Base'
<1> DEFINE nonce == TakeNonce(task[w].nonce)
           r == NewRow(Newest, nonce, 1)
           t == [task[w] EXCEPT !.step = "send", !.nonce = 0, !.row = Len(outbox) + 1]
<1>1. /\ At(w, "submit", "persist") /\ next' = nonce + 1 /\ outbox' = Append(outbox, r)
      /\ Becomes(w, t) /\ UNCHANGED <<chain, fin, mempool, faults, action, open>>
  BY DEF Persist, chainVars, runVars
<1>2. /\ task[w].kind = "tick" /\ w = Driver
      /\ Newest # 0 /\ RowsOf(Newest) = {}
  BY <1>1, HasTask DEF At, TaskInv
<1>3. Newest \in Actions /\ Newest \in Nat
  BY <1>2, NewestIsNat, OutboxAssumption DEF Actions
<1>4. nonce \in Nat /\ next <= nonce /\ next \in Nat
  BY TakesANewNonce, HasTask DEF Base, Typed, Task
<1>5. t \in Task
  <2>1. Len(outbox) + 1 \in Nat
    BY HasTask
  <2> QED
    BY ZenonT(90), <2>1, HasTask DEF Task, Steps, Held
<1> HIDE DEF nonce, t
<1>6. r \in Row /\ r.action = Newest /\ r.nonce = nonce
  BY <1>3, <1>4, OutboxAssumption DEF NewRow, Row, Statuses
<1> HIDE DEF r
<1>7. /\ outbox' \in Seq(Row) /\ Len(outbox') = Len(outbox) + 1
      /\ \A i \in 1..Len(outbox) : outbox'[i] = outbox[i]
      /\ outbox'[Len(outbox) + 1] = r
  BY <1>1, <1>6, AppendProperties DEF Base, Typed
<1>8. /\ task' \in [Workers -> Task] /\ task'[w] = t
      /\ \A v \in Workers \ {w} : task'[v] = task[v]
  BY <1>1, <1>5, Becoming DEF Base
<1>9. Typed'
  BY <1>1, <1>4, <1>7, <1>8 DEF Base, Typed
<1>10. Len(outbox) \in Nat
  BY HasTask
<1>11. Rows' = Rows \cup {Len(outbox) + 1} /\ Len(outbox) + 1 \notin Rows
  BY <1>7, <1>10 DEF Rows
<1>12. Newest' = Newest /\ Signed' = Signed
  BY <1>1 DEF Newest, Signed
<1>13. \A i \in Rows : /\ outbox'[i] = outbox[i] /\ outbox[i].nonce \in Nat
                       /\ outbox[i].nonce < next /\ outbox[i].action \in Signed
                       /\ outbox[i].action # Newest
  BY <1>2, <1>7, RowTyped DEF Base, KeysInv, Rows, RowsOf
<1>14. KeysInv'
  <2>1. NonceIdentifiesAction'
    <3> SUFFICES ASSUME NEW i \in Rows', NEW j \in Rows'
                 PROVE  outbox'[i].action = outbox'[j].action <=> outbox'[i].nonce = outbox'[j].nonce
      BY DEF NonceIdentifiesAction
    <3>1. CASE i \in Rows /\ j \in Rows
      BY <3>1, <1>13 DEF Base, KeysInv, NonceIdentifiesAction
    <3>2. CASE i \in Rows /\ j = Len(outbox) + 1
      <4>1. outbox'[i].action # outbox'[j].action
        BY <3>2, <1>6, <1>7, <1>13
      <4>2. outbox'[i].nonce # outbox'[j].nonce
        BY <3>2, <1>4, <1>6, <1>7, <1>13
      <4> QED
        BY <4>1, <4>2
    <3>3. CASE j \in Rows /\ i = Len(outbox) + 1
      <4>1. outbox'[i].action # outbox'[j].action
        BY <3>3, <1>6, <1>7, <1>13
      <4>2. outbox'[i].nonce # outbox'[j].nonce
        BY <3>3, <1>4, <1>6, <1>7, <1>13
      <4> QED
        BY <4>1, <4>2
    <3>4. CASE i = Len(outbox) + 1 /\ j = Len(outbox) + 1
      BY <3>4
    <3> QED
      BY <1>11, <3>1, <3>2, <3>3, <3>4
  <2>2. ASSUME NEW i \in Rows'
        PROVE  outbox'[i].nonce < next' /\ outbox'[i].action \in Signed'
    <3>1. CASE i \in Rows
      <4>1. outbox[i].nonce < nonce + 1
        BY <3>1, <1>4, <1>13
      <4> QED
        BY <3>1, <4>1, <1>1, <1>12, <1>13
    <3>2. CASE i = Len(outbox) + 1
      <4>1. outbox'[i].nonce < next'
        BY <3>2, <1>1, <1>4, <1>6, <1>7
      <4>2. Newest \in Signed
        BY <1>3 DEF Base, KeysInv
      <4> QED
        BY <3>2, <4>1, <4>2, <1>6, <1>7, <1>12
    <3> QED
      BY <1>11, <3>1, <3>2
  <2> QED
    BY <1>1, <1>12, <2>1, <2>2 DEF Base, KeysInv
<1>15. PoolInv'
  <2>1. ASSUME NEW tx, Relayed(tx)
        PROVE  \E i \in Rows' : tx = TxOf(outbox'[i])
    BY <2>1, <1>11, <1>13 DEF Relayed
  <2>2. (\A tx \in mempool : Relayed(tx))'
    BY <1>1, <2>1 DEF Base, PoolInv, Relayed
  <2>3. (\A h \in 1..Len(chain) : chain[h].tx # NoTx => Relayed(chain[h].tx))'
    BY <1>1, <2>1 DEF Base, PoolInv, Relayed
  <2> QED
    BY <2>2, <2>3 DEF PoolInv
<1>16. TaskInv(w, task[w])'
  <2>1. /\ t.kind = "tick" /\ t.phase = "submit" /\ t.step = "send"
        /\ t.todo = task[w].todo /\ t.row = Len(outbox) + 1
    BY <1>1, <1>2, HasTask DEF t, Task, At
  <2>2. t.todo \subseteq Rows' /\ t.row \in Rows'
    BY <1>11, <2>1, HasTask DEF TaskInv
  <2> QED
    BY <1>2, <1>8, <1>12, <2>1, <2>2 DEF TaskInv
<1>17. ASSUME NEW v \in Workers, v # w
       PROVE  TaskInv(v, task[v])'
  <2>1. Len(outbox) <= Len(outbox') /\ v # Driver /\ task'[v] = task[v]
    BY <1>2, <1>7, <1>8, <1>10, <1>17
  <2> QED
    BY <1>9, <1>13, <2>1, OthersKept
<1> QED
  BY <1>9, <1>14, <1>15, <1>16, <1>17 DEF Base

-----------------------------------------------------------------------------
(* Steps that write rows *)

LEMMA AsSeq ==
    ASSUME NEW S, NEW n \in Nat, NEW f, f \in [1..n -> S]
    PROVE  f \in Seq(S) /\ Len(f) = n
  OBVIOUS

LEMMA Editing ==
    ASSUME Base, outbox' \in [Rows -> Row],
           \A i \in Rows : TxOf(outbox'[i]) = TxOf(outbox[i]),
           action' \in [Actions -> ActionStatuses], Signed' = Signed,
           UNCHANGED <<chain, mempool, fin, next>>, faults' \in Nat,
           open' \in BOOLEAN, open' => open,
           NEW w \in Workers, NEW t \in Task, Becomes(w, t), TaskInv(w, t)
    PROVE  Base'
<1>1. /\ task' \in [Workers -> Task] /\ task'[w] = t
      /\ \A v \in Workers \ {w} : task'[v] = task[v]
  BY Becoming DEF Base
<1>2. Len(outbox) \in Nat
  BY HasTask
<1>3. outbox' \in Seq(Row) /\ Len(outbox') = Len(outbox)
  BY <1>2, AsSeq DEF Rows
<1>4. Typed'
  BY <1>1, <1>3 DEF Base, Typed
<1>5. SameKeys
  <2>1. \A i \in Rows : TxOf(outbox'[i]).action = outbox'[i].action
                    /\ TxOf(outbox'[i]).nonce = outbox'[i].nonce
                    /\ TxOf(outbox[i]).action = outbox[i].action
                    /\ TxOf(outbox[i]).nonce = outbox[i].nonce
    BY DEF TxOf
  <2>2. \A i \in Rows : outbox'[i].action = outbox[i].action /\ outbox'[i].nonce = outbox[i].nonce
    BY <2>1
  <2> QED
    BY <1>2, <1>3, <2>2 DEF SameKeys, Rows
<1>6. PoolStep
  BY DEF Base, PoolInv, PoolStep
<1> QED
  BY <1>1, <1>4, <1>5, <1>6, StepKeepsBase

(* Only an action that was signed is given a status.                       *)
LEMMA StaysSigned ==
    ASSUME Base, action' \in [Actions -> ActionStatuses],
           \A a \in Actions : action'[a] = "UNSIGNED" <=> action[a] = "UNSIGNED"
    PROVE  Signed' = Signed
  BY DEF Signed

LEMMA SignedAction ==
    ASSUME Base, NEW i \in Rows
    PROVE  action[outbox[i].action] # "UNSIGNED" /\ outbox[i].action \in Actions
  BY RowTyped DEF Base, KeysInv, Signed

LEMMA RewindKeepsBase ==
    ASSUME Base, NEW w \in Workers, Rewind(w)
    PROVE  Base'
<1> DEFINE gone == {i \in Rows : outbox[i].block \in task[w].stale}
           acts == {outbox[i].action : i \in gone}
           t == [task[w] EXCEPT !.step = "waiting", !.stale = {}]
<1>1. /\ At(w, "poll", "rewind") /\ Becomes(w, t) /\ UNCHANGED <<chain, mempool, fin, next>>
      /\ outbox' = [i \in Rows |-> IF i \in gone THEN ClearInclusion(outbox[i]) ELSE outbox[i]]
      /\ action' = ResetToSubmitted(acts) /\ UNCHANGED <<faults, open>>
  BY DEF Rewind, chainVars
<1>2. ASSUME NEW i \in Rows
      PROVE  outbox'[i] \in Row /\ TxOf(outbox'[i]) = TxOf(outbox[i])
  BY <1>1, RowTyped DEF Base, Row, TxOf, ClearInclusion, Statuses
<1>3. outbox' \in [Rows -> Row]
  BY <1>1, <1>2
<1>4. \A a \in acts : action[a] # "UNSIGNED"
  BY SignedAction
<1>5. action' \in [Actions -> ActionStatuses]
  BY <1>1 DEF ResetToSubmitted, Base, Typed, ActionStatuses
<1>6. \A a \in Actions : action'[a] = "UNSIGNED" <=> action[a] = "UNSIGNED"
  BY <1>1, <1>4 DEF ResetToSubmitted
<1>7. Signed' = Signed
  BY <1>5, <1>6, StaysSigned
<1>8. t \in Task /\ TaskInv(w, t)
  BY ZenonT(90), <1>1, HasTask DEF TaskInv, Task, Steps, Held, At
<1>9. faults' \in Nat /\ open' \in BOOLEAN /\ (open' => open)
  BY <1>1 DEF Base, Typed
<1> HIDE DEF t, gone, acts
<1> QED
  BY <1>1, <1>2, <1>3, <1>5, <1>7, <1>8, <1>9, Editing

LEMMA RecordInclusionKeepsBase ==
    ASSUME Base, NEW w \in Workers, RecordInclusion(w)
    PROVE  Base'
<1> DEFINE i == task[w].row
           status == IF task[w].ok THEN "INCLUDED" ELSE "REVERTED"
           t == [task[w] EXCEPT !.step = "receipt", !.found = NoBlock,
                    !.ok = TRUE, !.row = 0, !.todo = @ \ GroupOf(i)]
<1>1. /\ At(w, "poll", "include") /\ Becomes(w, t) /\ UNCHANGED <<chain, mempool, fin, next>>
      /\ outbox' = [j \in Rows |->
              CASE j = i -> [outbox[i] EXCEPT !.status = status, !.block = task[w].found]
                [] j \in Rivals(i) -> [outbox[j] EXCEPT !.status = "DROPPED"]
                [] OTHER -> outbox[j]]
      /\ action' = [action EXCEPT ![outbox[i].action] = status] /\ UNCHANGED <<faults, open>>
  BY DEF RecordInclusion, Mirrored, chainVars, runVars
<1>2. i \in Rows /\ task[w].found \in Block
  BY <1>1, HasTask DEF At, TaskInv, Held
<1>3. t \in Task /\ TaskInv(w, t)
  BY ZenonT(150), <1>1, HasTask DEF TaskInv, Task, Steps, Held, At
<1>4. status \in Included
  BY DEF Included
<1> HIDE DEF t, i, status
<1>5. ASSUME NEW j \in Rows
      PROVE  outbox'[j] \in Row /\ TxOf(outbox'[j]) = TxOf(outbox[j])
  <2>1. CASE j = i
    BY ZenonT(60), <1>1, <1>2, <1>4, <2>1, RowTyped DEF Base, Row, TxOf, Statuses, Included
  <2>2. CASE j # i /\ j \in Rivals(i)
    BY <1>1, <2>2, RowTyped DEF Base, Row, TxOf, Statuses
  <2>3. CASE j # i /\ j \notin Rivals(i)
    BY <1>1, <2>3, RowTyped DEF Base
  <2> QED
    BY <2>1, <2>2, <2>3
<1>6. outbox' \in [Rows -> Row]
  BY <1>1, <1>5
<1>7. action' \in [Actions -> ActionStatuses]
  BY <1>1, <1>4 DEF Base, Typed, ActionStatuses
<1>8. \A a \in Actions : action'[a] = "UNSIGNED" <=> action[a] = "UNSIGNED"
  BY <1>1, <1>2, <1>4, SignedAction DEF Included, Base, Typed
<1>9. Signed' = Signed
  BY <1>7, <1>8, StaysSigned
<1>10. faults' \in Nat /\ open' \in BOOLEAN /\ (open' => open)
  BY <1>1 DEF Base, Typed
<1> QED
  BY <1>1, <1>3, <1>5, <1>6, <1>7, <1>9, <1>10, Editing

(* Depth turns one recorded status into another.                           *)
LEMMA DepthStatus ==
    ASSUME NEW r \in Row, NEW head, NEW final
    PROVE  /\ AtDepth(r, head, final) \in Statuses
           /\ AtDepth(r, head, final) # r.status =>
                /\ r.status \in {"INCLUDED", "CONFIRMED"} /\ r.block # NoBlock
                /\ AtDepth(r, head, final) \in {"CONFIRMED", "FINALIZED"}
  BY DEF AtDepth, Row, Statuses

LEMMA UpdateDepthKeepsBase ==
    ASSUME Base, NEW w \in Workers, UpdateDepth(w)
    PROVE  Base'
<1> DEFINE now(i) == AtDepth(outbox[i], task[w].head, task[w].final)
           moved == {i \in Rows : now(i) # outbox[i].status}
           t == [task[w] EXCEPT !.phase = "replace", !.step = "list"]
<1>1. /\ At(w, "poll", "receipt") /\ Becomes(w, t) /\ UNCHANGED <<chain, mempool, fin, next>>
      /\ outbox' = [i \in Rows |-> [outbox[i] EXCEPT !.status = now(i)]]
      /\ action' = [a \in Actions |->
              IF \E i \in moved : outbox[i].action = a
              THEN now(CHOOSE i \in moved : outbox[i].action = a)
              ELSE action[a]]
      /\ UNCHANGED <<faults, open>>
  BY DEF UpdateDepth, Phase, chainVars, runVars
<1>2. \A i \in Rows : now(i) \in Statuses
  BY RowTyped, DepthStatus DEF Base
<1>3. \A i \in moved : now(i) \in {"CONFIRMED", "FINALIZED"}
  BY RowTyped, DepthStatus DEF Base
<1>4. t \in Task /\ TaskInv(w, t)
  BY ZenonT(150), <1>1, HasTask DEF TaskInv, Task, Steps, Phases, Held, At
<1> HIDE DEF now, t
<1>5. ASSUME NEW j \in Rows
      PROVE  outbox'[j] \in Row /\ TxOf(outbox'[j]) = TxOf(outbox[j])
  BY <1>1, <1>2, RowTyped DEF Base, Row, TxOf
<1>6. outbox' \in [Rows -> Row]
  BY <1>1, <1>5
<1>7. ASSUME NEW a \in Actions
      PROVE  /\ action'[a] \in ActionStatuses
             /\ action'[a] = "UNSIGNED" <=> action[a] = "UNSIGNED"
  <2>1. CASE \E i \in moved : outbox[i].action = a
    <3> DEFINE k == CHOOSE i \in moved : outbox[i].action = a
    <3>1. k \in moved /\ outbox[k].action = a
      BY <2>1
    <3>2. action'[a] = now(k)
      BY <1>1, <2>1
    <3> HIDE DEF k
    <3>3. action[a] # "UNSIGNED"
      BY <3>1, SignedAction
    <3> QED
      BY <1>3, <3>1, <3>2, <3>3 DEF ActionStatuses, Included
  <2>2. CASE ~\E i \in moved : outbox[i].action = a
    BY <1>1, <2>2 DEF Base, Typed
  <2> QED
    BY <2>1, <2>2
<1> HIDE DEF moved
<1>8. action' \in [Actions -> ActionStatuses]
  BY <1>1, <1>7
<1>9. Signed' = Signed
  BY <1>7, <1>8, StaysSigned
<1>10. faults' \in Nat /\ open' \in BOOLEAN /\ (open' => open)
  BY <1>1 DEF Base, Typed
<1> QED
  BY <1>1, <1>4, <1>5, <1>6, <1>8, <1>9, <1>10, Editing

LEMMA NonceConsumedKeepsBase ==
    ASSUME Base, NEW w \in Workers, NonceConsumed(w)
    PROVE  Base'
<1>1. At(w, "reconcile", "siblings") /\ UNCHANGED <<chainVars, action, next, runVars, up>>
  BY DEF NonceConsumed
<1>2. task[w].row \in Rows /\ task[w].phase = "reconcile"
  BY <1>1, HasTask DEF At, TaskInv, Held
<1>3. CASE outbox' = [outbox EXCEPT ![task[w].row].status = "DROPPED"] /\ Done(w)
  <2> DEFINE t == [task[w] EXCEPT !.step = "receipt", !.row = 0]
  <2>1. t \in Task /\ TaskInv(w, t)
    BY <1>2, DoneTask
  <2>2. Becomes(w, t)
    BY <1>3 DEF Done
  <2> HIDE DEF t
  <2>3. ASSUME NEW j \in Rows
        PROVE  outbox'[j] \in Row /\ TxOf(outbox'[j]) = TxOf(outbox[j])
    BY <1>3, RowTyped DEF Base, Row, TxOf, Statuses
  <2>4. outbox' \in [Rows -> Row]
    <3>1. outbox \in [Rows -> Row]
      BY LenProperties DEF Base, Typed, Rows
    <3> QED
      BY <1>3, <2>3, <3>1
  <2>5. /\ action' \in [Actions -> ActionStatuses] /\ Signed' = Signed
        /\ UNCHANGED <<chain, mempool, fin, next>>
        /\ faults' \in Nat /\ open' \in BOOLEAN /\ (open' => open)
    BY <1>1 DEF Base, Typed, Signed, chainVars, runVars
  <2> QED
    BY <2>1, <2>2, <2>3, <2>4, <2>5, Editing
<1>4. CASE UNCHANGED outbox /\ Judged(w, "nonce_conflict")
  <2> DEFINE t == [task[w] EXCEPT !.step = "receipt", !.row = 0,
                      !.bad = IF @ = "none" THEN "nonce_conflict" ELSE @]
  <2>1. t \in Task /\ TaskInv(w, t)
    BY <1>2, JudgedTask DEF Outcomes
  <2>2. Becomes(w, t)
    BY <1>4 DEF Judged
  <2>3. OnlyTask
    BY <1>1, <1>4, Reading DEF rowVars, runVars
  <2> HIDE DEF t
  <2> QED
    BY <2>1, <2>2, <2>3, GoesOn
<1> QED
  BY <1>3, <1>4 DEF NonceConsumed

LEMMA ReplaceKeepsBase ==
    ASSUME Base, NEW w \in Workers, Replace(w)
    PROVE  Base'
<1> DEFINE i == task[w].row
           r == Taken(w)
           new == NewRow(r.action, r.nonce, r.fee + 1)
           old == [outbox EXCEPT ![i].status = "REPLACED"]
           t == [task[w] EXCEPT !.step = "send", !.row = Len(outbox) + 1]
<1>1. /\ At(w, "replace", "swap") /\ Becomes(w, t) /\ outbox' = Append(old, new)
      /\ UNCHANGED <<chain, mempool, fin, faults, action, next, open>>
  BY DEF Replace, chainVars, runVars
<1>2. i \in Rows /\ Len(outbox) \in Nat /\ TaskInv(w, task[w])
  BY <1>1, HasTask DEF At, TaskInv, Held
<1>3. old \in Seq(Row) /\ Len(old) = Len(outbox)
  <2>1. outbox \in [1..Len(outbox) -> Row] /\ i \in 1..Len(outbox)
    BY <1>2, LenProperties DEF Base, Typed, Rows
  <2>2. [outbox[i] EXCEPT !.status = "REPLACED"] \in Row
    BY <1>2, RowTyped DEF Base, Row, Statuses
  <2>3. old \in [1..Len(outbox) -> Row]
    BY <2>1, <2>2
  <2> QED
    <3> HIDE DEF old
    <3> QED
      BY <1>2, <2>3, AsSeq
<1>4. \A j \in Rows : TxOf(old[j]) = TxOf(outbox[j])
  BY LenProperties DEF Base, Typed, Rows, TxOf
<1>5. r \in Row /\ r = outbox[i]
  BY <1>2, RowTyped DEF Base, Taken
<1>6. new \in Row /\ new.action = r.action /\ new.nonce = r.nonce
  <2>1. r.fee < MaxFee /\ r.fee \in 1..MaxFee
    BY <1>1, <1>2, <1>5, RowTyped DEF Base, Row, TaskInv, At
  <2>2. r.fee + 1 \in 1..MaxFee
    BY <2>1, OutboxAssumption
  <2> QED
    BY <1>5, <2>2 DEF NewRow, Row, Statuses
<1> HIDE DEF old, new, r
<1>7. /\ outbox' \in Seq(Row) /\ Len(outbox') = Len(outbox) + 1
      /\ \A j \in 1..Len(outbox) : outbox'[j] = old[j]
      /\ outbox'[Len(outbox) + 1] = new
  BY <1>1, <1>3, <1>6, AppendProperties
<1>8. t \in Task
  <2>1. Len(outbox) + 1 \in Nat
    BY <1>2
  <2> QED
    BY ZenonT(90), <2>1, HasTask DEF Task, Steps, Held
<1>9. /\ t.kind = task[w].kind /\ t.phase = "replace" /\ t.step = "send"
      /\ t.row = Len(outbox) + 1 /\ t.todo = task[w].todo
  BY <1>1, HasTask DEF Task, At
<1> HIDE DEF t
<1>10. /\ task' \in [Workers -> Task] /\ task'[w] = t
       /\ \A v \in Workers \ {w} : task'[v] = task[v]
  BY <1>1, <1>8, Becoming DEF Base
<1>11. Typed'
  BY <1>1, <1>7, <1>10 DEF Base, Typed
<1>12. Rows' = Rows \cup {Len(outbox) + 1}
  BY <1>2, <1>7 DEF Rows
<1>13. SameKeys
  <2>1. \A j \in Rows : TxOf(outbox'[j]) = TxOf(outbox[j])
    BY <1>4, <1>7 DEF Rows
  <2>2. \A j \in Rows : outbox'[j].action = outbox[j].action /\ outbox'[j].nonce = outbox[j].nonce
    BY <2>1 DEF TxOf
  <2>3. ASSUME NEW j \in 1..Len(outbox')
        PROVE  \E k \in Rows :
                 outbox'[j].action = outbox[k].action /\ outbox'[j].nonce = outbox[k].nonce
    <3>1. CASE j \in Rows
      BY <2>2, <3>1
    <3>2. CASE j = Len(outbox) + 1
      BY <1>2, <1>5, <1>6, <1>7, <3>2
    <3> QED
      BY <1>2, <1>7, <3>1, <3>2 DEF Rows
  <2>4. Len(outbox) <= Len(outbox')
    BY <1>2, <1>7
  <2>5. Signed' = Signed /\ next' = next /\ (open' => open)
    BY <1>1 DEF Signed
  <2> QED
    BY <2>1, <2>3, <2>4, <2>5 DEF SameKeys
<1>14. KeysInv'
  BY <1>11, <1>13, KeysStay DEF Base
<1>15. PoolInv'
  <2>1. PoolStep
    BY <1>1 DEF Base, PoolInv, PoolStep
  <2> QED
    BY <1>11, <1>13, <2>1, PoolStays DEF Base
<1>16. TaskInv(w, task[w])'
  BY <1>2, <1>1, <1>9, <1>10, <1>12 DEF TaskInv, At
<1>17. ASSUME NEW v \in Workers, v # w
       PROVE  TaskInv(v, task[v])'
  BY <1>10, <1>11, <1>13, <1>17, TaskStays, HasTask DEF Base
<1> QED
  BY <1>11, <1>14, <1>15, <1>16, <1>17 DEF Base

-----------------------------------------------------------------------------
(* Broadcasting *)

LEMMA SendTask ==
    ASSUME Base, NEW w \in Workers, task[w].step = "send",
           NEW answer \in Answers
    PROVE  LET t == [task[w] EXCEPT !.step = "record", !.answer = answer,
                                    !.head = Len(chain)]
           IN  t \in Task /\ TaskInv(w, t)
  BY ZenonT(150), HasTask DEF TaskInv, Task, Steps, Held

LEMMA SendKeepsBase ==
    ASSUME Base, NEW w \in Workers, Send(w)
    PROVE  Base'
<1> DEFINE tx == TxOf(Taken(w))
           heard(answer) == [task[w] EXCEPT !.step = "record", !.answer = answer,
                                            !.head = Len(chain)]
<1>1. /\ task[w].step = "send" /\ UNCHANGED <<chain, fin, outbox, action, next, open>>
      /\ mempool' \in {mempool, Delivered(tx)}
  BY DEF Send, SendSteps, rowVars, runVars
<1>2. task[w].row \in Rows
  BY <1>1, HasTask DEF TaskInv, Held
<1>3. tx \in Tx /\ Relayed(tx)
  BY <1>2, RowTyped DEF Base, Taken, Relayed
<1>4. mempool' \subseteq mempool \cup {tx}
  BY <1>1 DEF Delivered
<1>5. PICK answer \in Answers : Becomes(w, heard(answer)) /\ faults' \in Nat
  <2>1. CASE Becomes(w, heard(NodeAnswer(tx))) /\ UNCHANGED faults
    BY <2>1 DEF NodeAnswer, Answers, Base, Typed
  <2>2. CASE Fault("lost") /\ Becomes(w, heard("unreachable"))
    BY <2>2, FaultCounts DEF Answers, Base
  <2> QED
    BY <2>1, <2>2 DEF Send
<1> DEFINE t == heard(answer)
<1>6. t \in Task /\ TaskInv(w, t)
  BY <1>1, SendTask
<1>7. Becomes(w, t)
  BY <1>5
<1> HIDE DEF t, tx, heard
<1>8. /\ task' \in [Workers -> Task] /\ task'[w] = t
      /\ \A v \in Workers \ {w} : task'[v] = task[v]
  BY <1>6, <1>7, Becoming DEF Base
<1>9. Typed'
  BY <1>1, <1>3, <1>4, <1>5, <1>8 DEF Base, Typed
<1>10. SameKeys
  BY <1>1, SameRows DEF Base
<1>11. PoolStep
  BY <1>1, <1>3, <1>4 DEF Base, PoolInv, PoolStep
<1> QED
  BY <1>6, <1>8, <1>9, <1>10, <1>11, StepKeepsBase

LEMMA RecordSendKeepsBase ==
    ASSUME Base, NEW w \in Workers, RecordSend(w)
    PROVE  Base'
<1> DEFINE i == task[w].row
           r == outbox[i]
           sent == task[w].answer = "accepted"
<1>1. /\ task[w].step = "record" /\ task[w].phase \in {"submit", "replace", "reconcile"}
      /\ outbox' = [outbox EXCEPT ![i].tried = TRUE,
              ![i].status = IF sent THEN "SUBMITTED" ELSE @,
              ![i].since = IF sent /\ @ = NoBlock THEN task[w].head ELSE @]
      /\ action' = [action EXCEPT ![r.action] =
              IF sent /\ @ = "SIGNED" THEN "SUBMITTED" ELSE @]
      /\ UNCHANGED <<chain, mempool, fin, faults, next, open>>
  BY DEF RecordSend, RecordSteps, chainVars, runVars
<1>2. i \in Rows /\ task[w] \in Task /\ task[w].head \in Nat
  BY <1>1, HasTask DEF TaskInv, Held, Task
<1>3. PICK t \in Task : Becomes(w, t) /\ TaskInv(w, t)
  <2>1. CASE task[w].phase = "submit"
    <3>1. Ends(w)
      BY <2>1 DEF RecordSend
    <3> QED
      BY <3>1, QuietTask, QuietInv DEF Ends
  <2>2. CASE task[w].phase = "replace"
    <3> DEFINE t == [task[w] EXCEPT !.step = "receipt", !.row = 0,
                        !.answer = "none", !.head = 0]
    <3>1. Becomes(w, t)
      BY <2>2 DEF RecordSend
    <3>2. t \in Task /\ TaskInv(w, t)
      BY ZenonT(150), <2>2, HasTask DEF TaskInv, Task, Steps, Held, Answers
    <3> HIDE DEF t
    <3> QED
      BY <3>1, <3>2
  <2>3. CASE task[w].phase = "reconcile"
    <3> DEFINE t == [task[w] EXCEPT !.step = "receipt", !.row = 0,
                        !.answer = "none", !.head = 0,
                        !.bad = IF @ # "none" \/ sent THEN @ ELSE task[w].answer]
    <3>1. Becomes(w, t)
      BY <2>3 DEF RecordSend
    <3>2. t \in Task
      BY ZenonT(150), HasTask DEF Task, Steps, Answers, Outcomes
    <3>3. TaskInv(w, t)
      BY <2>3, HasTask DEF TaskInv, Held
    <3> HIDE DEF t
    <3> QED
      BY <3>1, <3>2, <3>3
  <2> QED
    BY <1>1, <2>1, <2>2, <2>3
<1> HIDE DEF i
<1>4. ASSUME NEW j \in Rows
      PROVE  outbox'[j] \in Row /\ TxOf(outbox'[j]) = TxOf(outbox[j])
  <2>1. outbox \in [Rows -> Row]
    BY LenProperties DEF Base, Typed, Rows
  <2> QED
    BY ZenonT(150), <1>1, <1>2, <2>1 DEF Row, TxOf, Statuses
<1>5. outbox' \in [Rows -> Row]
  <2>1. outbox \in [Rows -> Row]
    BY LenProperties DEF Base, Typed, Rows
  <2> QED
    BY <1>1, <1>4, <2>1
<1>6. action' \in [Actions -> ActionStatuses]
  BY <1>1 DEF Base, Typed, ActionStatuses
<1>7. \A a \in Actions : action'[a] = "UNSIGNED" <=> action[a] = "UNSIGNED"
  BY <1>1 DEF Base, Typed
<1>8. Signed' = Signed
  BY <1>6, <1>7, StaysSigned
<1>9. faults' \in Nat /\ open' \in BOOLEAN /\ (open' => open)
  BY <1>1 DEF Base, Typed
<1> QED
  BY <1>1, <1>3, <1>4, <1>5, <1>6, <1>8, <1>9, Editing

-----------------------------------------------------------------------------
(* One nonce for one action, in every behaviour *)

LEMMA WorkKeepsBase ==
    ASSUME Base, NEW w \in Workers, Work(w)
    PROVE  Base'
<1>1. CASE Poll(w)
  BY <1>1, CheckReorgKeepsBase, RewindKeepsBase, ListWaitingKeepsBase, LookUpKeepsBase,
     RecordInclusionKeepsBase, UpdateDepthKeepsBase DEF Poll
<1>2. CASE ReplaceStuck(w)
  BY <1>2, ListStuckKeepsBase, CheckStuckKeepsBase, ReplaceKeepsBase DEF ReplaceStuck
<1>3. CASE Synced(w) \/ Resend(w)
  BY <1>3, SyncedKeepsBase, ResendKeepsBase
<1>4. CASE Reconcile(w)
  BY <1>4, ListUnfinishedKeepsBase, HasReceiptKeepsBase, IsKnownKeepsBase,
     IsNonceFreeKeepsBase, NonceConsumedKeepsBase, ReconciledKeepsBase DEF Reconcile
<1>5. CASE Broadcast(w)
  BY <1>5, SendKeepsBase, RecordSendKeepsBase DEF Broadcast
<1>6. CASE Act(w)
  BY <1>6, ReadingActKeepsBase, SignActionKeepsBase, ResumeHistoryKeepsBase,
     QuoteKeepsBase, PersistKeepsBase DEF Act
<1> QED
  BY <1>1, <1>2, <1>3, <1>4, <1>5, <1>6 DEF Work

LEMMA BaseStep ==
    ASSUME Base, [Next]_vars
    PROVE  Base'
<1>1. CASE ChainStep
  BY <1>1, MineTxKeepsBase, EvictKeepsBase, MineEmptyKeepsBase, FinalizeKeepsBase,
     ReorgKeepsBase DEF ChainStep
<1>2. ASSUME NEW w \in Workers, BeginTick(w) \/ BeginResume(w) \/ Work(w)
      PROVE  Base'
  BY <1>2, BeginsKeepBase, WorkKeepsBase
<1>3. ASSUME NEW w \in Workers, Unanswered(w) \/ Unreachable(w)
      PROVE  Base'
  BY <1>3, UnansweredKeepsBase, UnreachableKeepsBase
<1>4. CASE Crash \/ Restart
  BY <1>4, CrashKeepsBase, RestartKeepsBase
<1>5. CASE UNCHANGED vars
  BY SMTT(60), <1>5 DEF vars, chainVars, rowVars, runVars, Base, Typed, KeysInv, PoolInv,
     TaskInv, NonceIdentifiesAction, Rows, RowsOf, Relayed, Newest, Signed
<1> QED
  BY <1>1, <1>2, <1>3, <1>4, <1>5 DEF Next

(* The chain, the database and every task keep their types; the actions of *)
(* a run are signed one after another, and the node holds only what the    *)
(* outbox has.                                                             *)
THEOREM OutboxTyped == Spec => []Base
<1>1. Init => Base
  BY InitBase
<1>2. Base /\ [Next]_vars => Base'
  BY BaseStep
<1> QED
  BY <1>1, <1>2, PTL DEF Spec

(* submit_action, take_relay_nonce, replace_stuck: an action is signed at  *)
(* one nonce and a nonce carries one action, whatever is lost, evicted or  *)
(* reorganised away, wherever the process dies, and although resume        *)
(* requests reconcile beside the driver.                                   *)
THEOREM OneNonceOneAction == Spec => []NonceIdentifiesAction
<1>1. Base => NonceIdentifiesAction
  BY DEF Base, KeysInv
<1> QED
  BY <1>1, OutboxTyped, PTL

-----------------------------------------------------------------------------
(* What is recorded of an action, while the driver works alone *)

LEMMA Alone ==
    ASSUME Resumers = {} PROVE Workers = {Driver}
  BY DEF Workers

LEMMA Blocked ==
    ASSUME Typed, NEW i \in Rows
    PROVE  /\ ~Clear(i) <=> outbox[i].block \in Block
           /\ outbox[i].status \in Statuses
  BY RowTyped, NoBlockAssumption DEF Clear, Row

(* What was not recorded as mined stays so when nothing is recorded.       *)
LEMMA MirrorReads ==
    ASSUME Resumers = {}, Base, MirrorInv, UNCHANGED <<outbox, action>>,
           NEW w \in Workers, NEW t, task'[w] = t, ListInv(t)
    PROVE  MirrorInv'
<1>1. (\A v \in Workers : ListInv(task[v]))'
  <2>1. Workers = {w}
    BY Alone
  <2> QED
    BY <2>1 DEF ListInv, Listed, Clear, GroupOf, Rows
<1>2. MinedHasBlock' /\ OneCharged' /\ Mirrors'
  BY DEF MirrorInv, MinedHasBlock, OneCharged, Mirrors, Clear, Rows, RowsOf
<1> QED
  BY <1>1, <1>2 DEF MirrorInv

LEMMA ListShrinks ==
    ASSUME MirrorInv, NEW w \in Workers, NEW t, Listed(t) \subseteq Listed(task[w]),
           t.phase = "poll" => task[w].phase = "poll"
    PROVE  ListInv(t)
  BY DEF MirrorInv, ListInv

LEMMA NothingListed ==
    ASSUME NEW t, t.todo = {}, t.step \notin Held
    PROVE  ListInv(t)
  BY DEF ListInv, Listed

(* The node's steps, and those that leave a task with less than it had.    *)
LEMMA NodeKeepsMirror ==
    ASSUME Resumers = {}, Base, MirrorInv, UNCHANGED <<outbox, action, task>>
    PROVE  MirrorInv'
<1>1. Driver \in Workers /\ ListInv(task[Driver])
  BY DEF Workers, MirrorInv
<1> QED
  BY <1>1, MirrorReads

LEMMA TaskShrinks ==
    ASSUME Resumers = {}, Base, MirrorInv, UNCHANGED <<outbox, action>>,
           NEW w \in Workers, NEW t, Becomes(w, t),
           Listed(t) \subseteq Listed(task[w]), t.phase = "poll" => task[w].phase = "poll"
    PROVE  MirrorInv'
<1>1. task'[w] = t
  BY DEF Becomes, Base, Typed
<1> QED
  BY <1>1, ListShrinks, MirrorReads

LEMMA TaskIsFree ==
    ASSUME Resumers = {}, Base, MirrorInv, UNCHANGED <<outbox, action>>,
           NEW w \in Workers, NEW t, Becomes(w, t), t.todo = {}, t.step \notin Held
    PROVE  MirrorInv'
<1>1. task'[w] = t
  BY DEF Becomes, Base, Typed
<1> QED
  BY <1>1, NothingListed, MirrorReads

LEMMA EndsKeepsMirror ==
    ASSUME Resumers = {}, Base, MirrorInv, UNCHANGED <<outbox, action>>,
           NEW w \in Workers, Ends(w)
    PROVE  MirrorInv'
<1>1. Quiet.todo = {} /\ Quiet.step \notin Held
  BY DEF Quiet, Held
<1> QED
  BY <1>1, TaskIsFree DEF Ends

LEMMA SkipsKeepsMirror ==
    ASSUME Resumers = {}, Base, MirrorInv, UNCHANGED <<outbox, action>>,
           NEW w \in Workers, Skips(w)
    PROVE  MirrorInv'
<1> DEFINE t == [task[w] EXCEPT !.todo = @ \ {First(w)}]
<1>1. Listed(t) \subseteq Listed(task[w]) /\ t.phase = task[w].phase
  BY HasTask DEF Listed, Task
<1>2. Becomes(w, t)
  BY DEF Skips
<1> HIDE DEF t
<1> QED
  BY <1>1, <1>2, TaskShrinks

LEMMA TakesKeepsMirror ==
    ASSUME Resumers = {}, Base, MirrorInv, UNCHANGED <<outbox, action>>,
           NEW w \in Workers, NEW step \in Held, task[w].todo # {}, Takes(w, step)
    PROVE  MirrorInv'
<1> DEFINE t == [task[w] EXCEPT !.step = step, !.row = First(w), !.todo = @ \ {First(w)}]
<1>1. Listed(t) \subseteq Listed(task[w]) /\ t.phase = task[w].phase
  BY HasTask, FirstTaken DEF Listed, Task
<1>2. Becomes(w, t)
  BY DEF Takes
<1> HIDE DEF t
<1> QED
  BY <1>1, <1>2, TaskShrinks

(* The steps that read, one by one.                                        *)
LEMMA ReadsKeepMirror ==
    ASSUME Resumers = {}, Base, MirrorInv, NEW w \in Workers,
           BeginTick(w) \/ BeginResume(w) \/ CheckReorg(w) \/ Synced(w) \/ Resend(w)
    PROVE  MirrorInv'
<1>1. UNCHANGED <<outbox, action>> /\ task[w] \in Task
  BY HasTask DEF BeginTick, BeginResume, CheckReorg, Synced, Resend, rowVars
<1>2. CASE BeginTick(w)
  <2> DEFINE t == [Quiet EXCEPT !.kind = "tick", !.phase = "poll", !.step = "blocks",
                                !.head = Len(chain), !.final = fin]
  <2>1. Becomes(w, t)
    BY <1>2 DEF BeginTick, PollFrom
  <2>2. t.todo = {} /\ t.step \notin Held
    BY DEF Quiet, Held
  <2> HIDE DEF t
  <2> QED
    BY <1>1, <2>1, <2>2, TaskIsFree
<1>3. CASE BeginResume(w)
  <2> DEFINE t == [Quiet EXCEPT !.kind = IF run = "paused" THEN "resume" ELSE "recover",
                                !.phase = "reconcile", !.step = "list"]
  <2>1. Becomes(w, t)
    BY <1>3 DEF BeginResume
  <2>2. t.todo = {} /\ t.step \notin Held
    BY DEF Quiet, Held
  <2> HIDE DEF t
  <2> QED
    BY <1>1, <2>1, <2>2, TaskIsFree
<1>4. CASE CheckReorg(w)
  <2> DEFINE t == [task[w] EXCEPT !.stale = StaleBlocks(w),
                      !.step = IF StaleBlocks(w) = {} THEN "waiting" ELSE "rewind"]
  <2>1. Becomes(w, t)
    BY <1>4 DEF CheckReorg
  <2>2. Listed(t) \subseteq Listed(task[w]) /\ t.phase = task[w].phase
    BY <1>1 DEF Listed, Task, Held
  <2> HIDE DEF t
  <2> QED
    BY <1>1, <2>1, <2>2, TaskShrinks
<1>5. CASE Synced(w)
  <2>1. CASE Ends(w)
    BY <1>1, <2>1, EndsKeepsMirror
  <2>2. CASE Phase(w, "resend", "list")
    <3> DEFINE t == [task[w] EXCEPT !.phase = "resend", !.step = "list"]
    <3>1. Becomes(w, t)
      BY <2>2 DEF Phase
    <3>2. Listed(t) \subseteq Listed(task[w]) /\ t.phase # "poll"
      BY <1>1 DEF Listed, Task, Held
    <3> HIDE DEF t
    <3> QED
      BY <1>1, <3>1, <3>2, TaskShrinks
  <2>3. CASE Becomes(w, [task[w] EXCEPT !.phase = "reconcile", !.step = "list",
                            !.kind = IF @ = "recover" THEN "restart" ELSE @])
    <3> DEFINE t == [task[w] EXCEPT !.phase = "reconcile", !.step = "list",
                        !.kind = IF @ = "recover" THEN "restart" ELSE @]
    <3>1. Becomes(w, t)
      BY <2>3
    <3>2. Listed(t) \subseteq Listed(task[w]) /\ t.phase # "poll"
      BY <1>1 DEF Listed, Task, Held
    <3> HIDE DEF t
    <3> QED
      BY <1>1, <3>1, <3>2, TaskShrinks
  <2> QED
    BY <1>5, <2>1, <2>2, <2>3 DEF Synced
<1>6. CASE Resend(w)
  <2>1. PICK kind \in Kinds, phase \in {"act", "reconcile"}, step \in {"follow", "list"} :
           Becomes(w, [task[w] EXCEPT !.kind = kind, !.phase = phase, !.step = step])
    <3>1. CASE Phase(w, "act", "follow")
      <4>1. [task[w] EXCEPT !.phase = "act", !.step = "follow"]
              = [task[w] EXCEPT !.kind = task[w].kind, !.phase = "act", !.step = "follow"]
        BY <1>1 DEF Task
      <4> QED
        BY <1>1, <3>1, <4>1 DEF Phase, Task
    <3>2. CASE Becomes(w, [task[w] EXCEPT !.kind = "resend", !.phase = "reconcile", !.step = "list"])
      BY <3>2 DEF Kinds
    <3> QED
      BY ZenonT(60), <1>6, <3>1, <3>2 DEF Resend
  <2> DEFINE t == [task[w] EXCEPT !.kind = kind, !.phase = phase, !.step = step]
  <2>2. Becomes(w, t)
    BY <2>1
  <2>3. Listed(t) \subseteq Listed(task[w]) /\ t.phase # "poll"
    BY <1>1 DEF Listed, Task, Held
  <2> HIDE DEF t
  <2> QED
    BY SMTT(30), <1>1, <2>2, <2>3, TaskShrinks
<1> QED
  BY <1>2, <1>3, <1>4, <1>5, <1>6

LEMMA PollReadsKeepMirror ==
    ASSUME Resumers = {}, Base, MirrorInv, NEW w \in Workers,
           ListWaiting(w) \/ LookUp(w) \/ ListStuck(w) \/ CheckStuck(w)
    PROVE  MirrorInv'
<1>1. UNCHANGED <<outbox, action>> /\ task[w] \in Task
  BY HasTask DEF ListWaiting, LookUp, ListStuck, CheckStuck, rowVars
<1>2. CASE ListWaiting(w)
  <2> DEFINE t == [task[w] EXCEPT !.step = "receipt", !.todo = {i \in Rows : Awaits(i)}]
  <2>1. Becomes(w, t)
    BY <1>2 DEF ListWaiting
  <2>2. Listed(t) = {i \in Rows : Awaits(i)}
    BY SMTT(40), <1>1 DEF Listed, Task, Held
  <2>3. ListInv(t)
    BY <2>2 DEF ListInv, Awaits, Clear, GroupOf
  <2>4. task'[w] = t
    BY SMTT(40), <2>1 DEF Becomes, Base, Typed
  <2> HIDE DEF t
  <2> QED
    BY <1>1, <2>3, <2>4, MirrorReads
<1>3. CASE LookUp(w)
  <2>1. task[w].todo # {} /\ task[w].phase = "poll"
    BY <1>3 DEF LookUp, At
  <2>2. CASE Skips(w)
    BY <1>1, <2>2, SkipsKeepsMirror
  <2>3. ASSUME NEW h \in Nat,
               Becomes(w, [task[w] EXCEPT !.step = "include", !.ok = chain[h].ok,
                            !.row = First(w), !.todo = @ \ {First(w)},
                            !.found = [height |-> h, hash |-> chain[h].hash]])
        PROVE  MirrorInv'
    <3> DEFINE t == [task[w] EXCEPT !.step = "include", !.ok = chain[h].ok,
                        !.row = First(w), !.todo = @ \ {First(w)},
                        !.found = [height |-> h, hash |-> chain[h].hash]]
    <3>1. Becomes(w, t)
      BY <2>3
    <3>2. Listed(t) \subseteq Listed(task[w]) /\ t.phase = task[w].phase
      BY <1>1, <2>1, FirstTaken DEF Listed, Task
    <3> HIDE DEF t
    <3> QED
      BY <1>1, <3>1, <3>2, TaskShrinks
  <2>4. \A h \in Mined(TxOf(outbox[First(w)])) : h \in Nat
    BY HasTask DEF Mined
  <2> QED
    BY <1>3, <2>2, <2>3, <2>4 DEF LookUp
<1>4. CASE ListStuck(w)
  <2> DEFINE t == [task[w] EXCEPT !.step = "receipt", !.head = 0, !.final = 0,
                                  !.todo = {i \in Rows : Stuck(i)}]
  <2>1. Becomes(w, t) /\ task[w].phase = "replace"
    BY <1>4 DEF ListStuck, At
  <2>2. Listed(t) = {i \in Rows : Stuck(i)} /\ t.phase # "poll"
    BY SMTT(40), <1>1, <2>1 DEF Listed, Task, Held
  <2>3. ListInv(t)
    BY <2>2 DEF ListInv, Stuck, Clear
  <2>4. task'[w] = t
    BY <2>1 DEF Becomes, Base, Typed
  <2> HIDE DEF t
  <2> QED
    BY <1>1, <2>3, <2>4, MirrorReads
<1>5. CASE CheckStuck(w)
  <2>1. task[w].todo # {} /\ (Skips(w) \/ Takes(w, "swap"))
    BY <1>5 DEF CheckStuck
  <2> QED
    BY <1>1, <2>1, SkipsKeepsMirror, TakesKeepsMirror DEF Held
<1> QED
  BY <1>2, <1>3, <1>4, <1>5

(* A step about the same row, or about none.                               *)
LEMMA StepKeepsMirror ==
    ASSUME Resumers = {}, Base, MirrorInv, UNCHANGED <<outbox, action>>,
           NEW w \in Workers, NEW step, step \in Held => task[w].step \in Held,
           Step(w, step)
    PROVE  MirrorInv'
<1> DEFINE t == [task[w] EXCEPT !.step = step]
<1>1. Becomes(w, t)
  BY DEF Step
<1>2. Listed(t) \subseteq Listed(task[w]) /\ t.phase = task[w].phase
  BY HasTask DEF Listed, Task
<1> HIDE DEF t
<1> QED
  BY <1>1, <1>2, TaskShrinks

LEMMA DoneKeepsMirror ==
    ASSUME Resumers = {}, Base, MirrorInv, UNCHANGED <<outbox, action>>,
           NEW w \in Workers, NEW outcome, Done(w) \/ Judged(w, outcome)
    PROVE  MirrorInv'
<1>1. CASE Done(w)
  <2> DEFINE t == [task[w] EXCEPT !.step = "receipt", !.row = 0]
  <2>1. Becomes(w, t)
    BY <1>1 DEF Done
  <2>2. Listed(t) \subseteq Listed(task[w]) /\ t.phase = task[w].phase
    BY HasTask DEF Listed, Task, Held
  <2> HIDE DEF t
  <2> QED
    BY <2>1, <2>2, TaskShrinks
<1>2. CASE Judged(w, outcome)
  <2> DEFINE t == [task[w] EXCEPT !.step = "receipt", !.row = 0,
                      !.bad = IF @ = "none" THEN outcome ELSE @]
  <2>1. Becomes(w, t)
    BY <1>2 DEF Judged
  <2>2. Listed(t) \subseteq Listed(task[w]) /\ t.phase = task[w].phase
    BY HasTask DEF Listed, Task, Held
  <2> HIDE DEF t
  <2> QED
    BY <2>1, <2>2, TaskShrinks
<1> QED
  BY <1>1, <1>2

LEMMA ReconcileReadsKeepMirror ==
    ASSUME Resumers = {}, Base, MirrorInv, NEW w \in Workers,
           \/ ListUnfinished(w) \/ HasReceipt(w) \/ IsKnown(w) \/ IsNonceFree(w)
           \/ Unreachable(w) \/ Unanswered(w)
    PROVE  MirrorInv'
<1>1. UNCHANGED <<outbox, action>> /\ task[w] \in Task
  BY HasTask DEF ListUnfinished, HasReceipt, IsKnown, IsNonceFree, Unreachable,
     Unanswered, rowVars
<1>2. CASE ListUnfinished(w)
  <2> DEFINE t == [task[w] EXCEPT !.step = "receipt", !.bad = "none",
                      !.todo = {i \in Rows : Unfinished(i)},
                      !.pending = {i \in Rows : outbox[i].status = "PENDING"}]
  <2>1. Becomes(w, t) /\ task[w].phase = "reconcile"
    BY <1>2 DEF ListUnfinished, At
  <2>2. Listed(t) = {i \in Rows : Unfinished(i)} /\ t.phase # "poll"
    BY <1>1, <2>1 DEF Listed, Task, Held
  <2>3. \A i \in Rows : Unfinished(i) => Clear(i)
    BY DEF MirrorInv, MinedHasBlock, Unfinished, Included, Clear
  <2>4. ListInv(t)
    BY <2>2, <2>3 DEF ListInv
  <2>5. task'[w] = t
    BY <2>1 DEF Becomes, Base, Typed
  <2> HIDE DEF t
  <2> QED
    BY <1>1, <2>4, <2>5, MirrorReads
<1>3. CASE HasReceipt(w)
  <2>1. task[w].todo # {} /\ (Skips(w) \/ Takes(w, "known"))
    BY <1>3 DEF HasReceipt
  <2> QED
    BY <1>1, <2>1, SkipsKeepsMirror, TakesKeepsMirror DEF Held
<1>4. CASE IsKnown(w)
  <2>1. task[w].step = "known"
    BY <1>4 DEF IsKnown, At
  <2>2. CASE Step(w, "nonce")
    BY <1>1, <2>1, <2>2, StepKeepsMirror DEF Held
  <2>3. CASE Done(w)
    BY <1>1, <2>3, DoneKeepsMirror
  <2>4. CASE Becomes(w, [task[w] EXCEPT !.step = "record",
                            !.answer = "accepted", !.head = Len(chain)])
    <3> DEFINE t == [task[w] EXCEPT !.step = "record", !.answer = "accepted",
                                    !.head = Len(chain)]
    <3>1. Becomes(w, t)
      BY <2>4
    <3>2. Listed(t) \subseteq Listed(task[w]) /\ t.phase = task[w].phase
      BY <1>1, <2>1 DEF Listed, Task, Held
    <3> HIDE DEF t
    <3> QED
      BY <1>1, <3>1, <3>2, TaskShrinks
  <2> QED
    BY <1>4, <2>2, <2>3, <2>4 DEF IsKnown
<1>5. CASE IsNonceFree(w)
  <2>1. task[w].step = "nonce" /\ \E step : Step(w, step)
    BY <1>5 DEF IsNonceFree, At
  <2> QED
    BY <1>1, <2>1, StepKeepsMirror DEF Held
<1>6. CASE Unreachable(w)
  <2>1. CASE Judged(w, "unreachable")
    BY <1>1, <2>1, DoneKeepsMirror
  <2>2. CASE Becomes(w, [task[w] EXCEPT !.todo = @ \ {First(w)},
                            !.bad = IF @ = "none" THEN "unreachable" ELSE @])
    <3> DEFINE t == [task[w] EXCEPT !.todo = @ \ {First(w)},
                        !.bad = IF @ = "none" THEN "unreachable" ELSE @]
    <3>1. Becomes(w, t)
      BY <2>2
    <3>2. Listed(t) \subseteq Listed(task[w]) /\ t.phase = task[w].phase
      BY <1>1 DEF Listed, Task
    <3> HIDE DEF t
    <3> QED
      BY <1>1, <3>1, <3>2, TaskShrinks
  <2> QED
    BY <1>6, <2>1, <2>2 DEF Unreachable
<1>7. CASE Unanswered(w)
  <2>1. Ends(w)
    BY <1>7 DEF Unanswered
  <2> QED
    BY <1>1, <2>1, EndsKeepsMirror
<1> QED
  BY <1>2, <1>3, <1>4, <1>5, <1>6, <1>7

LEMMA ReconciledKeepsMirror ==
    ASSUME Resumers = {}, Base, MirrorInv, NEW w \in Workers, Reconciled(w)
    PROVE  MirrorInv'
<1>1. UNCHANGED <<outbox, action>> /\ task[w] \in Task
  BY HasTask DEF Reconciled, rowVars
<1>2. CASE Ends(w)
  BY <1>1, <1>2, EndsKeepsMirror
<1>3. CASE PollFrom(w, "recover")
  <2> DEFINE t == [Quiet EXCEPT !.kind = "recover", !.phase = "poll", !.step = "blocks",
                                !.head = Len(chain), !.final = fin]
  <2>1. Becomes(w, t)
    BY <1>3 DEF PollFrom
  <2>2. t.todo = {} /\ t.step \notin Held
    BY DEF Quiet, Held
  <2> HIDE DEF t
  <2> QED
    BY <1>1, <2>1, <2>2, TaskIsFree
<1>4. CASE Becomes(w, [task[w] EXCEPT !.phase = "resend", !.step = "list",
                          !.pending = {}, !.bad = "none"])
  <2> DEFINE t == [task[w] EXCEPT !.phase = "resend", !.step = "list",
                      !.pending = {}, !.bad = "none"]
  <2>1. Becomes(w, t)
    BY <1>4
  <2>2. Listed(t) \subseteq Listed(task[w]) /\ t.phase # "poll"
    BY <1>1 DEF Listed, Task, Held
  <2> HIDE DEF t
  <2> QED
    BY <1>1, <2>1, <2>2, TaskShrinks
<1>5. CASE Becomes(w, [task[w] EXCEPT !.kind = "tick", !.phase = "act",
                          !.step = "follow", !.pending = {}])
  <2> DEFINE t == [task[w] EXCEPT !.kind = "tick", !.phase = "act",
                      !.step = "follow", !.pending = {}]
  <2>1. Becomes(w, t)
    BY <1>5
  <2>2. Listed(t) \subseteq Listed(task[w]) /\ t.phase # "poll"
    BY <1>1 DEF Listed, Task, Held
  <2> HIDE DEF t
  <2> QED
    BY <1>1, <2>1, <2>2, TaskShrinks
<1> QED
  BY <1>2, <1>3, <1>4, <1>5 DEF Reconciled

LEMMA ActReadsKeepMirror ==
    ASSUME Resumers = {}, Base, MirrorInv, NEW w \in Workers,
           \/ Halt(w) \/ CloseTurn(w) \/ Resubmit(w) \/ ResumeHistory(w)
           \/ Quote(w) \/ Send(w)
    PROVE  MirrorInv'
<1>1. UNCHANGED <<outbox, action>> /\ task[w] \in Task
  BY HasTask DEF Halt, CloseTurn, Resubmit, ResumeHistory, Quote, Send, rowVars
<1>2. CASE Halt(w) \/ CloseTurn(w)
  <2>1. Ends(w)
    BY <1>2 DEF Halt, CloseTurn
  <2> QED
    BY <1>1, <2>1, EndsKeepsMirror
<1>3. CASE Resubmit(w)
  <2> DEFINE t == [task[w] EXCEPT !.phase = "submit", !.step = "history"]
  <2>1. Becomes(w, t)
    BY <1>3 DEF Resubmit, Phase
  <2>2. Listed(t) \subseteq Listed(task[w]) /\ t.phase # "poll"
    BY <1>1 DEF Listed, Task, Held
  <2> HIDE DEF t
  <2> QED
    BY <1>1, <2>1, <2>2, TaskShrinks
<1>4. CASE ResumeHistory(w)
  <2> DEFINE rows == History(Newest)
             last == CHOOSE i \in rows : \A j \in rows : j <= i
  <2>1. \/ rows = {} /\ Step(w, "quote")
        \/ /\ rows # {} /\ outbox[last].status = "PENDING"
           /\ Becomes(w, [task[w] EXCEPT !.step = "send", !.row = last])
        \/ Ends(w)
    <3>1. CASE rows = {}
      BY <1>4, <3>1 DEF ResumeHistory
    <3>2. CASE rows # {}
      BY <1>4, <3>2 DEF ResumeHistory
    <3> QED
      BY <3>1, <3>2
  <2>2. CASE Step(w, "quote")
    BY <1>1, <2>2, StepKeepsMirror DEF Held
  <2>3. CASE Ends(w)
    BY <1>1, <2>3, EndsKeepsMirror
  <2>4. CASE /\ rows # {} /\ outbox[last].status = "PENDING"
             /\ Becomes(w, [task[w] EXCEPT !.step = "send", !.row = last])
    <3> DEFINE t == [task[w] EXCEPT !.step = "send", !.row = last]
    <3>1. last \in Rows
      <4>1. rows \subseteq Rows
        BY DEF History, RowsOf
      <4> QED
        BY <2>4, <4>1, NewestRow
    <3>2. Clear(last)
      BY <2>4, <3>1 DEF MirrorInv, MinedHasBlock, Included, Clear
    <3> HIDE DEF last, rows
    <3>3. Becomes(w, t)
      BY <2>4
    <3>4. task[w].phase = "submit"
      BY <1>4 DEF ResumeHistory, At
    <3>5. ListInv(t)
      <4>1. Listed(t) \subseteq Listed(task[w]) \cup {last} /\ t.phase # "poll"
        BY <1>1, <3>4 DEF Listed, Task
      <4>2. \A i \in Listed(task[w]) : Clear(i)
        BY DEF MirrorInv, ListInv
      <4> HIDE DEF t
      <4> QED
        BY <3>2, <4>1, <4>2 DEF ListInv
    <3>6. task'[w] = t
      BY <3>3 DEF Becomes, Base, Typed
    <3> HIDE DEF t
    <3> QED
      BY <1>1, <3>5, <3>6, MirrorReads
  <2> QED
    BY <2>1, <2>2, <2>3, <2>4
<1>5. CASE Quote(w)
  <2> DEFINE t == [task[w] EXCEPT !.step = "persist", !.nonce = PendingNonce]
  <2>1. Becomes(w, t)
    BY <1>5 DEF Quote
  <2>2. Listed(t) \subseteq Listed(task[w]) /\ t.phase = task[w].phase
    BY <1>1 DEF Listed, Task, Held
  <2> HIDE DEF t
  <2> QED
    BY <1>1, <2>1, <2>2, TaskShrinks
<1>6. CASE Send(w)
  <2>1. PICK answer : Becomes(w, [task[w] EXCEPT !.step = "record", !.answer = answer,
                                                 !.head = Len(chain)])
    BY <1>6 DEF Send
  <2> DEFINE t == [task[w] EXCEPT !.step = "record", !.answer = answer, !.head = Len(chain)]
  <2>2. task[w].step = "send" /\ Becomes(w, t)
    BY <1>6, <2>1 DEF Send, SendSteps
  <2>3. Listed(t) \subseteq Listed(task[w]) /\ t.phase = task[w].phase
    BY <1>1, <2>2 DEF Listed, Task, Held
  <2> HIDE DEF t
  <2> QED
    BY <1>1, <2>2, <2>3, TaskShrinks
<1> QED
  BY <1>2, <1>3, <1>4, <1>5, <1>6

(* A task of the one worker, after rows were written.                      *)
LEMMA MirrorWrites ==
    ASSUME Resumers = {}, MinedHasBlock', OneCharged', Mirrors',
           NEW w \in Workers, ListInv(task[w])'
    PROVE  MirrorInv'
<1>1. Workers = {w}
  BY Alone
<1> QED
  BY <1>1 DEF MirrorInv

LEMMA RewindKeepsMirror ==
    ASSUME Resumers = {}, Base, Base', MirrorInv, NEW w \in Workers, Rewind(w)
    PROVE  MirrorInv'
<1> DEFINE gone == {i \in Rows : outbox[i].block \in task[w].stale}
           acts == {outbox[i].action : i \in gone}
           t == [task[w] EXCEPT !.step = "waiting", !.stale = {}]
<1>1. /\ At(w, "poll", "rewind") /\ Becomes(w, t)
      /\ outbox' = [i \in Rows |-> IF i \in gone THEN ClearInclusion(outbox[i]) ELSE outbox[i]]
      /\ action' = ResetToSubmitted(acts)
  BY DEF Rewind
<1>2. Rows' = Rows
  <2>1. Len(outbox') = Len(outbox)
    <3>1. DOMAIN outbox' = 1..Len(outbox') /\ Len(outbox') \in Nat /\ Len(outbox) \in Nat
      BY LenProperties DEF Base, Typed
    <3> QED
      BY <1>1, <3>1 DEF Rows
  <2> QED
    BY <2>1 DEF Rows
<1>3. \A i \in gone : outbox[i].block \in Block /\ ~Clear(i)
  <2>1. task[w].stale \subseteq Block
    BY HasTask DEF Task
  <2> QED
    BY <2>1, Blocked DEF Base
<1>4. ASSUME NEW i \in Rows
      PROVE  /\ outbox'[i].action = outbox[i].action
             /\ i \in gone => outbox'[i].block = NoBlock /\ outbox'[i].status = "SUBMITTED"
             /\ i \notin gone => outbox'[i] = outbox[i]
  BY <1>1, RowTyped DEF Base, Row, ClearInclusion
<1>5. \A i \in Rows : Clear(i)' <=> (i \in gone \/ Clear(i))
  BY <1>4 DEF Clear
<1>6. \A a \in Actions : action'[a] = IF a \in acts THEN "SUBMITTED" ELSE action[a]
  BY <1>1 DEF ResetToSubmitted
<1>7. ASSUME NEW i \in Rows, i \notin gone, ~Clear(i)
      PROVE  outbox[i].action \notin acts
  <2> SUFFICES ASSUME NEW k \in gone, outbox[k].action = outbox[i].action
               PROVE  FALSE
    OBVIOUS
  <2> QED
    BY <1>3, <1>7 DEF MirrorInv, OneCharged
<1> HIDE DEF gone, acts
<1>8. MinedHasBlock'
  BY <1>2, <1>4 DEF MirrorInv, MinedHasBlock, Included
<1>9. OneCharged'
  BY <1>2, <1>4, <1>5 DEF MirrorInv, OneCharged
<1>10. Mirrors'
  <2>1. ASSUME NEW i \in Rows', ~Clear(i)'
        PROVE  action'[outbox'[i].action] = outbox'[i].status
    <3>1. i \in Rows /\ i \notin gone /\ ~Clear(i) /\ outbox'[i] = outbox[i]
      BY <1>2, <1>4, <1>5, <2>1
    <3>2. outbox[i].action \in Actions /\ outbox[i].action \notin acts
      BY <1>7, <3>1, RowTyped DEF Base
    <3> QED
      BY <1>6, <3>1, <3>2 DEF MirrorInv, Mirrors
  <2>2. ASSUME NEW a \in Actions, action'[a] \in Included
        PROVE  \E i \in RowsOf(a)' : ~Clear(i)'
    <3>1. a \notin acts /\ action[a] \in Included
      BY <1>6, <2>2 DEF Included
    <3>2. PICK i \in Rows : outbox[i].action = a /\ ~Clear(i)
      BY <3>1 DEF MirrorInv, Mirrors, RowsOf
    <3>3. i \notin gone
      BY <3>1, <3>2 DEF acts
    <3> QED
      BY <1>2, <1>4, <1>5, <3>2, <3>3 DEF RowsOf
  <2> QED
    BY <2>1, <2>2 DEF Mirrors
<1>11. ListInv(task[w])'
  <2>1. task'[w] = t
    BY <1>1 DEF Becomes, Base, Typed
  <2>2. Listed(t) = t.todo /\ t.todo = task[w].todo /\ task[w].todo \subseteq Listed(task[w])
        /\ t.todo \subseteq Rows /\ task[w].phase = "poll"
    BY <1>1, HasTask DEF Listed, Task, Held, TaskInv, At
  <2> HIDE DEF t
  <2>3. \A i \in t.todo : i \in Rows /\ Clear(i)' /\ \A j \in GroupOf(i) : Clear(j)'
    BY <1>5, <2>2 DEF MirrorInv, ListInv, GroupOf
  <2>4. \A i \in Rows : GroupOf(i)' = GroupOf(i)
    <3>1. \A i \in Rows : outbox'[i].nonce = outbox[i].nonce
      BY <1>1, RowTyped DEF Base, Row, ClearInclusion
    <3> QED
      BY <1>2, <3>1 DEF GroupOf
  <2>5. Listed(task[w])' = t.todo
    BY <2>1, <2>2 DEF Listed
  <2>6. \A i \in t.todo : Clear(i)' /\ \A j \in GroupOf(i)' : Clear(j)'
    BY <2>3, <2>4
  <2> QED
    BY <2>5, <2>6 DEF ListInv
<1> QED
  BY <1>8, <1>9, <1>10, <1>11, MirrorWrites

LEMMA RecordInclusionKeepsMirror ==
    ASSUME Resumers = {}, Base, Base', MirrorInv, NEW w \in Workers, RecordInclusion(w)
    PROVE  MirrorInv'
<1> DEFINE i == task[w].row
           status == IF task[w].ok THEN "INCLUDED" ELSE "REVERTED"
           t == [task[w] EXCEPT !.step = "receipt", !.found = NoBlock,
                    !.ok = TRUE, !.row = 0, !.todo = @ \ GroupOf(i)]
<1>1. /\ At(w, "poll", "include") /\ Becomes(w, t)
      /\ outbox' = [j \in Rows |->
              CASE j = i -> [outbox[i] EXCEPT !.status = status, !.block = task[w].found]
                [] j \in Rivals(i) -> [outbox[j] EXCEPT !.status = "DROPPED"]
                [] OTHER -> outbox[j]]
      /\ action' = [action EXCEPT ![outbox[i].action] = status]
  BY DEF RecordInclusion, Mirrored
<1>2. /\ i \in Rows /\ task[w].found \in Block /\ task[w].found # NoBlock
      /\ task[w].phase = "poll" /\ task[w].step = "include"
  BY <1>1, HasTask, NoBlockAssumption DEF At, TaskInv, Held
<1>3. status \in Included
  BY DEF Included
<1>4. Rows' = Rows
  <2>1. DOMAIN outbox' = 1..Len(outbox') /\ Len(outbox') \in Nat /\ Len(outbox) \in Nat
    BY LenProperties DEF Base, Typed
  <2>2. Len(outbox') = Len(outbox)
    BY <1>1, <2>1 DEF Rows
  <2> QED
    BY <2>2 DEF Rows
<1>5. /\ task'[w] = t /\ Listed(t) = t.todo /\ t.todo = task[w].todo \ GroupOf(i)
      /\ t.todo \subseteq Rows /\ i \in Listed(task[w]) /\ t.todo \subseteq Listed(task[w])
  <2>1. task'[w] = t
    BY <1>1 DEF Becomes, Base, Typed
  <2>2. /\ t.todo = task[w].todo \ GroupOf(i) /\ t.step = "receipt"
        /\ task[w].todo \subseteq Rows
    BY HasTask DEF Task, TaskInv
  <2>3. i \in Listed(task[w]) /\ task[w].todo \subseteq Listed(task[w])
    BY SMTT(40), <1>2 DEF Listed, Held
  <2> HIDE DEF t, i
  <2> QED
    BY <2>1, <2>2, <2>3 DEF Listed, Held
<1>6. \A j \in Rows : outbox[j].nonce = outbox[i].nonce => Clear(j)
  BY <1>2, <1>5 DEF MirrorInv, ListInv, GroupOf
<1>7. \A j \in Rows : outbox[j].action = outbox[i].action => Clear(j)
  BY <1>2, <1>6 DEF Base, KeysInv, NonceIdentifiesAction
<1> HIDE DEF i, status, t
<1>8. outbox'[i] = [outbox[i] EXCEPT !.status = status, !.block = task[w].found]
  <2>1. i \notin Rivals(i)
    BY DEF Rivals
  <2> QED
    BY <1>1, <1>2, <2>1
<1>9. /\ outbox'[i].status = status /\ outbox'[i].block = task[w].found
      /\ outbox'[i].action = outbox[i].action /\ outbox'[i].nonce = outbox[i].nonce
  BY <1>2, <1>8, RowTyped DEF Base, Row
<1>10. ASSUME NEW j \in Rows, j # i
       PROVE  /\ outbox'[j].block = outbox[j].block /\ outbox'[j].action = outbox[j].action
              /\ outbox'[j].nonce = outbox[j].nonce
              /\ outbox'[j].status = outbox[j].status
                   \/ (outbox[j].status \in {"PENDING", "SUBMITTED"} /\ outbox'[j].status = "DROPPED")
  <2>1. CASE j \in Rivals(i)
    <3>1. outbox'[j] = [outbox[j] EXCEPT !.status = "DROPPED"]
      BY <1>1, <1>10, <2>1
    <3>2. outbox[j].status \in {"PENDING", "SUBMITTED"}
      BY <2>1 DEF Rivals
    <3> QED
      BY <3>1, <3>2, RowTyped DEF Base, Row
  <2>2. CASE j \notin Rivals(i)
    BY <1>1, <1>10, <2>2
  <2> QED
    BY <2>1, <2>2
<1>11. \A j \in Rows : Clear(j)' <=> (j # i /\ Clear(j))
  BY <1>2, <1>9, <1>10 DEF Clear
<1>12. MinedHasBlock'
  <2> SUFFICES ASSUME NEW j \in Rows
               PROVE  outbox'[j].block # NoBlock <=> outbox'[j].status \in Included
    BY <1>4 DEF MinedHasBlock
  <2>1. CASE j = i
    BY <1>2, <1>3, <1>9, <2>1
  <2>2. CASE j # i
    BY <1>10, <2>2 DEF MirrorInv, MinedHasBlock, Included
  <2> QED
    BY <2>1, <2>2
<1>13. OneCharged'
  <2> SUFFICES ASSUME NEW j \in Rows, NEW k \in Rows, outbox'[j].action = outbox'[k].action,
                      ~Clear(j)', ~Clear(k)'
               PROVE  j = k
    BY <1>4 DEF OneCharged
  <2>1. outbox[j].action = outbox[k].action
    BY <1>9, <1>10
  <2> QED
    BY <1>7, <1>11, <2>1 DEF MirrorInv, OneCharged
<1>14. Mirrors'
  <2>0. outbox[i].action \in Actions /\ action \in [Actions -> ActionStatuses]
    BY <1>2, RowTyped DEF Base, Typed
  <2>1. ASSUME NEW j \in Rows', ~Clear(j)'
        PROVE  action'[outbox'[j].action] = outbox'[j].status
    <3>1. CASE j = i
      BY <1>1, <1>9, <2>0, <3>1
    <3>2. CASE j # i
      <4>1. ~Clear(j) /\ outbox[j].action # outbox[i].action /\ j \in Rows
        BY <1>4, <1>7, <1>11, <2>1, <3>2
      <4>2. outbox'[j].status = outbox[j].status
        BY <1>10, <3>2, <4>1 DEF MirrorInv, MinedHasBlock, Included, Clear
      <4>3. outbox'[j].action = outbox[j].action
        BY <1>10, <3>2, <4>1
      <4>4. action[outbox[j].action] = outbox[j].status /\ outbox[j].action \in Actions
        BY <4>1, RowTyped DEF MirrorInv, Mirrors, Base
      <4> QED
        BY <1>1, <2>0, <4>1, <4>2, <4>3, <4>4
    <3> QED
      BY <3>1, <3>2
  <2>2. ASSUME NEW a \in Actions, action'[a] \in Included
        PROVE  \E j \in RowsOf(a)' : ~Clear(j)'
    <3>1. CASE a = outbox[i].action
      BY <1>2, <1>4, <1>9, <1>11, <3>1 DEF RowsOf
    <3>2. CASE a # outbox[i].action
      <4>1. action[a] \in Included
        BY <1>1, <2>0, <2>2, <3>2
      <4>2. PICK j \in Rows : outbox[j].action = a /\ ~Clear(j)
        BY <4>1 DEF MirrorInv, Mirrors, RowsOf
      <4> QED
        BY <1>4, <1>10, <1>11, <3>2, <4>2 DEF RowsOf
    <3> QED
      BY <3>1, <3>2
  <2> QED
    BY <2>1, <2>2 DEF Mirrors
<1>15. ListInv(task[w])'
  <2>1. \A j, k \in Rows : outbox'[j].nonce = outbox'[k].nonce <=> outbox[j].nonce = outbox[k].nonce
    BY <1>9, <1>10
  <2>2. ASSUME NEW j \in t.todo
        PROVE  Clear(j)' /\ \A k \in GroupOf(j)' : Clear(k)'
    <3>1. j \in Rows /\ outbox[j].nonce # outbox[i].nonce
      BY <1>5 DEF GroupOf
    <3>2. Clear(j) /\ \A k \in GroupOf(j) : Clear(k)
      BY <1>2, <1>5 DEF MirrorInv, ListInv
    <3>3. \A k \in GroupOf(j)' : k \in GroupOf(j) /\ k # i /\ k \in Rows
      BY <1>4, <2>1, <3>1, <1>2 DEF GroupOf
    <3> QED
      BY <1>11, <3>1, <3>2, <3>3
  <2>3. Listed(task[w])' = t.todo
    BY <1>5 DEF Listed
  <2> QED
    BY <2>2, <2>3 DEF ListInv
<1> QED
  BY <1>12, <1>13, <1>14, <1>15, MirrorWrites

LEMMA UpdateDepthKeepsMirror ==
    ASSUME Resumers = {}, Base, Base', MirrorInv, NEW w \in Workers, UpdateDepth(w)
    PROVE  MirrorInv'
<1> DEFINE now(i) == AtDepth(outbox[i], task[w].head, task[w].final)
           moved == {i \in Rows : now(i) # outbox[i].status}
           movedOf(a) == CHOOSE i \in moved : outbox[i].action = a
           t == [task[w] EXCEPT !.phase = "replace", !.step = "list"]
<1>1. /\ task[w].todo = {} /\ Becomes(w, t)
      /\ outbox' = [i \in Rows |-> [outbox[i] EXCEPT !.status = now(i)]]
      /\ action' = [a \in Actions |->
              IF \E i \in moved : outbox[i].action = a
              THEN now(movedOf(a)) ELSE action[a]]
  BY DEF UpdateDepth, Phase
<1>2. Rows' = Rows
  <2>1. DOMAIN outbox' = 1..Len(outbox') /\ Len(outbox') \in Nat /\ Len(outbox) \in Nat
    BY LenProperties DEF Base, Typed
  <2>2. Len(outbox') = Len(outbox)
    BY <1>1, <2>1 DEF Rows
  <2> QED
    BY <2>2 DEF Rows
<1>3. ASSUME NEW i \in Rows
      PROVE  /\ now(i) \in Statuses
             /\ i \in moved => /\ outbox[i].status \in {"INCLUDED", "CONFIRMED"} /\ ~Clear(i)
                               /\ now(i) \in {"CONFIRMED", "FINALIZED"}
             /\ i \notin moved => now(i) = outbox[i].status
  BY RowTyped, DepthStatus DEF Base, Clear
<1>4. task'[w] = t /\ t.todo = {} /\ t.step \notin Held
  BY <1>1, HasTask DEF Becomes, Base, Typed, Task, Held
<1>5. /\ \A i \in moved : i \in Rows
      /\ \A i \in moved : /\ movedOf(outbox[i].action) \in moved
                          /\ outbox[movedOf(outbox[i].action)].action = outbox[i].action
  OBVIOUS
<1> HIDE DEF now, t, moved, movedOf
<1>6. ASSUME NEW i \in Rows
      PROVE  /\ outbox'[i].status = now(i) /\ outbox'[i].block = outbox[i].block
             /\ outbox'[i].action = outbox[i].action /\ (Clear(i)' <=> Clear(i))
  BY <1>1, RowTyped DEF Base, Row, Clear
<1>7. MinedHasBlock'
  BY <1>2, <1>3, <1>6 DEF MirrorInv, MinedHasBlock, Included
<1>8. OneCharged'
  BY <1>2, <1>6 DEF MirrorInv, OneCharged
<1>9. Mirrors'
  <2>1. ASSUME NEW i \in Rows', ~Clear(i)'
        PROVE  action'[outbox'[i].action] = outbox'[i].status
    <3>1. i \in Rows /\ ~Clear(i) /\ outbox'[i].action = outbox[i].action
          /\ outbox[i].action \in Actions
      BY <1>2, <1>6, <2>1, RowTyped DEF Base
    <3>2. \A k \in moved : outbox[k].action = outbox[i].action => k = i
      BY <1>3, <1>5, <3>1 DEF MirrorInv, OneCharged
    <3>3. CASE i \in moved
      <4>1. movedOf(outbox[i].action) = i
        BY <1>5, <3>2, <3>3
      <4>2. action'[outbox[i].action] = now(movedOf(outbox[i].action))
        BY <1>1, <3>1, <3>3
      <4> QED
        BY <1>6, <3>1, <4>1, <4>2
    <3>4. CASE i \notin moved
      <4>1. action'[outbox[i].action] = action[outbox[i].action]
        BY <1>1, <3>1, <3>2, <3>4
      <4> QED
        BY <1>3, <1>6, <3>1, <3>4, <4>1 DEF MirrorInv, Mirrors
    <3> QED
      BY <3>3, <3>4
  <2>2. ASSUME NEW a \in Actions, action'[a] \in Included
        PROVE  \E i \in RowsOf(a)' : ~Clear(i)'
    <3>1. ASSUME NEW i \in moved, outbox[i].action = a
          PROVE  \E k \in RowsOf(a)' : ~Clear(k)'
      BY <1>2, <1>3, <1>5, <1>6, <3>1 DEF RowsOf
    <3>2. CASE ~\E i \in moved : outbox[i].action = a
      <4>1. action[a] \in Included
        BY <1>1, <2>2, <3>2
      <4>2. PICK i \in Rows : outbox[i].action = a /\ ~Clear(i)
        BY <4>1 DEF MirrorInv, Mirrors, RowsOf
      <4> QED
        BY <1>2, <1>6, <4>2 DEF RowsOf
    <3> QED
      BY <3>1, <3>2
  <2> QED
    BY <2>1, <2>2 DEF Mirrors
<1>10. ListInv(task[w])'
  BY <1>4 DEF ListInv, Listed
<1> QED
  BY <1>7, <1>8, <1>9, <1>10, MirrorWrites

(* A row that was not recorded as mined is given another status of that    *)
(* kind; whatever else happens to it, its action is mined as little.       *)
LEMMA MarksKeepMirror ==
    ASSUME Resumers = {}, Base, Base', MirrorInv, NEW w \in Workers,
           NEW i, i \in Rows => (Clear(i) /\ outbox'[i].status \notin Included),
           Rows \subseteq Rows',
           \A j \in Rows : /\ outbox'[j].block = outbox[j].block
                           /\ outbox'[j].action = outbox[j].action
                           /\ j # i => outbox'[j].status = outbox[j].status,
           \A j \in Rows' \ Rows : outbox'[j].block = NoBlock /\ outbox'[j].status \notin Included,
           \A a \in Actions : action'[a] = action[a]
                                \/ (action[a] \notin Included /\ action'[a] \notin Included),
           NEW t, task'[w] = t, t.phase # "poll", \A j \in Listed(t) : Clear(j)'
    PROVE  MirrorInv'
<1>1. \A j \in Rows : Clear(j)' <=> Clear(j)
  BY DEF Clear
<1>2. \A j \in Rows' : ~Clear(j)' => j \in Rows /\ ~Clear(j) /\ j # i
  BY <1>1 DEF Clear
<1>3. MinedHasBlock'
  <2> SUFFICES ASSUME NEW j \in Rows'
               PROVE  outbox'[j].block # NoBlock <=> outbox'[j].status \in Included
    BY DEF MinedHasBlock
  <2>1. CASE j \in Rows' \ Rows
    BY <2>1
  <2>2. CASE j \in Rows /\ j = i
    BY <2>2 DEF Clear
  <2>3. CASE j \in Rows /\ j # i
    BY <2>3 DEF MirrorInv, MinedHasBlock
  <2> QED
    BY <2>1, <2>2, <2>3
<1>4. OneCharged'
  BY <1>2 DEF MirrorInv, OneCharged
<1>5. Mirrors'
  <2>1. ASSUME NEW j \in Rows', ~Clear(j)'
        PROVE  action'[outbox'[j].action] = outbox'[j].status
    <3>1. j \in Rows /\ ~Clear(j) /\ j # i
      BY <1>2, <2>1
    <3>2. action[outbox[j].action] = outbox[j].status /\ outbox[j].status \in Included
          /\ outbox[j].action \in Actions
      BY <3>1, RowTyped DEF MirrorInv, Mirrors, MinedHasBlock, Clear, Base
    <3> QED
      BY <3>1, <3>2
  <2>2. ASSUME NEW a \in Actions, action'[a] \in Included
        PROVE  \E j \in RowsOf(a)' : ~Clear(j)'
    <3>1. PICK j \in Rows : outbox[j].action = a /\ ~Clear(j)
      BY <2>2 DEF MirrorInv, Mirrors, RowsOf
    <3> QED
      BY <1>1, <3>1 DEF RowsOf
  <2> QED
    BY <2>1, <2>2 DEF Mirrors
<1>6. ListInv(task[w])'
  BY DEF ListInv, Listed
<1> QED
  BY <1>3, <1>4, <1>5, <1>6, MirrorWrites

LEMMA HeldIsClear ==
    ASSUME Base, MirrorInv, NEW w \in Workers, task[w].step \in Held
    PROVE  /\ task[w].row \in Rows /\ Clear(task[w].row)
           /\ \A i \in task[w].todo : i \in Rows /\ Clear(i)
  BY HasTask DEF MirrorInv, ListInv, Listed, TaskInv

LEMMA ReplaceKeepsMirror ==
    ASSUME Resumers = {}, Base, Base', MirrorInv, NEW w \in Workers, Replace(w)
    PROVE  MirrorInv'
<1> DEFINE i == task[w].row
           r == Taken(w)
           new == NewRow(r.action, r.nonce, r.fee + 1)
           old == [outbox EXCEPT ![i].status = "REPLACED"]
           t == [task[w] EXCEPT !.step = "send", !.row = Len(outbox) + 1]
<1>1. /\ task[w].phase = "replace" /\ task[w].step = "swap" /\ Becomes(w, t)
      /\ outbox' = Append(old, new) /\ UNCHANGED action
  BY DEF Replace, At
<1>2. i \in Rows /\ Clear(i) /\ \A j \in task[w].todo : j \in Rows /\ Clear(j)
  BY <1>1, HeldIsClear DEF Held
<1>3. Len(outbox) \in Nat /\ outbox \in [Rows -> Row] /\ outbox \in Seq(Row)
  BY LenProperties DEF Base, Typed, Rows
<1>4. Len(old) = Len(outbox) /\ DOMAIN old = Rows
  <2>1. DOMAIN old = 1..Len(outbox)
    BY <1>3 DEF Rows
  <2>2. old \in Seq(Row)
    <3>1. [outbox[i] EXCEPT !.status = "REPLACED"] \in Row
      BY <1>2, RowTyped DEF Base, Row, Statuses
    <3>2. old \in [1..Len(outbox) -> Row]
      BY <1>2, <1>3, <3>1 DEF Rows
    <3> HIDE DEF old
    <3> QED
      BY <1>3, <3>2, AsSeq
  <2> HIDE DEF old
  <2>3. DOMAIN old = 1..Len(old) /\ Len(old) \in Nat
    BY <2>2, LenProperties
  <2> QED
    BY <1>3, <2>1, <2>3 DEF Rows
<1>5. /\ Len(outbox') = Len(outbox) + 1 /\ outbox'[Len(outbox) + 1] = new
      /\ \A j \in Rows : outbox'[j] = old[j]
  <2>1. DOMAIN outbox' = 1..(Len(outbox) + 1)
    BY <1>1, <1>3, <1>4
  <2>2. DOMAIN outbox' = 1..Len(outbox') /\ Len(outbox') \in Nat
    BY LenProperties DEF Base, Typed
  <2> QED
    BY <1>1, <1>3, <1>4, <2>1, <2>2 DEF Rows
<1>6. Rows' = Rows \cup {Len(outbox) + 1} /\ Len(outbox) + 1 \notin Rows
  BY <1>3, <1>5 DEF Rows
<1>7. \A j \in Rows : /\ outbox'[j].block = outbox[j].block
                      /\ outbox'[j].action = outbox[j].action
                      /\ j # i => outbox'[j].status = outbox[j].status
                      /\ j = i => outbox'[j].status = "REPLACED"
  <2> SUFFICES ASSUME NEW j \in Rows
               PROVE  /\ old[j].block = outbox[j].block
                      /\ old[j].action = outbox[j].action
                      /\ j # i => old[j].status = outbox[j].status
                      /\ j = i => old[j].status = "REPLACED"
    BY <1>5
  <2>1. outbox[j] \in Row
    BY RowTyped DEF Base
  <2>2. CASE j = i
    <3>1. old[j] = [outbox[i] EXCEPT !.status = "REPLACED"]
      BY <1>3, <2>2
    <3> HIDE DEF old
    <3> QED
      BY <2>1, <2>2, <3>1 DEF Row
  <2>3. CASE j # i
    <3>1. old[j] = outbox[j]
      BY <1>3, <2>3
    <3> HIDE DEF old
    <3> QED
      BY <2>3, <3>1
  <2> QED
    BY <2>2, <2>3
<1>8. outbox'[i].status \notin Included
  BY <1>2, <1>7 DEF Included
<1>9. \A j \in Rows' \ Rows : outbox'[j].block = NoBlock /\ outbox'[j].status \notin Included
  BY <1>5, <1>6 DEF NewRow, Included
<1>10. task'[w] = t /\ t.phase = "replace" /\ Listed(t) = task[w].todo \cup {Len(outbox) + 1}
  BY <1>1, HasTask DEF Becomes, Base, Typed, Task, Listed, Held
<1> HIDE DEF i, r, new, old, t
<1>11. \A j \in Listed(t) : Clear(j)'
  BY <1>2, <1>6, <1>7, <1>9, <1>10 DEF Clear
<1> QED
  BY ZenonT(90), <1>1, <1>2, <1>6, <1>7, <1>8, <1>9, <1>10, <1>11, MarksKeepMirror

LEMMA NonceConsumedKeepsMirror ==
    ASSUME Resumers = {}, Base, Base', MirrorInv, NEW w \in Workers, NonceConsumed(w)
    PROVE  MirrorInv'
<1> DEFINE i == task[w].row
           t == [task[w] EXCEPT !.step = "receipt", !.row = 0]
<1>1. /\ task[w].phase = "reconcile" /\ task[w].step = "siblings" /\ UNCHANGED action
  BY DEF NonceConsumed, At
<1>2. i \in Rows /\ Clear(i) /\ \A j \in task[w].todo : j \in Rows /\ Clear(j)
  BY <1>1, HeldIsClear DEF Held
<1>3. CASE outbox' = [outbox EXCEPT ![i].status = "DROPPED"] /\ Done(w)
  <2>1. Len(outbox) \in Nat /\ outbox \in [Rows -> Row]
    BY LenProperties DEF Base, Typed, Rows
  <2>2. Rows' = Rows
    <3>1. DOMAIN outbox' = 1..Len(outbox') /\ Len(outbox') \in Nat
      BY LenProperties DEF Base, Typed
    <3>2. Len(outbox') = Len(outbox)
      BY <1>3, <2>1, <3>1 DEF Rows
    <3> QED
      BY <3>2 DEF Rows
  <2>3. \A j \in Rows : /\ outbox'[j].block = outbox[j].block
                        /\ outbox'[j].action = outbox[j].action
                        /\ j # i => outbox'[j].status = outbox[j].status
                        /\ j = i => outbox'[j].status = "DROPPED"
    BY <1>3, <2>1 DEF Row
  <2>4. outbox'[i].status \notin Included
    BY <1>2, <2>3 DEF Included
  <2>5. task'[w] = t /\ t.phase = "reconcile" /\ Listed(t) = task[w].todo
    BY <1>1, <1>3, HasTask DEF Done, Becomes, Base, Typed, Task, Listed, Held
  <2> HIDE DEF i, t
  <2>6. \A j \in Listed(t) : Clear(j)'
    BY <1>2, <2>3, <2>5 DEF Clear
  <2> QED
    BY <1>1, <1>2, <2>2, <2>3, <2>4, <2>5, <2>6, MarksKeepMirror
<1>4. CASE UNCHANGED outbox /\ Judged(w, "nonce_conflict")
  BY <1>1, <1>4, DoneKeepsMirror
<1> QED
  BY <1>3, <1>4 DEF NonceConsumed

LEMMA RecordSendKeepsMirror ==
    ASSUME Resumers = {}, Base, Base', MirrorInv, NEW w \in Workers, RecordSend(w)
    PROVE  MirrorInv'
<1> DEFINE i == task[w].row
           r == outbox[i]
           sent == task[w].answer = "accepted"
<1>1. /\ task[w].step = "record" /\ task[w].phase \in {"submit", "replace", "reconcile"}
      /\ outbox' = [outbox EXCEPT ![i].tried = TRUE,
              ![i].status = IF sent THEN "SUBMITTED" ELSE @,
              ![i].since = IF sent /\ @ = NoBlock THEN task[w].head ELSE @]
      /\ action' = [action EXCEPT ![r.action] =
              IF sent /\ @ = "SIGNED" THEN "SUBMITTED" ELSE @]
  BY DEF RecordSend, RecordSteps
<1>2. i \in Rows /\ Clear(i) /\ \A j \in task[w].todo : j \in Rows /\ Clear(j)
  BY <1>1, HeldIsClear DEF Held
<1>3. PICK t : task'[w] = t /\ t.phase # "poll" /\ Listed(t) \subseteq task[w].todo
  <2>1. CASE task[w].phase = "submit"
    <3>1. task'[w] = Quiet
      BY <2>1 DEF RecordSend, Ends, Becomes, Base, Typed
    <3>2. Listed(Quiet) = {} /\ Quiet.phase # "poll"
      BY DEF Quiet, Listed, Held
    <3> QED
      BY <3>1, <3>2
  <2>2. CASE task[w].phase = "replace"
    <3> DEFINE t == [task[w] EXCEPT !.step = "receipt", !.row = 0,
                        !.answer = "none", !.head = 0]
    <3>1. Becomes(w, t)
      BY <2>2 DEF RecordSend
    <3>2. task'[w] = t
      BY <3>1 DEF Becomes, Base, Typed
    <3>3. t.phase # "poll" /\ Listed(t) \subseteq task[w].todo
      BY <2>2, HasTask DEF Task, Listed, Held
    <3> HIDE DEF t
    <3> QED
      BY <3>2, <3>3
  <2>3. CASE task[w].phase = "reconcile"
    <3> DEFINE t == [task[w] EXCEPT !.step = "receipt", !.row = 0,
                        !.answer = "none", !.head = 0,
                        !.bad = IF @ # "none" \/ sent THEN @ ELSE task[w].answer]
    <3>1. Becomes(w, t)
      BY <2>3 DEF RecordSend
    <3>2. task'[w] = t
      BY <3>1 DEF Becomes, Base, Typed
    <3>3. t.phase # "poll" /\ Listed(t) \subseteq task[w].todo
      BY <2>3, HasTask DEF Task, Listed, Held
    <3> HIDE DEF t
    <3> QED
      BY <3>2, <3>3
  <2> QED
    BY <1>1, <2>1, <2>2, <2>3
<1> HIDE DEF i, r, sent
<1>4. Len(outbox) \in Nat /\ outbox \in [Rows -> Row]
  BY LenProperties DEF Base, Typed, Rows
<1>5. Rows' = Rows
  <2>1. DOMAIN outbox' = 1..Len(outbox') /\ Len(outbox') \in Nat
    BY LenProperties DEF Base, Typed
  <2>2. Len(outbox') = Len(outbox)
    BY <1>1, <1>4, <2>1 DEF Rows
  <2> QED
    BY <2>2 DEF Rows
<1>6. \A j \in Rows : /\ outbox'[j].block = outbox[j].block
                      /\ outbox'[j].action = outbox[j].action
                      /\ j # i => outbox'[j].status = outbox[j].status
                      /\ j = i => outbox'[j].status \in {outbox[j].status, "SUBMITTED"}
  BY <1>1, <1>2, <1>4 DEF Row
<1>7. outbox'[i].status \notin Included
  BY <1>2, <1>6 DEF Included, MirrorInv, MinedHasBlock, Clear
<1>8. \A a \in Actions : action'[a] = action[a]
                           \/ (action[a] \notin Included /\ action'[a] \notin Included)
  BY <1>1 DEF Base, Typed, Included
<1>9. \A j \in Listed(t) : Clear(j)'
  BY <1>2, <1>3, <1>6 DEF Clear
<1> QED
  BY <1>2, <1>3, <1>5, <1>6, <1>7, <1>8, <1>9, MarksKeepMirror

LEMMA SignActionKeepsMirror ==
    ASSUME Resumers = {}, Base, MirrorInv, NEW w \in Workers, SignAction(w)
    PROVE  MirrorInv'
<1> DEFINE t == [task[w] EXCEPT !.phase = "submit", !.step = "history"]
<1>1. /\ action' = [action EXCEPT ![Newest + 1] = "SIGNED"]
      /\ Becomes(w, t) /\ UNCHANGED outbox
  BY DEF SignAction, Phase
<1>2. Newest \in Nat /\ \A i \in Rows : outbox[i].action \in Actions
                                        /\ outbox[i].action # Newest + 1
  <2>1. Newest \in Nat
    BY NewestIsNat
  <2>2. ASSUME NEW i \in Rows
        PROVE  outbox[i].action \in Actions /\ outbox[i].action <= Newest
    BY RowTyped DEF Base, KeysInv
  <2>3. \A a \in Actions : a \in Nat
    BY DEF Actions
  <2> QED
    BY <2>1, <2>2, <2>3
<1>3. Rows' = Rows /\ \A i \in Rows : Clear(i)' <=> Clear(i)
  BY <1>1 DEF Rows, Clear
<1>4. MinedHasBlock' /\ OneCharged'
  BY <1>1, <1>3 DEF MirrorInv, MinedHasBlock, OneCharged
<1>5. Mirrors'
  <2>1. ASSUME NEW i \in Rows', ~Clear(i)'
        PROVE  action'[outbox'[i].action] = outbox'[i].status
    BY <1>1, <1>2, <1>3, <2>1 DEF MirrorInv, Mirrors
  <2>2. ASSUME NEW a \in Actions, action'[a] \in Included
        PROVE  \E i \in RowsOf(a)' : ~Clear(i)'
    <3>1. action[a] \in Included
      BY <1>1, <2>2 DEF Base, Typed, Included
    <3> QED
      BY <1>1, <1>3, <3>1 DEF MirrorInv, Mirrors, RowsOf
  <2> QED
    BY <2>1, <2>2 DEF Mirrors
<1>6. task'[w] = t /\ t.phase = "submit" /\ Listed(t) \subseteq Listed(task[w])
  BY <1>1, HasTask DEF Becomes, Base, Typed, Task, Listed, Held
<1> HIDE DEF t
<1>7. \A i \in Listed(t) : Clear(i)
  BY <1>6 DEF MirrorInv, ListInv
<1>8. ListInv(task[w])'
  BY <1>1, <1>6, <1>7 DEF ListInv, Listed, Clear
<1> QED
  BY <1>4, <1>5, <1>8, MirrorWrites

LEMMA PersistKeepsMirror ==
    ASSUME Resumers = {}, Base, Base', MirrorInv, NEW w \in Workers, Persist(w)
    PROVE  MirrorInv'
<1> DEFINE new == NewRow(Newest, TakeNonce(task[w].nonce), 1)
           t == [task[w] EXCEPT !.step = "send", !.nonce = 0, !.row = Len(outbox) + 1]
<1>1. /\ task[w].phase = "submit" /\ task[w].step = "persist" /\ Becomes(w, t)
      /\ outbox' = Append(outbox, new) /\ UNCHANGED action
  BY DEF Persist, At
<1>2. new.block = NoBlock /\ new.status = "PENDING"
  BY DEF NewRow
<1>3. task'[w] = t /\ t.phase # "poll" /\ Listed(t) = task[w].todo \cup {Len(outbox) + 1}
  BY <1>1, HasTask DEF Becomes, Base, Typed, Task, Listed, Held
<1> HIDE DEF new, t
<1>4. /\ Len(outbox) \in Nat /\ Len(outbox') = Len(outbox) + 1
      /\ outbox'[Len(outbox) + 1] = new
      /\ \A j \in Rows : outbox'[j] = outbox[j]
  <2>1. Len(outbox) \in Nat /\ DOMAIN outbox = 1..Len(outbox)
    BY LenProperties DEF Base, Typed
  <2>2. Len(outbox') \in Nat /\ DOMAIN outbox' = 1..Len(outbox')
    BY LenProperties DEF Base, Typed
  <2>3. DOMAIN outbox' = 1..(Len(outbox) + 1)
    BY <1>1, <2>1 DEF Base, Typed
  <2> QED
    BY <1>1, <2>1, <2>2, <2>3 DEF Base, Typed, Rows
<1>5. Rows' = Rows \cup {Len(outbox) + 1} /\ Len(outbox) + 1 \notin Rows /\ 0 \notin Rows
  BY <1>4 DEF Rows
<1>6. \A j \in task[w].todo : j \in Rows /\ Clear(j)
  BY HasTask DEF MirrorInv, ListInv, Listed, TaskInv
<1>7. \A j \in Listed(t) : Clear(j)'
  BY <1>2, <1>3, <1>4, <1>6 DEF Clear
<1>8. \A j \in Rows' \ Rows : outbox'[j].block = NoBlock /\ outbox'[j].status \notin Included
  BY <1>2, <1>4, <1>5 DEF Included
<1> QED
  BY <1>1, <1>3, <1>4, <1>5, <1>7, <1>8, MarksKeepMirror

LEMMA CrashKeepsMirror ==
    ASSUME Resumers = {}, Base, MirrorInv, Crash \/ Restart
    PROVE  MirrorInv'
<1>1. Driver \in Workers /\ UNCHANGED <<outbox, action>>
  BY DEF Workers, Crash, Restart, rowVars
<1>2. CASE Crash
  <2>1. task'[Driver] = Quiet
    BY <1>1, <1>2 DEF Crash
  <2>2. ListInv(Quiet)
    BY DEF Quiet, ListInv, Listed, Held
  <2> QED
    BY <1>1, <2>1, <2>2, MirrorReads
<1>3. CASE Restart
  <2>1. CASE UNCHANGED task
    BY <1>1, <2>1, NodeKeepsMirror
  <2>2. CASE Becomes(Driver, [Quiet EXCEPT !.kind = "restart",
                                 !.phase = "reconcile", !.step = "list"])
    <3> DEFINE t == [Quiet EXCEPT !.kind = "restart", !.phase = "reconcile", !.step = "list"]
    <3>1. Becomes(Driver, t)
      BY <2>2
    <3>2. t.todo = {} /\ t.step \notin Held
      BY DEF Quiet, Held
    <3> HIDE DEF t
    <3> QED
      BY <1>1, <3>1, <3>2, TaskIsFree
  <2> QED
    BY <1>3, <2>1, <2>2 DEF Restart
<1> QED
  BY <1>2, <1>3

LEMMA WorkKeepsMirror ==
    ASSUME Resumers = {}, Base, Base', MirrorInv, NEW w \in Workers, Work(w)
    PROVE  MirrorInv'
<1>1. CASE Poll(w)
  BY <1>1, ReadsKeepMirror, RewindKeepsMirror, PollReadsKeepMirror,
     RecordInclusionKeepsMirror, UpdateDepthKeepsMirror DEF Poll
<1>2. CASE ReplaceStuck(w)
  BY <1>2, PollReadsKeepMirror, ReplaceKeepsMirror DEF ReplaceStuck
<1>3. CASE Synced(w) \/ Resend(w)
  BY <1>3, ReadsKeepMirror
<1>4. CASE Reconcile(w)
  BY <1>4, ReconcileReadsKeepMirror, NonceConsumedKeepsMirror, ReconciledKeepsMirror
     DEF Reconcile
<1>5. CASE Broadcast(w)
  BY <1>5, ActReadsKeepMirror, RecordSendKeepsMirror DEF Broadcast
<1>6. CASE Act(w)
  BY <1>6, ActReadsKeepMirror, SignActionKeepsMirror, PersistKeepsMirror DEF Act
<1> QED
  BY <1>1, <1>2, <1>3, <1>4, <1>5, <1>6 DEF Work

LEMMA MirrorStep ==
    ASSUME Resumers = {}, Base, Base', MirrorInv, [Next]_vars
    PROVE  MirrorInv'
<1>1. CASE ChainStep
  <2>1. UNCHANGED <<outbox, action, task>>
    BY <1>1 DEF ChainStep, MineTx, Evict, MineEmpty, Finalize, Reorg, rowVars
  <2> QED
    BY <2>1, NodeKeepsMirror
<1>2. ASSUME NEW w \in Workers, BeginTick(w) \/ BeginResume(w) \/ Work(w)
      PROVE  MirrorInv'
  BY <1>2, ReadsKeepMirror, WorkKeepsMirror
<1>3. ASSUME NEW w \in Workers, Unanswered(w) \/ Unreachable(w)
      PROVE  MirrorInv'
  BY <1>3, ReconcileReadsKeepMirror
<1>4. CASE Crash \/ Restart
  BY <1>4, CrashKeepsMirror
<1>5. CASE UNCHANGED vars
  <2>1. UNCHANGED <<outbox, action, task>>
    BY <1>5 DEF vars, rowVars
  <2> QED
    BY <2>1, NodeKeepsMirror
<1> QED
  BY <1>1, <1>2, <1>3, <1>4, <1>5 DEF Next

LEMMA InitMirror == Init => MirrorInv
<1> SUFFICES ASSUME Init PROVE MirrorInv
  OBVIOUS
<1>1. Rows = {}
  BY DEF Init, Rows
<1>2. MinedHasBlock /\ OneCharged
  BY <1>1 DEF MinedHasBlock, OneCharged
<1>3. Mirrors
  BY <1>1 DEF Init, Mirrors, Included
<1>4. \A w \in Workers : ListInv(task[w])
  BY DEF Init, ListInv, Listed, Quiet, Held
<1> QED
  BY <1>2, <1>3, <1>4 DEF MirrorInv

LEMMA MirrorsMeansMirrors ==
    ASSUME Base, MirrorInv
    PROVE  ActionMirrorsRow
<1> SUFFICES ASSUME NEW a \in Actions
             PROVE  /\ Cardinality(Charged(a)) <= 1
                    /\ {outbox[i].status : i \in Charged(a)}
                          = IF action[a] \in Included THEN {action[a]} ELSE {}
  BY DEF ActionMirrorsRow
<1>1. CASE Charged(a) = {}
  <2>1. action[a] \notin Included
    BY <1>1 DEF Charged, RowsOf, MirrorInv, Mirrors, Clear
  <2>2. Cardinality(Charged(a)) = 0
    BY <1>1, FS_EmptySet
  <2> QED
    BY <1>1, <2>1, <2>2
<1>2. CASE Charged(a) # {}
  <2>1. PICK i : i \in Charged(a)
    BY <1>2
  <2>2. Charged(a) = {i}
    BY <2>1 DEF Charged, RowsOf, MirrorInv, OneCharged, Clear
  <2>3. Cardinality(Charged(a)) = 1
    BY <2>2, FS_Singleton
  <2>4. action[a] = outbox[i].status /\ outbox[i].status \in Included
    BY <2>1 DEF Charged, RowsOf, MirrorInv, Mirrors, MinedHasBlock, Clear
  <2> QED
    BY <2>2, <2>3, <2>4
<1> QED
  BY <1>1, <1>2

(* While no resume request reconciles beside the driver, a row says it was *)
(* mined exactly when it says in which block, of an action's rows at most  *)
(* one does, and the action has that row's status: what the turn executor  *)
(* reads in signed_actions, and what the metrics charge, is the one mined  *)
(* transaction (mark_included, rewind, update_depth, executor.py _follow). *)
THEOREM ActionsMirrorRows ==
    ASSUME Resumers = {}
    PROVE  Spec => [](MinedHasBlock /\ ActionMirrorsRow)
<1>1. Init => MirrorInv
  BY InitMirror
<1>2. MirrorInv /\ Base /\ Base' /\ [Next]_vars => MirrorInv'
  BY MirrorStep
<1>3. Base /\ MirrorInv => MinedHasBlock /\ ActionMirrorsRow
  BY MirrorsMeansMirrors DEF MirrorInv
<1> QED
  BY <1>1, <1>2, <1>3, OutboxTyped, PTL DEF Spec

-----------------------------------------------------------------------------
(* Who took a nonce, while the driver works alone on a chain that only     *)
(* grows                                                                   *)

LEMMA SameChain ==
    ASSUME UNCHANGED <<chain, mempool, outbox>>
    PROVE  /\ MinedNonce' = MinedNonce /\ Rows' = Rows
           /\ \A b : Stays(b)' <=> Stays(b)
           /\ \A i : /\ Unseen(i)' <=> Unseen(i)
                     /\ Unfinished(i)' <=> Unfinished(i)
                     /\ Clear(i)' <=> Clear(i)
                     /\ GroupOf(i)' = GroupOf(i)
<1>1. MinedNonce' = MinedNonce /\ Rows' = Rows
  BY DEF MinedNonce, Rows
<1>2. \A b : Stays(b)' <=> Stays(b)
  BY DEF Stays, OnChain
<1>3. ASSUME NEW i
      PROVE  /\ Unseen(i)' <=> Unseen(i)
             /\ Unfinished(i)' <=> Unfinished(i)
             /\ Clear(i)' <=> Clear(i)
             /\ GroupOf(i)' = GroupOf(i)
  BY DEF Unseen, Mined, TxOf, Unfinished, Clear, GroupOf, Rows
<1> QED
  BY <1>1, <1>2, <1>3

(* A step that reads: what it has read is held to what is there.           *)
LEMMA ConflictReads ==
    ASSUME Resumers = {}, Base, ConflictInv, UNCHANGED <<chain, mempool, outbox>>,
           cause' # "nonce_conflict",
           NEW w \in Workers, NEW t, Becomes(w, t), LookInv(t)
    PROVE  ConflictInv'
<1>1. task'[w] = t /\ Workers = {w}
  BY Alone DEF Becomes, Base, Typed
<1>2. LookInv(task[w])'
  <2>1. LookInv(t)
    OBVIOUS
  <2> QED
    BY <1>1, <2>1, SameChain DEF LookInv
<1>3. NoncesMined'
  BY SameChain DEF ConflictInv, NoncesMined
<1>4. BlocksStay'
  BY SameChain DEF ConflictInv, BlocksStay
<1>5. PaysMost'
  BY SameChain DEF ConflictInv, PaysMost
<1> QED
  BY <1>1, <1>2, <1>3, <1>4, <1>5 DEF ConflictInv, NoFalseConflict

LEMMA HasLook ==
    ASSUME ConflictInv, NEW w \in Workers
    PROVE  LookInv(task[w]) /\ cause # "nonce_conflict" /\ task[w].bad # "nonce_conflict"
  BY DEF ConflictInv, LookInv, NoFalseConflict

LEMMA LookFree ==
    ASSUME NEW t, t.stale = {}, t.todo = {}, t.step \notin Held, t.found = NoBlock,
           t.bad = "none"
    PROVE  LookInv(t)
  BY DEF LookInv, Held

LEMMA QuietLook == LookInv(Quiet)
  BY LookFree DEF Quiet, Held

LEMMA EndsKeepsConflict ==
    ASSUME Resumers = {}, Base, ConflictInv, UNCHANGED <<chain, mempool, outbox>>,
           cause' # "nonce_conflict", NEW w \in Workers, Ends(w)
    PROVE  ConflictInv'
  BY QuietLook, ConflictReads DEF Ends

LEMMA SkipsKeepsConflict ==
    ASSUME Resumers = {}, Base, ConflictInv, UNCHANGED <<chain, mempool, outbox, cause>>,
           NEW w \in Workers, Skips(w)
    PROVE  ConflictInv'
<1> DEFINE t == [task[w] EXCEPT !.todo = @ \ {First(w)}]
<1>1. LookInv(t)
  BY HasTask, HasLook DEF LookInv, Task
<1>2. Becomes(w, t)
  BY DEF Skips
<1> HIDE DEF t
<1> QED
  BY <1>1, <1>2, ConflictReads DEF ConflictInv, NoFalseConflict

LEMMA TakesKeepsConflict ==
    ASSUME Resumers = {}, Base, ConflictInv, UNCHANGED <<chain, mempool, outbox, cause>>,
           NEW w \in Workers, NEW step \in {"known", "swap"}, task[w].todo # {},
           task[w].phase \in {"replace", "reconcile"}, Takes(w, step)
    PROVE  ConflictInv'
<1> DEFINE t == [task[w] EXCEPT !.step = step, !.row = First(w), !.todo = @ \ {First(w)}]
<1>1. LookInv(t)
  <2>1. First(w) \in task[w].todo
    BY FirstTaken
  <2> QED
    BY <2>1, HasTask, HasLook DEF LookInv, Task
<1>2. Becomes(w, t)
  BY DEF Takes
<1> HIDE DEF t
<1> QED
  BY <1>1, <1>2, ConflictReads DEF ConflictInv, NoFalseConflict

LEMMA DoneKeepsConflict ==
    ASSUME Resumers = {}, Base, ConflictInv, UNCHANGED <<chain, mempool, outbox, cause>>,
           NEW w \in Workers, NEW outcome, outcome # "nonce_conflict",
           Done(w) \/ Judged(w, outcome)
    PROVE  ConflictInv'
<1>1. cause' # "nonce_conflict" /\ task[w] \in Task /\ LookInv(task[w])
  BY HasTask, HasLook
<1>2. CASE Done(w)
  <2> DEFINE t == [task[w] EXCEPT !.step = "receipt", !.row = 0]
  <2>1. LookInv(t)
    BY <1>1 DEF LookInv, Task, Held
  <2>2. Becomes(w, t)
    BY <1>2 DEF Done
  <2> HIDE DEF t
  <2> QED
    BY <1>1, <2>1, <2>2, ConflictReads
<1>3. CASE Judged(w, outcome)
  <2> DEFINE t == [task[w] EXCEPT !.step = "receipt", !.row = 0,
                      !.bad = IF @ = "none" THEN outcome ELSE @]
  <2>1. LookInv(t)
    BY <1>1 DEF LookInv, Task, Held
  <2>2. Becomes(w, t)
    BY <1>3 DEF Judged
  <2> HIDE DEF t
  <2> QED
    BY <1>1, <2>1, <2>2, ConflictReads
<1> QED
  BY <1>2, <1>3

(* The steps that read, one by one.                                        *)
LEMMA BeginsKeepConflict ==
    ASSUME Resumers = {}, Base, ConflictInv, NEW w \in Workers,
           BeginTick(w) \/ BeginResume(w) \/ CheckReorg(w) \/ ListWaiting(w) \/ LookUp(w)
    PROVE  ConflictInv'
<1>1. /\ UNCHANGED <<chain, mempool, outbox, cause>> /\ cause' # "nonce_conflict"
      /\ task[w] \in Task /\ LookInv(task[w])
  BY HasTask, HasLook DEF BeginTick, BeginResume, CheckReorg, ListWaiting, LookUp,
     chainVars, rowVars, runVars
<1>2. CASE BeginTick(w)
  <2> DEFINE t == [Quiet EXCEPT !.kind = "tick", !.phase = "poll", !.step = "blocks",
                                !.head = Len(chain), !.final = fin]
  <2>1. Becomes(w, t)
    BY <1>2 DEF BeginTick, PollFrom
  <2>2. LookInv(t)
    BY DEF LookInv, Quiet, Held
  <2> HIDE DEF t
  <2> QED
    BY <1>1, <2>1, <2>2, ConflictReads
<1>3. CASE BeginResume(w)
  <2> DEFINE t == [Quiet EXCEPT !.kind = IF run = "paused" THEN "resume" ELSE "recover",
                                !.phase = "reconcile", !.step = "list"]
  <2>1. Becomes(w, t)
    BY <1>3 DEF BeginResume
  <2>2. LookInv(t)
    BY DEF LookInv, Quiet, Held
  <2> HIDE DEF t
  <2> QED
    BY <1>1, <2>1, <2>2, ConflictReads
<1>4. CASE CheckReorg(w)
  <2> DEFINE t == [task[w] EXCEPT !.stale = StaleBlocks(w),
                      !.step = IF StaleBlocks(w) = {} THEN "waiting" ELSE "rewind"]
  <2>1. Becomes(w, t) /\ task[w].phase = "poll"
    BY <1>4 DEF CheckReorg, At
  <2>2. StaleBlocks(w) = {}
    <3>1. \A i \in Rows : outbox[i].block # NoBlock => OnChain(outbox[i].block)
      BY DEF ConflictInv, BlocksStay, Clear, Stays
    <3> QED
      BY <3>1 DEF StaleBlocks
  <2>3. LookInv(t)
    BY <1>1, <2>1, <2>2 DEF LookInv, Task, Held
  <2> HIDE DEF t
  <2> QED
    BY <1>1, <2>1, <2>3, ConflictReads
<1>5. CASE ListWaiting(w)
  <2> DEFINE t == [task[w] EXCEPT !.step = "receipt", !.todo = {i \in Rows : Awaits(i)}]
  <2>1. Becomes(w, t) /\ task[w].phase = "poll"
    BY <1>5 DEF ListWaiting, At
  <2>2. LookInv(t)
    BY SMTT(40), <1>1, <2>1 DEF LookInv, Task, Held
  <2> HIDE DEF t
  <2> QED
    BY <1>1, <2>1, <2>2, ConflictReads
<1>6. CASE LookUp(w)
  <2>1. CASE Skips(w)
    BY <1>1, <2>1, SkipsKeepsConflict
  <2>2. ASSUME NEW h \in Mined(TxOf(outbox[First(w)])),
               Becomes(w, [task[w] EXCEPT !.step = "include", !.ok = chain[h].ok,
                            !.row = First(w), !.todo = @ \ {First(w)},
                            !.found = [height |-> h, hash |-> chain[h].hash]])
        PROVE  ConflictInv'
    <3> DEFINE b == [height |-> h, hash |-> chain[h].hash]
               t == [task[w] EXCEPT !.step = "include", !.ok = chain[h].ok,
                        !.row = First(w), !.todo = @ \ {First(w)}, !.found = b]
    <3>1. Becomes(w, t) /\ task[w].phase = "poll"
      BY <1>6, <2>2 DEF LookUp, At
    <3>2. Stays(b)
      BY HasTask DEF Stays, OnChain, Mined
    <3> HIDE DEF b
    <3>3. LookInv(t)
      BY <1>1, <3>1, <3>2 DEF LookInv, Task, Held
    <3> HIDE DEF t
    <3> QED
      BY <1>1, <3>1, <3>3, ConflictReads
  <2> QED
    BY <1>6, <2>1, <2>2 DEF LookUp
<1> QED
  BY <1>2, <1>3, <1>4, <1>5, <1>6

LEMMA StuckReadsKeepConflict ==
    ASSUME Resumers = {}, Base, ConflictInv, NEW w \in Workers,
           ListStuck(w) \/ CheckStuck(w) \/ Synced(w) \/ Resend(w)
    PROVE  ConflictInv'
<1>1. /\ UNCHANGED <<chain, mempool, outbox>> /\ cause' # "nonce_conflict"
      /\ task[w] \in Task /\ LookInv(task[w])
  <2>1. UNCHANGED <<chain, mempool, outbox>> /\ cause' \in {cause, "none"}
    BY DEF ListStuck, CheckStuck, Synced, Resend, chainVars, rowVars, runVars
  <2> QED
    BY <2>1, HasTask, HasLook
<1>2. CASE ListStuck(w)
  <2> DEFINE t == [task[w] EXCEPT !.step = "receipt", !.head = 0, !.final = 0,
                                  !.todo = {i \in Rows : Stuck(i)}]
  <2>1. Becomes(w, t) /\ task[w].phase = "replace"
    BY <1>2 DEF ListStuck, At
  <2>2. \A i \in Rows : Stuck(i) => Unfinished(i)
    BY DEF Stuck, Unfinished
  <2>3. LookInv(t)
    BY <1>1, <2>1, <2>2 DEF LookInv, Task, Held
  <2> HIDE DEF t
  <2> QED
    BY <1>1, <2>1, <2>3, ConflictReads
<1>3. CASE CheckStuck(w)
  <2>1. /\ task[w].phase = "replace" /\ task[w].todo # {} /\ UNCHANGED cause
        /\ Skips(w) \/ Takes(w, "swap")
    BY <1>3 DEF CheckStuck, At, runVars
  <2> QED
    BY <1>1, <2>1, SkipsKeepsConflict, TakesKeepsConflict
<1>4. CASE Synced(w)
  <2>1. task[w].phase = "replace" /\ task[w].step = "receipt" /\ task[w].todo = {}
    BY <1>4 DEF Synced, At
  <2>2. CASE Ends(w)
    BY <1>1, <2>2, EndsKeepsConflict
  <2>3. CASE Phase(w, "resend", "list")
    <3> DEFINE t == [task[w] EXCEPT !.phase = "resend", !.step = "list"]
    <3>1. Becomes(w, t)
      BY <2>3 DEF Phase
    <3>2. LookInv(t)
      BY <1>1, <2>1 DEF LookInv, Task, Held
    <3> HIDE DEF t
    <3> QED
      BY <1>1, <3>1, <3>2, ConflictReads
  <2>4. CASE Becomes(w, [task[w] EXCEPT !.phase = "reconcile", !.step = "list",
                            !.kind = IF @ = "recover" THEN "restart" ELSE @])
    <3> DEFINE t == [task[w] EXCEPT !.phase = "reconcile", !.step = "list",
                        !.kind = IF @ = "recover" THEN "restart" ELSE @]
    <3>1. Becomes(w, t)
      BY <2>4
    <3>2. LookInv(t)
      BY <1>1, <2>1 DEF LookInv, Task, Held
    <3> HIDE DEF t
    <3> QED
      BY <1>1, <3>1, <3>2, ConflictReads
  <2> QED
    BY <1>4, <2>2, <2>3, <2>4 DEF Synced
<1>5. CASE Resend(w)
  <2>1. task[w].phase = "resend" /\ task[w].step = "list"
    BY <1>5 DEF Resend, At
  <2>2. CASE Phase(w, "act", "follow")
    <3> DEFINE t == [task[w] EXCEPT !.phase = "act", !.step = "follow"]
    <3>1. Becomes(w, t)
      BY <2>2 DEF Phase
    <3>2. LookInv(t)
      BY <1>1, <2>1 DEF LookInv, Task, Held
    <3> HIDE DEF t
    <3> QED
      BY <1>1, <3>1, <3>2, ConflictReads
  <2>3. CASE Becomes(w, [task[w] EXCEPT !.kind = "resend", !.phase = "reconcile", !.step = "list"])
    <3> DEFINE t == [task[w] EXCEPT !.kind = "resend", !.phase = "reconcile", !.step = "list"]
    <3>1. Becomes(w, t)
      BY <2>3
    <3>2. LookInv(t)
      BY <1>1, <2>1 DEF LookInv, Task, Held
    <3> HIDE DEF t
    <3> QED
      BY <1>1, <3>1, <3>2, ConflictReads
  <2> QED
    BY <1>5, <2>2, <2>3 DEF Resend
<1> QED
  BY <1>2, <1>3, <1>4, <1>5

(* A row waited for that the node does not know is nowhere: no other of    *)
(* its nonce pays more.                                                    *)
LEMMA UnknownIsUnseen ==
    ASSUME Base, ConflictInv, NEW i \in Rows, Unfinished(i), ~Known(TxOf(outbox[i]))
    PROVE  Unseen(i)
<1>1. Mined(TxOf(outbox[i])) = {}
  BY DEF Known
<1>2. SUFFICES ASSUME NEW u \in mempool, u.nonce = TxOf(outbox[i]).nonce,
                      u.fee > TxOf(outbox[i]).fee
               PROVE  FALSE
  BY <1>1 DEF Known, Outbid, Unseen
<1>3. PICK j \in Rows : u = TxOf(outbox[j])
  BY DEF Base, PoolInv, Relayed
<1>4. outbox[j].nonce = outbox[i].nonce /\ outbox[j].fee > outbox[i].fee
  BY <1>2, <1>3 DEF TxOf
<1>5. outbox[i] \in Row /\ outbox[j] \in Row
  BY RowTyped DEF Base
<1>6. outbox[i].fee \in Nat /\ outbox[j].fee \in Nat
  BY <1>5, OutboxAssumption DEF Row
<1>7. j \in GroupOf(i) \ {i}
  BY <1>4, <1>6 DEF GroupOf
<1>8. outbox[j].fee < outbox[i].fee
  BY <1>7 DEF ConflictInv, PaysMost
<1> QED
  BY <1>4, <1>6, <1>8

LEMMA ReconcileReadsKeepConflict ==
    ASSUME Resumers = {}, Base, ConflictInv, NEW w \in Workers,
           ListUnfinished(w) \/ HasReceipt(w) \/ IsKnown(w) \/ IsNonceFree(w)
    PROVE  ConflictInv'
<1>1. /\ UNCHANGED <<chain, mempool, outbox, cause>> /\ cause' # "nonce_conflict"
      /\ task[w] \in Task /\ LookInv(task[w]) /\ TaskInv(w, task[w])
      /\ task[w].phase = "reconcile"
  BY HasTask, HasLook DEF ListUnfinished, HasReceipt, IsKnown, IsNonceFree, At,
     chainVars, rowVars, runVars
<1>2. CASE ListUnfinished(w)
  <2> DEFINE t == [task[w] EXCEPT !.step = "receipt", !.bad = "none",
                      !.todo = {i \in Rows : Unfinished(i)},
                      !.pending = {i \in Rows : outbox[i].status = "PENDING"}]
  <2>1. Becomes(w, t)
    BY <1>2 DEF ListUnfinished
  <2>2. LookInv(t)
    BY <1>1 DEF LookInv, Task, Held
  <2> HIDE DEF t
  <2> QED
    BY <1>1, <2>1, <2>2, ConflictReads
<1>3. CASE HasReceipt(w)
  <2>1. task[w].todo # {} /\ (Skips(w) \/ Takes(w, "known"))
    BY <1>3 DEF HasReceipt
  <2> QED
    BY <1>1, <2>1, SkipsKeepsConflict, TakesKeepsConflict
<1>4. CASE IsKnown(w)
  <2>1. task[w].step = "known" /\ task[w].row \in Rows /\ Unfinished(task[w].row)
    BY <1>1, <1>4 DEF IsKnown, At, LookInv, TaskInv, Held
  <2>2. CASE Done(w)
    BY <1>1, <2>2, DoneKeepsConflict
  <2>3. CASE ~Known(TxOf(Taken(w))) /\ Step(w, "nonce")
    <3> DEFINE t == [task[w] EXCEPT !.step = "nonce"]
    <3>1. Becomes(w, t)
      BY <2>3 DEF Step
    <3>2. Unseen(task[w].row)
      BY <2>1, <2>3, UnknownIsUnseen DEF Taken
    <3>3. LookInv(t)
      BY <1>1, <2>1, <3>2 DEF LookInv, Task, Held
    <3> HIDE DEF t
    <3> QED
      BY <1>1, <3>1, <3>3, ConflictReads
  <2>4. CASE Becomes(w, [task[w] EXCEPT !.step = "record",
                            !.answer = "accepted", !.head = Len(chain)])
    <3> DEFINE t == [task[w] EXCEPT !.step = "record", !.answer = "accepted",
                                    !.head = Len(chain)]
    <3>1. Becomes(w, t)
      BY <2>4
    <3>2. LookInv(t)
      BY <1>1, <2>1 DEF LookInv, Task, Held
    <3> HIDE DEF t
    <3> QED
      BY <1>1, <3>1, <3>2, ConflictReads
  <2> QED
    BY <1>4, <2>2, <2>3, <2>4 DEF IsKnown
<1>5. CASE IsNonceFree(w)
  <2> DEFINE step == IF MinedNonce > Taken(w).nonce THEN "siblings" ELSE "send"
             t == [task[w] EXCEPT !.step = step]
  <2>1. Becomes(w, t) /\ task[w].step = "nonce"
    BY <1>5 DEF IsNonceFree, At, Step
  <2>2. step \in {"siblings", "send"}
        /\ (step = "siblings" => MinedNonce > outbox[task[w].row].nonce)
    BY DEF Taken
  <2> HIDE DEF step
  <2>3. LookInv(t)
    BY <1>1, <2>1, <2>2 DEF LookInv, Task, Held
  <2> HIDE DEF t
  <2> QED
    BY <1>1, <2>1, <2>3, ConflictReads
<1> QED
  BY <1>2, <1>3, <1>4, <1>5

LEMMA LostKeepsConflict ==
    ASSUME Resumers = {}, Base, ConflictInv, NEW w \in Workers,
           Unreachable(w) \/ Unanswered(w)
    PROVE  ConflictInv'
<1>1. UNCHANGED <<chain, mempool, outbox>> /\ task[w] \in Task /\ LookInv(task[w])
  BY HasTask, HasLook DEF Unreachable, Unanswered, rowVars
<1>2. CASE Unreachable(w)
  <2>1. UNCHANGED cause /\ cause' # "nonce_conflict" /\ task[w].phase = "reconcile"
    BY <1>2, HasLook DEF Unreachable, runVars
  <2>2. CASE Judged(w, "unreachable")
    BY <1>1, <2>1, <2>2, DoneKeepsConflict
  <2>3. CASE Becomes(w, [task[w] EXCEPT !.todo = @ \ {First(w)},
                            !.bad = IF @ = "none" THEN "unreachable" ELSE @])
    <3> DEFINE t == [task[w] EXCEPT !.todo = @ \ {First(w)},
                        !.bad = IF @ = "none" THEN "unreachable" ELSE @]
    <3>1. Becomes(w, t)
      BY <2>3
    <3>2. LookInv(t)
      BY <1>1, <2>1 DEF LookInv, Task
    <3> HIDE DEF t
    <3> QED
      BY <1>1, <2>1, <3>1, <3>2, ConflictReads
  <2> QED
    BY <1>2, <2>2, <2>3 DEF Unreachable
<1>3. CASE Unanswered(w)
  <2>1. Ends(w) /\ cause' # "nonce_conflict"
    BY <1>3, HasLook DEF Unanswered, SameRun, ToRecovery
  <2> QED
    BY <1>1, <2>1, EndsKeepsConflict
<1> QED
  BY <1>2, <1>3

LEMMA ReconciledKeepsConflict ==
    ASSUME Resumers = {}, Base, ConflictInv, NEW w \in Workers, Reconciled(w)
    PROVE  ConflictInv'
<1>1. /\ UNCHANGED <<chain, mempool, outbox>> /\ task[w] \in Task /\ LookInv(task[w])
      /\ task[w].phase = "reconcile" /\ task[w].step = "receipt" /\ task[w].todo = {}
  BY HasTask, HasLook DEF Reconciled, At, chainVars, rowVars
<1>2. cause' # "nonce_conflict"
  <2>1. cause' \in {cause, task[w].bad, "rpc_timeout", "none"}
    BY DEF Reconciled, SameRun, ToRecovery
  <2> QED
    BY <2>1, HasLook
<1>3. CASE Ends(w)
  BY <1>1, <1>2, <1>3, EndsKeepsConflict
<1>4. CASE PollFrom(w, "recover")
  <2> DEFINE t == [Quiet EXCEPT !.kind = "recover", !.phase = "poll", !.step = "blocks",
                                !.head = Len(chain), !.final = fin]
  <2>1. Becomes(w, t)
    BY <1>4 DEF PollFrom
  <2>2. LookInv(t)
    BY DEF LookInv, Quiet, Held
  <2> HIDE DEF t
  <2> QED
    BY <1>1, <1>2, <2>1, <2>2, ConflictReads
<1>5. CASE Becomes(w, [task[w] EXCEPT !.phase = "resend", !.step = "list",
                          !.pending = {}, !.bad = "none"])
  <2> DEFINE t == [task[w] EXCEPT !.phase = "resend", !.step = "list",
                      !.pending = {}, !.bad = "none"]
  <2>1. Becomes(w, t)
    BY <1>5
  <2>2. LookInv(t)
    BY <1>1 DEF LookInv, Task, Held
  <2> HIDE DEF t
  <2> QED
    BY <1>1, <1>2, <2>1, <2>2, ConflictReads
<1>6. CASE Becomes(w, [task[w] EXCEPT !.kind = "tick", !.phase = "act",
                          !.step = "follow", !.pending = {}])
  <2> DEFINE t == [task[w] EXCEPT !.kind = "tick", !.phase = "act",
                      !.step = "follow", !.pending = {}]
  <2>1. Becomes(w, t)
    BY <1>6
  <2>2. LookInv(t)
    BY <1>1 DEF LookInv, Task, Held
  <2> HIDE DEF t
  <2> QED
    BY <1>1, <1>2, <2>1, <2>2, ConflictReads
<1> QED
  BY <1>3, <1>4, <1>5, <1>6 DEF Reconciled

LEMMA ActReadsKeepConflict ==
    ASSUME Resumers = {}, Base, ConflictInv, NEW w \in Workers,
           \/ Halt(w) \/ SignAction(w) \/ CloseTurn(w) \/ Resubmit(w)
           \/ ResumeHistory(w) \/ Quote(w)
    PROVE  ConflictInv'
<1>1. /\ UNCHANGED <<chain, mempool, outbox>> /\ cause' # "nonce_conflict"
      /\ task[w] \in Task /\ LookInv(task[w]) /\ TaskInv(w, task[w])
      /\ task[w].phase \in {"act", "submit"}
  <2>1. /\ UNCHANGED <<chain, mempool, outbox, cause>>
        /\ task[w].phase \in {"act", "submit"}
    BY DEF Halt, SignAction, CloseTurn, Resubmit, ResumeHistory, Quote, At,
       chainVars, rowVars, runVars
  <2> QED
    BY <2>1, HasTask, HasLook
<1>2. CASE Halt(w) \/ CloseTurn(w)
  <2>1. Ends(w)
    BY <1>2 DEF Halt, CloseTurn
  <2> QED
    BY <1>1, <2>1, EndsKeepsConflict
<1>3. CASE Resubmit(w) \/ SignAction(w)
  <2> DEFINE t == [task[w] EXCEPT !.phase = "submit", !.step = "history"]
  <2>1. Becomes(w, t)
    BY <1>3 DEF Resubmit, SignAction, Phase
  <2>2. LookInv(t)
    BY <1>1 DEF LookInv, Task, Held
  <2> HIDE DEF t
  <2> QED
    BY <1>1, <2>1, <2>2, ConflictReads
<1>4. CASE ResumeHistory(w)
  <2> DEFINE rows == History(Newest)
             last == CHOOSE i \in rows : \A j \in rows : j <= i
  <2>1. \/ rows = {} /\ Step(w, "quote")
        \/ /\ rows # {} /\ outbox[last].status = "PENDING"
           /\ Becomes(w, [task[w] EXCEPT !.step = "send", !.row = last])
        \/ Ends(w)
    <3>1. CASE rows = {}
      BY <1>4, <3>1 DEF ResumeHistory
    <3>2. CASE rows # {}
      BY <1>4, <3>2 DEF ResumeHistory
    <3> QED
      BY <3>1, <3>2
  <2>2. task[w].phase = "submit"
    BY <1>4 DEF ResumeHistory, At
  <2> HIDE DEF rows, last
  <2>3. CASE Step(w, "quote")
    <3> DEFINE t == [task[w] EXCEPT !.step = "quote"]
    <3>1. Becomes(w, t)
      BY <2>3 DEF Step
    <3>2. LookInv(t)
      BY <1>1, <2>2 DEF LookInv, Task, Held
    <3> HIDE DEF t
    <3> QED
      BY <1>1, <3>1, <3>2, ConflictReads
  <2>4. CASE Ends(w)
    BY <1>1, <2>4, EndsKeepsConflict
  <2>5. CASE /\ outbox[last].status = "PENDING"
             /\ Becomes(w, [task[w] EXCEPT !.step = "send", !.row = last])
    <3> DEFINE t == [task[w] EXCEPT !.step = "send", !.row = last]
    <3>1. Becomes(w, t) /\ Unfinished(last)
      BY <2>5 DEF Unfinished
    <3>2. t.row = last /\ t.step = "send" /\ t.phase = "submit"
          /\ t.stale = task[w].stale /\ t.bad = task[w].bad /\ t.found = task[w].found
      BY <1>1, <2>2 DEF Task
    <3> HIDE DEF t
    <3>3. LookInv(t)
      BY <1>1, <3>1, <3>2 DEF LookInv
    <3> QED
      BY <1>1, <3>1, <3>3, ConflictReads
  <2> QED
    BY <2>1, <2>3, <2>4, <2>5
<1>5. CASE Quote(w)
  <2> DEFINE t == [task[w] EXCEPT !.step = "persist", !.nonce = PendingNonce]
  <2>1. Becomes(w, t) /\ task[w].phase = "submit"
    BY <1>5 DEF Quote, At
  <2>2. LookInv(t)
    BY <1>1, <2>1 DEF LookInv, Task, Held
  <2> HIDE DEF t
  <2> QED
    BY <1>1, <2>1, <2>2, ConflictReads
<1> QED
  BY <1>2, <1>3, <1>4, <1>5

(* Rows are given another status, or the block their task has found.       *)
LEMMA ConflictEdits ==
    ASSUME Resumers = {}, Base, Base', ConflictInv, UNCHANGED <<chain, mempool, cause>>,
           Rows' = Rows, \A j \in Rows : TxOf(outbox'[j]) = TxOf(outbox[j]),
           \A j \in Rows : Unfinished(j)' => Unfinished(j),
           \A j \in Rows : ~Clear(j)' => \/ outbox'[j].block = outbox[j].block
                                         \/ Stays(outbox'[j].block),
           NEW w \in Workers, NEW t, Becomes(w, t), t.step \notin Held,
           t.stale = {}, t.bad # "nonce_conflict", t.found \in {task[w].found, NoBlock},
           t.phase # "resend",
           t.phase \in {"replace", "reconcile"} => \A j \in t.todo : Unfinished(j)'
    PROVE  ConflictInv'
<1>1. task'[w] = t /\ Workers = {w}
  BY Alone DEF Becomes, Base, Typed
<1>2. MinedNonce' = MinedNonce /\ \A b : Stays(b)' <=> Stays(b)
  <2>1. MinedNonce' = MinedNonce
    BY DEF MinedNonce
  <2>2. \A b : Stays(b)' <=> Stays(b)
    BY DEF Stays, OnChain
  <2> QED
    BY <2>1, <2>2
<1>3. LookInv(task[w])'
  <2>1. LookInv(task[w])
    BY HasLook
  <2> QED
    BY <1>1, <1>2, <2>1 DEF LookInv, Held
<1>4. NoncesMined'
  BY <1>2 DEF ConflictInv, NoncesMined
<1>5. BlocksStay'
  BY <1>2 DEF ConflictInv, BlocksStay, Clear
<1>6. PaysMost'
  <2>1. \A j \in Rows : outbox'[j].nonce = outbox[j].nonce /\ outbox'[j].fee = outbox[j].fee
    BY DEF TxOf
  <2>2. \A j \in Rows : GroupOf(j)' = GroupOf(j) /\ GroupOf(j) \subseteq Rows
    BY <2>1 DEF GroupOf
  <2> QED
    BY <2>1, <2>2 DEF ConflictInv, PaysMost
<1> QED
  BY <1>1, <1>3, <1>4, <1>5, <1>6 DEF ConflictInv, NoFalseConflict

(* A row is added that pays more than any of its nonce, and those are no   *)
(* longer waited for.                                                      *)
LEMMA ConflictAppends ==
    ASSUME Resumers = {}, Base, Base', ConflictInv, UNCHANGED <<chain, mempool, cause>>,
           NEW n, n \notin Rows, Rows' = Rows \cup {n}, Unfinished(n)', Clear(n)',
           \A j \in Rows : TxOf(outbox'[j]) = TxOf(outbox[j]),
           \A j \in Rows : Unfinished(j)' => Unfinished(j),
           \A j \in Rows : outbox'[j].block = outbox[j].block,
           \A j \in Rows : outbox[j].nonce = outbox'[n].nonce =>
                             ~Unfinished(j)' /\ outbox[j].fee < outbox'[n].fee,
           NEW w \in Workers, NEW t, Becomes(w, t), t.step = "send", t.row = n,
           t.stale = task[w].stale, t.bad = task[w].bad, t.found = task[w].found,
           t.phase \in {"replace", "submit"}, t.todo \subseteq Rows,
           t.phase = "replace" => \A j \in t.todo : Unfinished(j)'
    PROVE  ConflictInv'
<1>1. task'[w] = t /\ Workers = {w}
  BY Alone DEF Becomes, Base, Typed
<1>2. MinedNonce' = MinedNonce /\ \A b : Stays(b)' <=> Stays(b)
  <2>1. MinedNonce' = MinedNonce
    BY DEF MinedNonce
  <2>2. \A b : Stays(b)' <=> Stays(b)
    BY DEF Stays, OnChain
  <2> QED
    BY <2>1, <2>2
<1>3. LookInv(task[w])'
  <2>1. LookInv(task[w])
    BY HasLook
  <2> QED
    BY <1>1, <1>2, <2>1 DEF LookInv
<1>4. NoncesMined'
  BY <1>2 DEF ConflictInv, NoncesMined
<1>5. BlocksStay'
  BY <1>2 DEF ConflictInv, BlocksStay, Clear
<1>6. PaysMost'
  <2>1. \A j \in Rows : outbox'[j].nonce = outbox[j].nonce /\ outbox'[j].fee = outbox[j].fee
    BY DEF TxOf
  <2> SUFFICES ASSUME NEW i \in Rows', Unfinished(i)', NEW j \in Rows', j # i,
                      outbox'[j].nonce = outbox'[i].nonce
               PROVE  outbox'[j].fee < outbox'[i].fee
    BY DEF PaysMost, GroupOf
  <2>2. CASE i = n
    BY <2>1, <2>2
  <2>3. CASE i \in Rows /\ j \in Rows
    BY <2>1, <2>3 DEF ConflictInv, PaysMost, GroupOf
  <2>4. CASE i \in Rows /\ j = n
    BY <2>1, <2>4
  <2> QED
    BY <2>2, <2>3, <2>4
<1> QED
  BY <1>1, <1>3, <1>4, <1>5, <1>6 DEF ConflictInv, NoFalseConflict

(* Nothing is stale on a chain that only grows.                            *)
LEMMA RewindKeepsConflict ==
    ASSUME Resumers = {}, Base, Base', ConflictInv, NEW w \in Workers, Rewind(w)
    PROVE  ConflictInv'
<1> DEFINE gone == {i \in Rows : outbox[i].block \in task[w].stale}
           t == [task[w] EXCEPT !.step = "waiting", !.stale = {}]
<1>1. /\ task[w].phase = "poll" /\ Becomes(w, t)
      /\ outbox' = [i \in Rows |-> IF i \in gone THEN ClearInclusion(outbox[i]) ELSE outbox[i]]
      /\ UNCHANGED <<chain, mempool, cause>>
  BY DEF Rewind, At, chainVars
<1>2. gone = {}
  BY HasLook DEF LookInv
<1> HIDE DEF gone
<1>3. Rows' = Rows
  <2>1. DOMAIN outbox' = 1..Len(outbox') /\ Len(outbox') \in Nat /\ Len(outbox) \in Nat
    BY LenProperties DEF Base, Typed
  <2>2. Len(outbox') = Len(outbox)
    BY <1>1, <2>1 DEF Rows
  <2> QED
    BY <2>2 DEF Rows
<1>4. \A i \in Rows : outbox'[i] = outbox[i]
  BY <1>1, <1>2
<1>5. /\ t.step \notin Held /\ t.stale = {} /\ t.bad # "nonce_conflict"
      /\ t.found = task[w].found /\ t.phase = "poll"
  BY <1>1, HasTask, HasLook DEF Task, Held
<1> HIDE DEF t
<1>6. /\ \A j \in Rows : TxOf(outbox'[j]) = TxOf(outbox[j])
      /\ \A j \in Rows : Unfinished(j)' => Unfinished(j)
      /\ \A j \in Rows : outbox'[j].block = outbox[j].block
  BY <1>4 DEF Unfinished
<1> QED
  BY <1>1, <1>3, <1>5, <1>6, ConflictEdits

LEMMA RecordInclusionKeepsConflict ==
    ASSUME Resumers = {}, Base, Base', ConflictInv, NEW w \in Workers, RecordInclusion(w)
    PROVE  ConflictInv'
<1> DEFINE i == task[w].row
           status == IF task[w].ok THEN "INCLUDED" ELSE "REVERTED"
           t == [task[w] EXCEPT !.step = "receipt", !.found = NoBlock,
                    !.ok = TRUE, !.row = 0, !.todo = @ \ GroupOf(i)]
<1>1. /\ task[w].phase = "poll" /\ task[w].step = "include" /\ Becomes(w, t)
      /\ outbox' = [j \in Rows |->
              CASE j = i -> [outbox[i] EXCEPT !.status = status, !.block = task[w].found]
                [] j \in Rivals(i) -> [outbox[j] EXCEPT !.status = "DROPPED"]
                [] OTHER -> outbox[j]]
      /\ UNCHANGED <<chain, mempool, cause>>
  BY DEF RecordInclusion, At, chainVars, runVars
<1>2. i \in Rows /\ task[w].found \in Block
  BY <1>1, HasTask DEF TaskInv, Held
<1>3. Stays(task[w].found)
  BY <1>2, NoBlockAssumption, HasLook DEF LookInv
<1>4. Rows' = Rows
  <2>1. DOMAIN outbox' = 1..Len(outbox') /\ Len(outbox') \in Nat /\ Len(outbox) \in Nat
    BY LenProperties DEF Base, Typed
  <2>2. Len(outbox') = Len(outbox)
    BY <1>1, <2>1 DEF Rows
  <2> QED
    BY <2>2 DEF Rows
<1>5. /\ t.step \notin Held /\ t.stale = {} /\ t.bad # "nonce_conflict"
      /\ t.found = NoBlock /\ t.phase = "poll"
  BY <1>1, HasTask, HasLook DEF Task, Held, LookInv
<1>6. status \in {"INCLUDED", "REVERTED"} /\ i \notin Rivals(i)
  BY DEF Rivals
<1> HIDE DEF t, i, status
<1>7. ASSUME NEW j \in Rows
      PROVE  /\ TxOf(outbox'[j]) = TxOf(outbox[j])
             /\ Unfinished(j)' => Unfinished(j)
             /\ outbox'[j].block = outbox[j].block \/ Stays(outbox'[j].block)
  <2>1. outbox[j] \in Row
    BY RowTyped DEF Base
  <2>2. CASE j = i
    <3>1. outbox'[j] = [outbox[j] EXCEPT !.status = status, !.block = task[w].found]
      BY <1>1, <1>6, <2>2
    <3>2. /\ TxOf(outbox'[j]) = TxOf(outbox[j]) /\ outbox'[j].block = task[w].found
          /\ outbox'[j].status = status
      BY <2>1, <3>1 DEF TxOf, Row
    <3> QED
      BY <1>3, <1>6, <3>2 DEF Unfinished
  <2>3. CASE j # i /\ j \in Rivals(i)
    <3>1. outbox'[j] = [outbox[j] EXCEPT !.status = "DROPPED"]
      BY <1>1, <2>3
    <3> QED
      BY <2>1, <3>1 DEF TxOf, Row, Unfinished
  <2>4. CASE j # i /\ j \notin Rivals(i)
    <3>1. outbox'[j] = outbox[j]
      BY <1>1, <2>4
    <3> QED
      BY <3>1 DEF Unfinished
  <2> QED
    BY <2>2, <2>3, <2>4
<1> QED
  BY <1>1, <1>4, <1>5, <1>7, ConflictEdits

LEMMA UpdateDepthKeepsConflict ==
    ASSUME Resumers = {}, Base, Base', ConflictInv, NEW w \in Workers, UpdateDepth(w)
    PROVE  ConflictInv'
<1> DEFINE now(i) == AtDepth(outbox[i], task[w].head, task[w].final)
           t == [task[w] EXCEPT !.phase = "replace", !.step = "list"]
<1>1. /\ task[w].todo = {} /\ Becomes(w, t)
      /\ outbox' = [i \in Rows |-> [outbox[i] EXCEPT !.status = now(i)]]
      /\ UNCHANGED <<chain, mempool, cause>>
  BY DEF UpdateDepth, Phase, chainVars, runVars
<1>2. Rows' = Rows
  <2>1. DOMAIN outbox' = 1..Len(outbox') /\ Len(outbox') \in Nat /\ Len(outbox) \in Nat
    BY LenProperties DEF Base, Typed
  <2>2. Len(outbox') = Len(outbox)
    BY <1>1, <2>1 DEF Rows
  <2> QED
    BY <2>2 DEF Rows
<1>3. \A i \in Rows : now(i) = outbox[i].status \/ now(i) \in {"CONFIRMED", "FINALIZED"}
  BY RowTyped, DepthStatus DEF Base
<1>4. /\ t.step \notin Held /\ t.stale = {} /\ t.bad # "nonce_conflict"
      /\ t.found = task[w].found /\ t.phase = "replace" /\ t.todo = {}
  BY <1>1, HasTask, HasLook DEF Task, Held, LookInv
<1> HIDE DEF now, t
<1>5. ASSUME NEW j \in Rows
      PROVE  /\ TxOf(outbox'[j]) = TxOf(outbox[j])
             /\ Unfinished(j)' => Unfinished(j)
             /\ outbox'[j].block = outbox[j].block
  <2>1. outbox[j] \in Row /\ outbox'[j] = [outbox[j] EXCEPT !.status = now(j)]
    BY <1>1, RowTyped DEF Base
  <2>2. /\ TxOf(outbox'[j]) = TxOf(outbox[j]) /\ outbox'[j].block = outbox[j].block
        /\ outbox'[j].status = now(j)
    BY <2>1 DEF TxOf, Row
  <2> QED
    BY <1>3, <2>2 DEF Unfinished
<1> QED
  BY <1>1, <1>2, <1>4, <1>5, ConflictEdits

(* The transaction that took the nonce is one of the outbox, and not this  *)
(* row's.                                                                  *)
LEMMA SiblingTookIt ==
    ASSUME Base, ConflictInv, NEW w \in Workers,
           task[w].phase = "reconcile", task[w].step = "siblings"
    PROVE  TakenBySibling(task[w].row)
<1> DEFINE i == task[w].row
<1>1. i \in Rows /\ Unseen(i) /\ MinedNonce > outbox[i].nonce
  BY HasTask, HasLook DEF LookInv, TaskInv, Held
<1>2. outbox[i].nonce \in Nat /\ MinedNonce \in Nat
  BY <1>1, RowTyped, MinedIsNat DEF Base, Typed
<1>3. outbox[i].nonce \in 0..(MinedNonce - 1)
  BY <1>1, <1>2
<1>4. PICK h \in 1..Len(chain) : chain[h].tx # NoTx /\ chain[h].tx.nonce = outbox[i].nonce
  BY <1>3 DEF ConflictInv, NoncesMined
<1>5. PICK j \in Rows : chain[h].tx = TxOf(outbox[j])
  BY <1>4 DEF Base, PoolInv, Relayed
<1>6. h \in Mined(TxOf(outbox[j])) /\ outbox[j].nonce = outbox[i].nonce
  BY <1>4, <1>5 DEF Mined, TxOf
<1>7. j # i
  BY <1>1, <1>6 DEF Unseen
<1> HIDE DEF i
<1>8. TakenBySibling(i)
  BY <1>6, <1>7 DEF TakenBySibling, GroupOf
<1> QED
  BY <1>8 DEF i

LEMMA NonceConsumedKeepsConflict ==
    ASSUME Resumers = {}, Base, Base', ConflictInv, NEW w \in Workers, NonceConsumed(w)
    PROVE  ConflictInv'
<1> DEFINE i == task[w].row
           t == [task[w] EXCEPT !.step = "receipt", !.row = 0]
<1>1. task[w].phase = "reconcile" /\ task[w].step = "siblings"
      /\ UNCHANGED <<chain, mempool, cause>>
  BY DEF NonceConsumed, At, chainVars, runVars
<1>2. outbox' = [outbox EXCEPT ![i].status = "DROPPED"] /\ Becomes(w, t)
  BY <1>1, SiblingTookIt DEF NonceConsumed, Done
<1>3. /\ i \in Rows /\ i \notin task[w].todo /\ task[w].todo \subseteq Rows
      /\ \A j \in task[w].todo : Unfinished(j)
  BY <1>1, HasTask, HasLook DEF TaskInv, LookInv, Held
<1>4. Len(outbox) \in Nat /\ outbox \in [Rows -> Row]
  BY LenProperties DEF Base, Typed, Rows
<1>5. Rows' = Rows
  <2>1. DOMAIN outbox' = 1..Len(outbox') /\ Len(outbox') \in Nat
    BY LenProperties DEF Base, Typed
  <2>2. Len(outbox') = Len(outbox)
    BY <1>2, <1>4, <2>1 DEF Rows
  <2> QED
    BY <2>2 DEF Rows
<1>6. /\ t.step \notin Held /\ t.stale = {} /\ t.bad # "nonce_conflict"
      /\ t.found = task[w].found /\ t.phase = "reconcile" /\ t.todo = task[w].todo
  BY <1>1, HasTask, HasLook DEF Task, Held, LookInv
<1> HIDE DEF t, i
<1>7. ASSUME NEW j \in Rows
      PROVE  /\ TxOf(outbox'[j]) = TxOf(outbox[j])
             /\ Unfinished(j)' => Unfinished(j)
             /\ outbox'[j].block = outbox[j].block
             /\ j # i => outbox'[j] = outbox[j]
  <2>1. CASE j = i
    <3>1. outbox'[j] = [outbox[j] EXCEPT !.status = "DROPPED"] /\ outbox[j] \in Row
      BY <1>2, <1>4, <2>1
    <3> QED
      BY <2>1, <3>1 DEF TxOf, Row, Unfinished
  <2>2. CASE j # i
    <3>1. outbox'[j] = outbox[j]
      BY <1>2, <1>4, <2>2
    <3> QED
      BY <2>2, <3>1 DEF Unfinished
  <2> QED
    BY <2>1, <2>2
<1>8. \A j \in t.todo : Unfinished(j)'
  BY <1>3, <1>6, <1>7 DEF Unfinished
<1> QED
  BY <1>1, <1>2, <1>5, <1>6, <1>7, <1>8, ConflictEdits

LEMMA ReplaceKeepsConflict ==
    ASSUME Resumers = {}, Base, Base', ConflictInv, NEW w \in Workers, Replace(w)
    PROVE  ConflictInv'
<1> SUFFICES ASSUME NEW n, n = Len(outbox) + 1
             PROVE  ConflictInv'
  OBVIOUS
<1> DEFINE i == task[w].row
           r == Taken(w)
           new == NewRow(r.action, r.nonce, r.fee + 1)
           old == [outbox EXCEPT ![i].status = "REPLACED"]
           t == [task[w] EXCEPT !.step = "send", !.row = n]
<1>1. /\ task[w].phase = "replace" /\ task[w].step = "swap" /\ Becomes(w, t)
      /\ outbox' = Append(old, new) /\ UNCHANGED <<chain, mempool, cause>>
  BY DEF Replace, At, chainVars, runVars
<1>2. /\ i \in Rows /\ i \notin task[w].todo /\ Unfinished(i)
      /\ task[w].todo \subseteq Rows /\ \A j \in task[w].todo : Unfinished(j)
  BY <1>1, HasTask, HasLook DEF TaskInv, LookInv, Held
<1>3. Len(outbox) \in Nat /\ outbox \in [Rows -> Row] /\ outbox \in Seq(Row)
  BY LenProperties DEF Base, Typed, Rows
<1>4. r \in Row /\ r = outbox[i]
  BY <1>2, RowTyped DEF Base, Taken
<1>5. Len(old) = Len(outbox) /\ DOMAIN old = Rows
  <2>1. DOMAIN old = 1..Len(outbox)
    BY <1>3 DEF Rows
  <2>2. old \in Seq(Row)
    <3>1. [outbox[i] EXCEPT !.status = "REPLACED"] \in Row
      BY <1>2, RowTyped DEF Base, Row, Statuses
    <3>2. old \in [1..Len(outbox) -> Row]
      BY <1>2, <1>3, <3>1 DEF Rows
    <3> HIDE DEF old
    <3> QED
      BY <1>3, <3>2, AsSeq
  <2> HIDE DEF old
  <2>3. DOMAIN old = 1..Len(old) /\ Len(old) \in Nat
    BY <2>2, LenProperties
  <2> QED
    BY <1>3, <2>1, <2>3 DEF Rows
<1>6. /\ Len(outbox') = Len(outbox) + 1 /\ outbox'[n] = new
      /\ \A j \in Rows : outbox'[j] = old[j]
  <2>1. DOMAIN outbox' = 1..(Len(outbox) + 1)
    BY <1>1, <1>3, <1>5
  <2>2. DOMAIN outbox' = 1..Len(outbox') /\ Len(outbox') \in Nat
    BY LenProperties DEF Base, Typed
  <2> QED
    BY <1>1, <1>3, <1>5, <2>1, <2>2 DEF Rows
<1>7. Rows' = Rows \cup {n} /\ n \notin Rows
  BY <1>3, <1>6 DEF Rows
<1>8. /\ new.status = "PENDING" /\ new.block = NoBlock
      /\ new.nonce = outbox[i].nonce /\ new.fee = outbox[i].fee + 1
  BY <1>4 DEF NewRow
<1>9. /\ t.step = "send" /\ t.row = n /\ t.phase = "replace" /\ t.todo = task[w].todo
      /\ t.stale = task[w].stale /\ t.bad = task[w].bad /\ t.found = task[w].found
  BY <1>1, HasTask DEF Task
<1>10. ASSUME NEW j \in Rows
       PROVE  /\ outbox[j] \in Row /\ (j # i => outbox'[j] = outbox[j])
              /\ j = i => outbox'[j] = [outbox[j] EXCEPT !.status = "REPLACED"]
  BY <1>3, <1>6
<1> HIDE DEF i, r, new, old, t
<1>11. ASSUME NEW j \in Rows
       PROVE  /\ TxOf(outbox'[j]) = TxOf(outbox[j])
              /\ Unfinished(j)' => Unfinished(j) /\ j # i
              /\ j # i => (Unfinished(j)' <=> Unfinished(j))
              /\ outbox'[j].block = outbox[j].block
  <2>1. CASE j = i
    BY <1>10, <2>1 DEF TxOf, Row, Unfinished
  <2>2. CASE j # i
    BY <1>10, <2>2 DEF Unfinished
  <2> QED
    BY <2>1, <2>2
<1>12. ASSUME NEW j \in Rows, outbox[j].nonce = outbox'[n].nonce
       PROVE  ~Unfinished(j)' /\ outbox[j].fee < outbox'[n].fee
  <2>1. outbox[j].fee \in Nat /\ outbox[i].fee \in Nat /\ outbox'[n].fee = outbox[i].fee + 1
    <3>1. outbox[j] \in Row /\ outbox[i] \in Row
      BY <1>2, <1>10
    <3>2. outbox[j].fee \in Nat /\ outbox[i].fee \in Nat
      BY <3>1, OutboxAssumption DEF Row
    <3> QED
      BY <3>2, <1>6, <1>8
  <2>2. CASE j = i
    BY <1>11, <2>1, <2>2
  <2>3. CASE j # i
    <3>1. j \in GroupOf(i) \ {i} /\ i \in GroupOf(j) \ {j}
      BY <1>2, <1>6, <1>8, <1>12, <2>3 DEF GroupOf
    <3>2. outbox[j].fee < outbox[i].fee
      BY <1>2, <3>1 DEF ConflictInv, PaysMost
    <3>3. ~Unfinished(j)
      <4>1. Unfinished(j) => outbox[i].fee < outbox[j].fee
        BY <3>1 DEF ConflictInv, PaysMost
      <4> QED
        BY <2>1, <3>2, <4>1
    <3> QED
      BY <1>11, <2>1, <3>2, <3>3
  <2> QED
    BY <2>2, <2>3
<1>13. Unfinished(n)' /\ Clear(n)'
  BY <1>6, <1>8 DEF Unfinished, Clear
<1>14. t.todo \subseteq Rows /\ \A j \in t.todo : Unfinished(j)'
  <2>1. t.todo \subseteq Rows
    BY <1>2, <1>9
  <2>2. ASSUME NEW j \in t.todo
        PROVE  Unfinished(j)'
    <3>1. j \in Rows /\ j # i /\ Unfinished(j)
      BY <1>2, <1>9
    <3> QED
      BY <1>11, <3>1
  <2> QED
    BY <2>1, <2>2
<1> QED
  BY <1>1, <1>7, <1>9, <1>11, <1>12, <1>13, <1>14, ConflictAppends

LEMMA PersistKeepsConflict ==
    ASSUME Resumers = {}, Base, Base', ConflictInv, NEW w \in Workers, Persist(w)
    PROVE  ConflictInv'
<1> SUFFICES ASSUME NEW n, n = Len(outbox) + 1
             PROVE  ConflictInv'
  OBVIOUS
<1> DEFINE new == NewRow(Newest, TakeNonce(task[w].nonce), 1)
           t == [task[w] EXCEPT !.step = "send", !.nonce = 0, !.row = n]
<1>1. /\ task[w].phase = "submit" /\ task[w].step = "persist" /\ Becomes(w, t)
      /\ outbox' = Append(outbox, new) /\ UNCHANGED <<chain, mempool, cause>>
  BY DEF Persist, At, chainVars, runVars
<1>2. /\ Len(outbox) \in Nat /\ Len(outbox') = Len(outbox) + 1 /\ outbox'[n] = new
      /\ \A j \in Rows : outbox'[j] = outbox[j]
  <2>1. Len(outbox) \in Nat /\ DOMAIN outbox = 1..Len(outbox)
    BY LenProperties DEF Base, Typed
  <2>2. Len(outbox') \in Nat /\ DOMAIN outbox' = 1..Len(outbox')
    BY LenProperties DEF Base, Typed
  <2>3. DOMAIN outbox' = 1..(Len(outbox) + 1)
    BY <1>1, <2>1 DEF Base, Typed
  <2> HIDE DEF new
  <2> QED
    BY <1>1, <2>1, <2>2, <2>3 DEF Base, Typed, Rows
<1>3. Rows' = Rows \cup {n} /\ n \notin Rows
  BY <1>2 DEF Rows
<1>4. /\ new.status = "PENDING" /\ new.block = NoBlock
      /\ new.nonce = TakeNonce(task[w].nonce)
  BY DEF NewRow
<1>5. TakeNonce(task[w].nonce) \in Nat /\ next <= TakeNonce(task[w].nonce) /\ next \in Nat
  BY TakesANewNonce, HasTask DEF Base, Typed, Task
<1>6. \A j \in Rows : outbox[j].nonce # outbox'[n].nonce
  <2>1. \A j \in Rows : outbox[j].nonce < next /\ outbox[j].nonce \in Nat
    BY RowTyped DEF Base, KeysInv
  <2> HIDE DEF new
  <2> QED
    BY <1>2, <1>4, <1>5, <2>1
<1>7. /\ t.step = "send" /\ t.row = n /\ t.phase = "submit" /\ t.todo \subseteq Rows
      /\ t.stale = task[w].stale /\ t.bad = task[w].bad /\ t.found = task[w].found
  BY <1>1, HasTask DEF Task, TaskInv
<1> HIDE DEF new, t
<1>8. Unfinished(n)' /\ Clear(n)'
  BY <1>2, <1>4 DEF Unfinished, Clear
<1>9. /\ \A j \in Rows : TxOf(outbox'[j]) = TxOf(outbox[j])
      /\ \A j \in Rows : Unfinished(j)' => Unfinished(j)
      /\ \A j \in Rows : outbox'[j].block = outbox[j].block
  BY <1>2 DEF Unfinished
<1> QED
  BY <1>1, <1>3, <1>6, <1>7, <1>8, <1>9, ConflictAppends

LEMMA RecordSendKeepsConflict ==
    ASSUME Resumers = {}, Base, Base', ConflictInv, NEW w \in Workers, RecordSend(w)
    PROVE  ConflictInv'
<1> DEFINE i == task[w].row
           sent == task[w].answer = "accepted"
<1>1. /\ task[w].step = "record" /\ task[w].phase \in {"submit", "replace", "reconcile"}
      /\ outbox' = [outbox EXCEPT ![i].tried = TRUE,
              ![i].status = IF sent THEN "SUBMITTED" ELSE @,
              ![i].since = IF sent /\ @ = NoBlock THEN task[w].head ELSE @]
      /\ UNCHANGED <<chain, mempool, cause>>
  BY DEF RecordSend, RecordSteps, chainVars, runVars
<1>2. /\ i \in Rows /\ Unfinished(i) /\ task[w].todo \subseteq Rows
      /\ task[w] \in Task /\ LookInv(task[w])
  BY <1>1, HasTask, HasLook DEF TaskInv, LookInv, Held
<1>3. Len(outbox) \in Nat /\ outbox \in [Rows -> Row]
  BY LenProperties DEF Base, Typed, Rows
<1>4. Rows' = Rows
  <2>1. DOMAIN outbox' = 1..Len(outbox') /\ Len(outbox') \in Nat
    BY LenProperties DEF Base, Typed
  <2>2. Len(outbox') = Len(outbox)
    BY <1>1, <1>3, <2>1 DEF Rows
  <2> QED
    BY <2>2 DEF Rows
<1>5. ASSUME NEW j \in Rows
      PROVE  /\ TxOf(outbox'[j]) = TxOf(outbox[j])
             /\ Unfinished(j)' <=> Unfinished(j)
             /\ outbox'[j].block = outbox[j].block
  <2>1. CASE j = i
    <3>1. outbox[j] \in Row /\ outbox'[j] = [outbox[j] EXCEPT !.tried = TRUE,
              !.status = IF sent THEN "SUBMITTED" ELSE @,
              !.since = IF sent /\ @ = NoBlock THEN task[w].head ELSE @]
      BY <1>1, <1>3, <2>1
    <3>2. /\ TxOf(outbox'[j]) = TxOf(outbox[j]) /\ outbox'[j].block = outbox[j].block
          /\ outbox'[j].status \in {outbox[j].status, "SUBMITTED"}
      BY <3>1 DEF TxOf, Row
    <3> QED
      BY <1>2, <2>1, <3>2 DEF Unfinished
  <2>2. CASE j # i
    <3>1. outbox'[j] = outbox[j]
      BY <1>1, <1>3, <2>2
    <3> QED
      BY <3>1 DEF Unfinished
  <2> QED
    BY <2>1, <2>2
<1>6. PICK t : /\ Becomes(w, t) /\ t.step \notin Held /\ t.stale = {}
               /\ t.bad # "nonce_conflict" /\ t.found \in {task[w].found, NoBlock}
               /\ t.phase # "resend" /\ t.todo \subseteq Rows
               /\ t.phase \in {"replace", "reconcile"} => \A j \in t.todo : Unfinished(j)
  <2>1. CASE task[w].phase = "submit"
    <3>1. Becomes(w, Quiet)
      BY <2>1 DEF RecordSend, Ends
    <3> QED
      BY <3>1 DEF Quiet, Held
  <2>2. CASE task[w].phase = "replace"
    <3> DEFINE t == [task[w] EXCEPT !.step = "receipt", !.row = 0,
                        !.answer = "none", !.head = 0]
    <3>1. Becomes(w, t)
      BY <2>2 DEF RecordSend
    <3>2. /\ t.step = "receipt" /\ t.stale = task[w].stale /\ t.bad = task[w].bad
          /\ t.found = task[w].found /\ t.phase = "replace" /\ t.todo = task[w].todo
      BY <1>2, <2>2 DEF Task
    <3> HIDE DEF t
    <3> QED
      BY <1>2, <2>2, <3>1, <3>2 DEF LookInv, Held
  <2>3. CASE task[w].phase = "reconcile"
    <3> DEFINE t == [task[w] EXCEPT !.step = "receipt", !.row = 0,
                        !.answer = "none", !.head = 0,
                        !.bad = IF @ # "none" \/ sent THEN @ ELSE task[w].answer]
    <3>1. Becomes(w, t)
      BY <2>3 DEF RecordSend
    <3>2. /\ t.step = "receipt" /\ t.stale = task[w].stale
          /\ t.bad \in {task[w].bad, task[w].answer}
          /\ t.found = task[w].found /\ t.phase = "reconcile" /\ t.todo = task[w].todo
      BY <1>2, <2>3 DEF Task
    <3>3. task[w].answer # "nonce_conflict"
      BY <1>2 DEF Task, Answers
    <3> HIDE DEF t
    <3> QED
      BY <1>2, <2>3, <3>1, <3>2, <3>3 DEF LookInv, Held
  <2> QED
    BY <1>1, <2>1, <2>2, <2>3
<1> HIDE DEF i, sent
<1>7. t.phase \in {"replace", "reconcile"} => \A j \in t.todo : Unfinished(j)'
  BY <1>5, <1>6
<1> QED
  BY <1>1, <1>4, <1>5, <1>6, <1>7, ConflictEdits

(* What a task sends it was waiting for, and looks for no longer.          *)
LEMMA SendKeepsConflict ==
    ASSUME Resumers = {}, Base, ConflictInv, NEW w \in Workers, Send(w)
    PROVE  ConflictInv'
<1>1. PICK answer : Becomes(w, [task[w] EXCEPT !.step = "record", !.answer = answer,
                                               !.head = Len(chain)])
  BY DEF Send
<1> DEFINE t == [task[w] EXCEPT !.step = "record", !.answer = answer, !.head = Len(chain)]
<1>2. /\ task[w].step = "send" /\ task[w].phase \in {"submit", "replace", "reconcile"}
      /\ UNCHANGED <<chain, outbox, cause>>
  BY DEF Send, SendSteps, rowVars, runVars
<1>3. Becomes(w, t)
  BY <1>1
<1>4. LookInv(t)
  BY <1>2, HasTask, HasLook DEF LookInv, Task, Held
<1>5. t.step = "record"
  BY HasTask DEF Task
<1> HIDE DEF t
<1>6. task'[w] = t /\ Workers = {w}
  BY <1>3, Alone DEF Becomes, Base, Typed
<1>7. MinedNonce' = MinedNonce /\ Rows' = Rows /\ \A b : Stays(b)' <=> Stays(b)
  <2>1. MinedNonce' = MinedNonce /\ Rows' = Rows
    BY <1>2 DEF MinedNonce, Rows
  <2>2. \A b : Stays(b)' <=> Stays(b)
    BY <1>2 DEF Stays, OnChain
  <2> QED
    BY <2>1, <2>2
<1>8. LookInv(task[w])'
  BY <1>2, <1>4, <1>5, <1>6, <1>7 DEF LookInv, Unfinished
<1>9. NoncesMined' /\ BlocksStay' /\ PaysMost'
  BY <1>2, <1>7 DEF ConflictInv, NoncesMined, BlocksStay, PaysMost, Clear, Unfinished, GroupOf
<1> QED
  BY <1>2, <1>6, <1>8, <1>9 DEF ConflictInv, NoFalseConflict

-----------------------------------------------------------------------------
(* The chain, growing *)

Grows ==
    /\ Len(chain) <= Len(chain')
    /\ \A h \in 1..Len(chain) : chain'[h] = chain[h]

LEMMA ConflictGrows ==
    ASSUME Base, Base', ConflictInv, Grows, NoncesMined', MinedNonce' \in Nat,
           MinedNonce <= MinedNonce',
           \A i \in Rows : Unseen(i) => Unseen(i)',
           UNCHANGED <<outbox, task, cause>>
    PROVE  ConflictInv'
<1>1. Rows' = Rows /\ Len(chain) \in Nat /\ Len(chain') \in Nat
  BY LenProperties DEF Rows, Base, Typed
<1>2. \A b \in Block : Stays(b) => Stays(b)'
  <2> SUFFICES ASSUME NEW b \in Block, Stays(b)
               PROVE  Stays(b)'
    OBVIOUS
  <2>1. b.height \in 1..Len(chain) /\ chain[b.height].hash = b.hash
    BY <1>1 DEF Stays, OnChain, Block
  <2>2. b.height \in 1..Len(chain') /\ chain'[b.height].hash = b.hash
    BY <1>1, <2>1 DEF Grows
  <2> QED
    BY <1>1, <2>1, <2>2 DEF Stays, OnChain
<1>3. BlocksStay'
  <2>1. \A i \in Rows : ~Clear(i) => outbox[i].block \in Block
    BY Blocked DEF Base
  <2> QED
    BY <1>1, <1>2, <2>1 DEF ConflictInv, BlocksStay, Clear
<1>4. PaysMost'
  BY <1>1 DEF ConflictInv, PaysMost, Unfinished, GroupOf
<1>5. ASSUME NEW w \in Workers
      PROVE  LookInv(task[w])'
  <2> DEFINE t == task[w]
  <2>1. /\ t.found # NoBlock => t.found \in Block
        /\ t.step \in {"nonce", "siblings"} => t.row \in Rows /\ outbox[t.row].nonce \in Nat
    BY HasTask, RowTyped DEF Task, TaskInv, Held, Base
  <2>2. LookInv(t) /\ task'[w] = t
    <3>1. LookInv(t)
      BY HasLook
    <3>2. task'[w] = t
      OBVIOUS
    <3> QED
      BY <3>1, <3>2
  <2>3. MinedNonce \in Nat /\ MinedNonce' \in Nat
    BY MinedIsNat DEF Base, Typed
  <2>4. t.phase = "reconcile" /\ t.step = "siblings" => MinedNonce' > outbox[t.row].nonce
    BY <2>1, <2>2, <2>3 DEF LookInv
  <2> HIDE DEF t
  <2> QED
    BY <1>2, <2>1, <2>2, <2>4 DEF LookInv, Unfinished
<1> QED
  BY <1>3, <1>4, <1>5 DEF ConflictInv, NoFalseConflict

LEMMA MinesKeepConflict ==
    ASSUME Base, Base', ConflictInv, NEW tx \in Tx \cup {NoTx}, NEW ok \in BOOLEAN,
           Mine(tx, ok), tx # NoTx => (tx \in mempool /\ tx.nonce = MinedNonce),
           mempool' \subseteq mempool, UNCHANGED <<outbox, task, cause>>
    PROVE  ConflictInv'
<1>1. /\ chain' \in Seq(ChainBlock) /\ Len(chain') = Len(chain) + 1
      /\ \A h \in 1..Len(chain) : chain'[h] = chain[h]
      /\ chain'[Len(chain) + 1].tx = tx
  BY MinedBlock DEF Base
<1>2. Len(chain) \in Nat
  BY LenProperties DEF Base, Typed
<1>3. 1..Len(chain') = (1..Len(chain)) \cup {Len(chain) + 1} /\ Len(chain) + 1 \notin 1..Len(chain)
  BY <1>1, <1>2
<1>4. Grows
  BY <1>1, <1>2 DEF Grows
<1> DEFINE S == {h \in 1..Len(chain) : chain[h].tx # NoTx}
           T == {h \in 1..Len(chain') : chain'[h].tx # NoTx}
<1>5. IsFiniteSet(S) /\ MinedNonce \in Nat /\ MinedNonce = Cardinality(S)
      /\ MinedNonce' = Cardinality(T)
  BY MinedIsNat DEF Base, Typed, MinedNonce
<1>6. T = IF tx = NoTx THEN S ELSE S \cup {Len(chain) + 1}
  BY <1>1, <1>3
<1>7. Len(chain) + 1 \notin S
  BY <1>3
<1> HIDE DEF S, T
<1>8. MinedNonce' = IF tx = NoTx THEN MinedNonce ELSE MinedNonce + 1
  BY <1>5, <1>6, <1>7, FS_AddElement
<1>9. NoncesMined'
  <2> SUFFICES ASSUME NEW n \in 0..(MinedNonce' - 1)
               PROVE  \E h \in 1..Len(chain') : chain'[h].tx # NoTx /\ chain'[h].tx.nonce = n
    BY DEF NoncesMined
  <2>1. CASE n \in 0..(MinedNonce - 1)
    <3>1. PICK h \in 1..Len(chain) : chain[h].tx # NoTx /\ chain[h].tx.nonce = n
      BY <2>1 DEF ConflictInv, NoncesMined
    <3> QED
      BY <1>1, <1>3, <3>1
  <2>2. CASE n \notin 0..(MinedNonce - 1)
    <3>1. tx # NoTx /\ n = MinedNonce
      BY <1>5, <1>8, <2>2
    <3> QED
      BY <1>1, <1>3, <3>1
  <2> QED
    BY <2>1, <2>2
<1>10. ASSUME NEW i \in Rows, Unseen(i)
       PROVE  Unseen(i)'
  <2>1. TxOf(outbox[i]) \in Tx /\ TxOf(outbox'[i]) = TxOf(outbox[i])
    BY RowTyped DEF Base
  <2>2. tx # TxOf(outbox[i])
    BY <1>10, <2>1, NoBlockAssumption DEF Unseen
  <2>3. \A h \in 1..Len(chain') : chain'[h].tx # TxOf(outbox[i])
    BY <1>1, <1>3, <1>10, <2>2 DEF Unseen, Mined
  <2> QED
    BY <1>10, <2>1, <2>3 DEF Unseen, Mined
<1>11. MinedNonce' \in Nat /\ MinedNonce <= MinedNonce'
  BY <1>5, <1>8
<1> QED
  BY <1>4, <1>9, <1>10, <1>11, ConflictGrows

LEMMA ChainKeepsConflict ==
    ASSUME "reorg" \notin Faults, Base, Base', ConflictInv, ChainStep
    PROVE  ConflictInv'
<1>1. ASSUME NEW tx \in mempool, MineTx(tx)
      PROVE  ConflictInv'
  <2>1. PICK ok \in BOOLEAN : Mine(tx, ok)
    BY <1>1 DEF MineTx
  <2>2. /\ tx \in Tx \cup {NoTx} /\ tx.nonce = MinedNonce
        /\ mempool' \subseteq mempool /\ UNCHANGED <<outbox, task, cause>>
    BY <1>1 DEF MineTx, Base, Typed, rowVars, runVars
  <2> QED
    BY <2>1, <2>2, MinesKeepConflict
<1>2. CASE MineEmpty
  <2>1. Mine(NoTx, TRUE) /\ mempool' \subseteq mempool /\ UNCHANGED <<outbox, task, cause>>
    BY <1>2 DEF MineEmpty, rowVars, runVars
  <2> QED
    BY <2>1, MinesKeepConflict
<1>3. ASSUME NEW tx \in mempool, Evict(tx)
      PROVE  ConflictInv'
  <2>1. UNCHANGED <<chain, outbox, task, cause>> /\ mempool' \subseteq mempool
    BY <1>3 DEF Evict, rowVars, runVars
  <2>2. MinedNonce' = MinedNonce /\ MinedNonce \in Nat
    BY <2>1, MinedIsNat DEF MinedNonce, Base, Typed
  <2>3. Grows
    BY <2>1, LenProperties DEF Grows, Base, Typed
  <2>4. NoncesMined'
    BY <2>1, <2>2 DEF NoncesMined, ConflictInv
  <2>5. \A i \in Rows : Unseen(i) => Unseen(i)'
    BY <2>1 DEF Unseen, Mined, TxOf
  <2>6. MinedNonce' \in Nat /\ MinedNonce <= MinedNonce'
    BY <2>2
  <2> QED
    BY <2>1, <2>3, <2>4, <2>5, <2>6, ConflictGrows
<1>4. CASE Finalize
  <2>1. UNCHANGED <<chain, mempool, outbox, task, cause>>
    BY <1>4 DEF Finalize, rowVars, runVars
  <2>2. MinedNonce' = MinedNonce /\ MinedNonce \in Nat
    BY <2>1, MinedIsNat DEF MinedNonce, Base, Typed
  <2>3. Grows
    BY <2>1, LenProperties DEF Grows, Base, Typed
  <2>4. NoncesMined'
    BY <2>1, <2>2 DEF NoncesMined, ConflictInv
  <2>5. \A i \in Rows : Unseen(i) => Unseen(i)'
    BY <2>1, SameChain
  <2>6. MinedNonce' \in Nat /\ MinedNonce <= MinedNonce'
    BY <2>2
  <2> QED
    BY <2>1, <2>3, <2>4, <2>5, <2>6, ConflictGrows
<1>5. ASSUME NEW k, Reorg(k)
      PROVE  FALSE
  BY <1>5 DEF Reorg, Fault
<1> QED
  BY <1>1, <1>2, <1>3, <1>4, <1>5 DEF ChainStep

LEMMA CrashKeepsConflict ==
    ASSUME Resumers = {}, Base, ConflictInv, Crash \/ Restart
    PROVE  ConflictInv'
<1>1. /\ Driver \in Workers /\ UNCHANGED <<chain, mempool, outbox, cause>>
      /\ cause' # "nonce_conflict"
  BY DEF Workers, Crash, Restart, chainVars, rowVars, runVars, ConflictInv, NoFalseConflict
<1>2. CASE Crash
  <2>1. Becomes(Driver, Quiet)
    <3>1. Workers = {Driver}
      BY Alone
    <3> QED
      BY <1>2, <3>1 DEF Crash, Becomes, Base, Typed
  <2> QED
    BY <1>1, <2>1, QuietLook, ConflictReads
<1>3. CASE Restart
  <2>1. CASE UNCHANGED task
    <3>1. Becomes(Driver, task[Driver])
      BY <2>1 DEF Becomes, Base, Typed
    <3> QED
      BY <1>1, <3>1, HasLook, ConflictReads
  <2>2. CASE Becomes(Driver, [Quiet EXCEPT !.kind = "restart",
                                 !.phase = "reconcile", !.step = "list"])
    <3> DEFINE t == [Quiet EXCEPT !.kind = "restart", !.phase = "reconcile", !.step = "list"]
    <3>1. Becomes(Driver, t)
      BY <2>2
    <3>2. LookInv(t)
      BY LookFree DEF Quiet, Held
    <3> HIDE DEF t
    <3> QED
      BY <1>1, <3>1, <3>2, ConflictReads
  <2> QED
    BY <1>3, <2>1, <2>2 DEF Restart
<1> QED
  BY <1>2, <1>3

LEMMA WorkKeepsConflict ==
    ASSUME Resumers = {}, Base, Base', ConflictInv, NEW w \in Workers, Work(w)
    PROVE  ConflictInv'
<1>1. CASE Poll(w)
  BY <1>1, BeginsKeepConflict, RewindKeepsConflict, RecordInclusionKeepsConflict,
     UpdateDepthKeepsConflict DEF Poll
<1>2. CASE ReplaceStuck(w)
  BY <1>2, StuckReadsKeepConflict, ReplaceKeepsConflict DEF ReplaceStuck
<1>3. CASE Synced(w) \/ Resend(w)
  BY <1>3, StuckReadsKeepConflict
<1>4. CASE Reconcile(w)
  BY <1>4, ReconcileReadsKeepConflict, NonceConsumedKeepsConflict, ReconciledKeepsConflict
     DEF Reconcile
<1>5. CASE Broadcast(w)
  BY <1>5, SendKeepsConflict, RecordSendKeepsConflict DEF Broadcast
<1>6. CASE Act(w)
  BY <1>6, ActReadsKeepConflict, PersistKeepsConflict DEF Act
<1> QED
  BY <1>1, <1>2, <1>3, <1>4, <1>5, <1>6 DEF Work

LEMMA ConflictStep ==
    ASSUME Resumers = {}, "reorg" \notin Faults, Base, Base', ConflictInv, [Next]_vars
    PROVE  ConflictInv'
<1>1. CASE ChainStep
  BY <1>1, ChainKeepsConflict
<1>2. ASSUME NEW w \in Workers, BeginTick(w) \/ BeginResume(w) \/ Work(w)
      PROVE  ConflictInv'
  BY <1>2, BeginsKeepConflict, WorkKeepsConflict
<1>3. ASSUME NEW w \in Workers, Unanswered(w) \/ Unreachable(w)
      PROVE  ConflictInv'
  BY <1>3, LostKeepsConflict
<1>4. CASE Crash \/ Restart
  BY <1>4, CrashKeepsConflict
<1>5. CASE UNCHANGED vars
  <2>1. UNCHANGED <<chain, mempool, outbox, cause, task>> /\ Driver \in Workers
    BY <1>5 DEF vars, chainVars, rowVars, runVars, Workers
  <2>2. Becomes(Driver, task[Driver])
    BY <2>1 DEF Becomes, Base, Typed
  <2>3. LookInv(task[Driver]) /\ cause' # "nonce_conflict"
    BY <2>1, HasLook
  <2> QED
    BY <2>1, <2>2, <2>3, ConflictReads
<1> QED
  BY <1>1, <1>2, <1>3, <1>4, <1>5 DEF Next

LEMMA InitConflict == Init => ConflictInv
<1> SUFFICES ASSUME Init PROVE ConflictInv
  OBVIOUS
<1>1. Rows = {} /\ Len(chain) = 0
  BY DEF Init, Rows
<1>2. MinedNonce = 0
  <2>1. {h \in 1..Len(chain) : chain[h].tx # NoTx} = {}
    BY <1>1
  <2> QED
    BY <2>1, FS_EmptySet DEF MinedNonce
<1>3. NoncesMined
  BY <1>2 DEF NoncesMined
<1>4. BlocksStay /\ PaysMost
  BY <1>1 DEF BlocksStay, PaysMost
<1>5. \A w \in Workers : LookInv(task[w])
  BY QuietLook DEF Init
<1> QED
  BY <1>3, <1>4, <1>5 DEF Init, ConflictInv, NoFalseConflict

(* While no resume request reconciles beside the driver, on a chain that   *)
(* is not reorganised, reconciliation never reports a nonce of the relay   *)
(* key as a foreign user's: whatever was lost, evicted, reverted or        *)
(* replaced, and wherever the process died, the transaction that took the  *)
(* nonce is found among the outbox's own (relay.py reconcile).             *)
THEOREM ConflictIsForeign ==
    ASSUME Resumers = {}, "reorg" \notin Faults
    PROVE  Spec => []NoFalseConflict
<1>1. Init => ConflictInv
  BY InitConflict
<1>2. ConflictInv /\ Base /\ Base' /\ [Next]_vars => ConflictInv'
  BY ConflictStep
<1>3. ConflictInv => NoFalseConflict
  BY DEF ConflictInv
<1> QED
  BY <1>1, <1>2, <1>3, OutboxTyped, PTL DEF Spec
=============================================================================
