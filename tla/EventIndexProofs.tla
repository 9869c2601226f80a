--------------------------- MODULE EventIndexProofs ---------------------------
(***************************************************************************)
(* Theorems about EventIndex, for any chain, threshold and chunk, any      *)
(* number of replaced blocks, failed polls and restarts, when a block is   *)
(* polled before it is final.                                              *)
(***************************************************************************)
EXTENDS EventIndex, SequenceTheorems, WellFoundedInduction, TLAPS

Hashes == Seq(Block)
Logs == [hash : Hashes, tx : Txs]
Rows == [hash : Hashes, tx : Txs, canonical : BOOLEAN, depth : Nat]
Balances == [hash : Hashes, canonical : BOOLEAN, of : Hashes]
Reading == {"receipts", "scanning"}
Holding == {"depth", "terminal", "block", "balances"}
Counters == {"idle", "finalized", "checking"} \cup Reading \cup Holding
Polls == [pc : Counters, began : Nat, head : Nat, fin : Nat,
          unchecked : SUBSET Hashes, stale : SUBSET Hashes, logs : SUBSET Logs,
          from : Nat, due : Hashes, read : Hashes]

TypeInv ==
    /\ chain \in Hashes
    /\ final \in Nat /\ final <= Len(chain)
    /\ rows \subseteq Rows
    /\ snaps \subseteq Balances
    /\ next \in Nat
    /\ poll \in Polls
    /\ last \in [head : Nat, began : Nat, terminal : Hashes]
    /\ reorgs \in Nat /\ faults \in Nat

-----------------------------------------------------------------------------
(* The chain has a hash when its block at that height is the hash's.       *)
Has(c, h) == Len(h) <= Len(c) /\ SubSeq(c, 1, Len(h)) = h

(* A log belongs to a block that holds its transaction.                    *)
Formed(l) == Len(l.hash) >= 1 /\ l.tx \in l.hash[Len(l.hash)].txs

(* The log of transaction t in the chain's block n is among the canonical  *)
(* rows, or among those a scan has read.                                   *)
Filed(rs, c, n, t) ==
    \E r \in rs : r.canonical /\ r.hash = SubSeq(c, 1, n) /\ r.tx = t
Scanned(ls, c, n, t) == \E l \in ls : l.hash = SubSeq(c, 1, n) /\ l.tx = t

(* Up to height m: what is canonical is on the chain, no hash of a set is, *)
(* what was scanned is, and every log of the chain is filed.               *)
Sound(xs, c, m) ==
    \A x \in xs : x.canonical /\ Len(x.hash) <= m => Has(c, x.hash)
Absent(hs, c, m) == \A h \in hs : Len(h) <= m => ~Has(c, h)
Present(ls, c, m) == \A l \in ls : Len(l.hash) <= m => Has(c, l.hash)
AllFiled(rs, c, m) ==
    \A n \in 1..m : \A t \in c[n].txs : Filed(rs, c, n, t)
Covered(rs, ls, c, m) ==
    \A n \in 1..m : \A t \in c[n].txs : Filed(rs, c, n, t) \/ Scanned(ls, c, n, t)
Sorted(xs, left, stale, c, m) ==
    \A x \in xs : x.canonical /\ Len(x.hash) <= m
                      => x.hash \in left \/ x.hash \in stale \/ Has(c, x.hash)

(* How far up the database has to be right: to the finalized head, and to  *)
(* the last complete poll's head if nothing replaced blocks since it began.*)
FirmTop == IF Steady /\ final < last.head THEN last.head ELSE final

(* How far up the poll in progress reads the blocks that are still there.  *)
FixedTop ==
    IF poll.began = reorgs /\ final < poll.head THEN poll.head ELSE final

Timely ==
    /\ last.began <= reorgs /\ FirmTop <= Len(chain)
    /\ poll.began <= reorgs /\ FixedTop <= Len(chain)
    /\ poll.pc = "idle" => poll = NoPoll
    /\ poll.pc # "idle" =>
         /\ last.began <= poll.began /\ FirmTop <= FixedTop
         /\ poll.fin <= final /\ final <= poll.head

AllFormed ==
    /\ \A r \in rows : Formed(r)
    /\ \A l \in poll.logs : Formed(l)

Exact ==
    /\ Sound(rows, chain, FirmTop) /\ Sound(snaps, chain, FirmTop)
    /\ AllFiled(rows, chain, FirmTop)

(* What the poll has established by the time it reaches each of its steps. *)
Checking ==
    /\ Absent(poll.stale, chain, FixedTop)
    /\ poll.pc = "checking" =>
         /\ Sorted(rows, poll.unchecked, poll.stale, chain, FixedTop)
         /\ Sorted(snaps, poll.unchecked, poll.stale, chain, FixedTop)

Scanning ==
    /\ Present(poll.logs, chain, FixedTop)
    /\ poll.pc \in Reading \cup Holding =>
         Sound(rows, chain, FixedTop) /\ Sound(snaps, chain, FixedTop)
    /\ poll.pc = "scanning" =>
         /\ poll.from >= 1
         /\ Covered(rows, poll.logs, chain, Min2(poll.from - 1, FixedTop))
    /\ poll.pc \in Holding => AllFiled(rows, chain, FixedTop)

(* A terminal event as a poll that read head reports it.                   *)
Deep(rs, hash, head) ==
    /\ Len(hash) + Threshold <= head + 1
    /\ \E r \in rs : r.canonical /\ r.hash = hash /\ r.tx = "end"
                        /\ r.depth >= Threshold

Reporting ==
    /\ poll.pc = "terminal" =>
         \A r \in rows : r.canonical /\ Len(r.hash) <= poll.head
                             => r.depth = poll.head + 1 - Len(r.hash)
    /\ poll.pc \in {"block", "balances"} => Deep(rows, poll.due, poll.head)
    /\ poll.pc = "balances" =>
         /\ Len(poll.read) <= FixedTop => Has(chain, poll.read)
         /\ poll.began = reorgs => poll.read = poll.due

IndexInv ==
    /\ TypeInv /\ Timely /\ AllFormed /\ Exact
    /\ Checking /\ Scanning /\ Reporting
    /\ TerminalBacked

-----------------------------------------------------------------------------
(* Chains and hashes.                                                      *)

Agree(c, d, m) ==
    m <= Len(c) /\ m <= Len(d) /\ \A i \in 1..m : c[i] = d[i]

LEMMA PrefixIs ==
    ASSUME NEW c \in Hashes, NEW n \in Nat, n <= Len(c)
    PROVE  /\ SubSeq(c, 1, n) \in Hashes
           /\ Len(SubSeq(c, 1, n)) = n
           /\ \A i \in 1..n : SubSeq(c, 1, n)[i] = c[i]
           /\ Has(c, SubSeq(c, 1, n))
<1>1. CASE n = 0
  <2>1. SubSeq(c, 1, n) = << >>
    BY <1>1, SubSeqProperties DEF Hashes
  <2> QED
    BY <1>1, <2>1 DEF Hashes, Has
<1>2. CASE n # 0
  <2>1. n \in 1..Len(c) /\ 1 \in 1..Len(c)
    BY <1>2, LenProperties DEF Hashes
  <2>2. /\ SubSeq(c, 1, n) \in Seq(Block)
        /\ Len(SubSeq(c, 1, n)) = n
        /\ \A i \in 1..n : SubSeq(c, 1, n)[i] = c[i]
    BY <2>1, SubSeqProperties DEF Hashes
  <2> QED
    BY <2>2 DEF Hashes, Has
<1> QED
  BY <1>1, <1>2

LEMMA AgreeOnPrefixes ==
    ASSUME NEW c \in Hashes, NEW d \in Hashes, NEW m \in Nat, Agree(c, d, m),
           NEW n \in Nat, n <= m
    PROVE  SubSeq(c, 1, n) = SubSeq(d, 1, n)
<1> DEFINE a == SubSeq(c, 1, n)
           b == SubSeq(d, 1, n)
<1>1. n <= Len(c) /\ n <= Len(d) /\ Len(c) \in Nat /\ Len(d) \in Nat
  BY LenProperties DEF Agree, Hashes
<1>2. a \in Seq(Block) /\ Len(a) = n /\ \A i \in 1..n : a[i] = c[i]
  BY <1>1, PrefixIs DEF Hashes
<1>3. b \in Seq(Block) /\ Len(b) = n /\ \A i \in 1..n : b[i] = d[i]
  BY <1>1, PrefixIs DEF Hashes
<1>4. \A i \in 1..n : c[i] = d[i]
  BY DEF Agree
<1> HIDE DEF a, b
<1>5. a = b
  BY <1>2, <1>3, <1>4, SeqEqual
<1> QED
  BY <1>5 DEF a, b

LEMMA AgreeOnHashes ==
    ASSUME NEW c \in Hashes, NEW d \in Hashes, NEW m \in Nat, Agree(c, d, m),
           NEW h \in Hashes, Len(h) <= m
    PROVE  Has(c, h) <=> Has(d, h)
<1>1. Len(h) \in Nat /\ Len(h) <= Len(c) /\ Len(h) <= Len(d)
        /\ Len(c) \in Nat /\ Len(d) \in Nat
  BY LenProperties DEF Agree, Hashes
<1> QED
  BY SMTT(40), <1>1, AgreeOnPrefixes DEF Has

(* What was said of one chain up to a height holds of another that has the *)
(* same blocks up to there.                                                *)
LEMMA AgreeKeeps ==
    ASSUME NEW c \in Hashes, NEW d \in Hashes, NEW m \in Nat, NEW k \in Nat,
           k <= m, Agree(c, d, k)
    PROVE  /\ \A xs : (\A x \in xs : x.hash \in Hashes) /\ Sound(xs, c, m)
                         => Sound(xs, d, k)
           /\ \A hs \in SUBSET Hashes : Absent(hs, c, m) => Absent(hs, d, k)
           /\ \A ls \in SUBSET Logs : Present(ls, c, m) => Present(ls, d, k)
           /\ \A rs : AllFiled(rs, c, m) => AllFiled(rs, d, k)
           /\ \A xs, left, stale :
                (\A x \in xs : x.hash \in Hashes) /\ Sorted(xs, left, stale, c, m)
                   => Sorted(xs, left, stale, d, k)
<1>1. \A h \in Hashes : Len(h) <= k => (Has(c, h) <=> Has(d, h)) /\ Len(h) <= m
  <2> TAKE h \in Hashes
  <2> HAVE Len(h) <= k
  <2>1. Len(h) \in Nat
    BY LenProperties DEF Hashes
  <2> QED
    BY <2>1, AgreeOnHashes
<1>2. \A n \in 1..k : /\ n \in 1..m /\ c[n] = d[n]
                      /\ SubSeq(c, 1, n) = SubSeq(d, 1, n)
  <2> TAKE n \in 1..k
  <2> QED
    BY AgreeOnPrefixes DEF Agree
<1>3. \A xs : (\A x \in xs : x.hash \in Hashes) /\ Sound(xs, c, m) => Sound(xs, d, k)
  BY <1>1 DEF Sound
<1>4. \A hs \in SUBSET Hashes : Absent(hs, c, m) => Absent(hs, d, k)
  BY <1>1 DEF Absent
<1>5. \A ls \in SUBSET Logs : Present(ls, c, m) => Present(ls, d, k)
  BY <1>1 DEF Present, Logs
<1>6. \A rs : AllFiled(rs, c, m) => AllFiled(rs, d, k)
  BY <1>2 DEF AllFiled, Filed
<1>7. \A xs, left, stale :
         (\A x \in xs : x.hash \in Hashes) /\ Sorted(xs, left, stale, c, m)
            => Sorted(xs, left, stale, d, k)
  BY <1>1 DEF Sorted
<1> QED
  BY <1>3, <1>4, <1>5, <1>6, <1>7

LEMMA CoveredKeeps ==
    ASSUME NEW c \in Hashes, NEW d \in Hashes, NEW k \in Nat, NEW m \in Nat,
           k <= m, Agree(c, d, k), NEW rs, NEW ls, Covered(rs, ls, c, m)
    PROVE  Covered(rs, ls, d, k)
<1>1. \A n \in 1..k : /\ n \in 1..m /\ c[n] = d[n]
                      /\ SubSeq(c, 1, n) = SubSeq(d, 1, n)
  <2> TAKE n \in 1..k
  <2> QED
    BY AgreeOnPrefixes DEF Agree
<1> SUFFICES ASSUME NEW n \in 1..k, NEW t \in d[n].txs
             PROVE  Filed(rs, d, n, t) \/ Scanned(ls, d, n, t)
  BY DEF Covered
<1>2. Filed(rs, c, n, t) \/ Scanned(ls, c, n, t)
  BY <1>1 DEF Covered
<1>3. SubSeq(c, 1, n) = SubSeq(d, 1, n)
  BY <1>1
<1> QED
  BY <1>2, <1>3 DEF Filed, Scanned

(* A chain agrees with itself.                                             *)
LEMMA AgreeItself ==
    ASSUME NEW c \in Hashes, NEW m \in Nat, m <= Len(c)
    PROVE  Agree(c, c, m)
BY DEF Agree

LEMMA Sized ==
    ASSUME TypeInv
    PROVE  /\ FirmTop \in Nat /\ FixedTop \in Nat /\ Len(chain) \in Nat
           /\ final <= FirmTop /\ final <= FixedTop
           /\ \A r \in rows : r.hash \in Hashes /\ Len(r.hash) \in Nat
           /\ \A x \in snaps : x.hash \in Hashes /\ Len(x.hash) \in Nat
           /\ \A l \in poll.logs : l.hash \in Hashes /\ Len(l.hash) \in Nat
<1>1. final \in Nat /\ poll.head \in Nat /\ last.head \in Nat
  BY DEF TypeInv, Polls
<1>2. \A h \in Hashes : Len(h) \in Nat
  BY LenProperties DEF Hashes
<1>3. \A r \in rows : r.hash \in Hashes
  BY DEF TypeInv, Rows
<1>4. \A x \in snaps : x.hash \in Hashes
  BY DEF TypeInv, Balances
<1>5. \A l \in poll.logs : l.hash \in Hashes
  <2>1. poll.logs \subseteq Logs
    BY DEF TypeInv, Polls
  <2> QED
    BY <2>1 DEF Logs
<1> QED
  BY <1>1, <1>2, <1>3, <1>4, <1>5 DEF FirmTop, FixedTop, TypeInv

LEMMA NoPollIs ==
    /\ NoPoll \in Polls
    /\ NoPoll.pc = "idle" /\ NoPoll.began = 0 /\ NoPoll.head = 0
    /\ NoPoll.stale = {} /\ NoPoll.logs = {}
<1>1. << >> \in Hashes
  BY EmptySeq DEF Hashes
<1> QED
  BY <1>1 DEF NoPoll, Polls, Counters, Reading, Holding

(* What a step that ends the poll leaves of it.                            *)
LEMMA IdleRests ==
    ASSUME poll' = NoPoll
    PROVE  Checking' /\ Scanning' /\ Reporting'
<1>1. /\ poll'.pc = "idle" /\ poll'.stale = {} /\ poll'.logs = {}
  BY NoPollIs
<1>2. Checking'
  BY <1>1 DEF Checking, Absent
<1>3. Scanning'
  BY <1>1 DEF Scanning, Present, Reading, Holding
<1>4. Reporting'
  BY <1>1 DEF Reporting
<1> QED
  BY <1>2, <1>3, <1>4

-----------------------------------------------------------------------------
(* The chain's steps: below what stays firm it keeps its blocks.           *)

LEMMA ChainMoves ==
    ASSUME IndexInv, chain' \in Hashes,
           UNCHANGED <<rows, snaps, next, poll, last>>,
           FirmTop' \in Nat, FirmTop' <= FirmTop,
           Agree(chain, chain', FirmTop'),
           FixedTop' \in Nat,
           poll.pc # "idle" => FixedTop' <= FixedTop /\ Agree(chain, chain', FixedTop'),
           Steady' => Steady, poll.began = reorgs' => poll.began = reorgs
    PROVE  /\ AllFormed' /\ Exact' /\ Checking' /\ Scanning' /\ Reporting'
           /\ TerminalBacked'
<1>1. /\ chain \in Hashes /\ FirmTop \in Nat /\ FixedTop \in Nat
      /\ \A r \in rows : r.hash \in Hashes
      /\ \A x \in snaps : x.hash \in Hashes
  BY Sized DEF IndexInv, TypeInv
<1>2. AllFormed'
  BY DEF IndexInv, AllFormed
<1>3. Exact'
  <2>1. /\ Sound(rows, chain, FirmTop) /\ Sound(snaps, chain, FirmTop)
        /\ AllFiled(rows, chain, FirmTop)
    BY DEF IndexInv, Exact
  <2>2. /\ Sound(rows, chain', FirmTop') /\ Sound(snaps, chain', FirmTop')
        /\ AllFiled(rows, chain', FirmTop')
    BY <1>1, <2>1, AgreeKeeps
  <2> QED
    BY <2>2 DEF Exact
<1>4. TerminalBacked'
  <2>1. TerminalBacked
    BY DEF IndexInv
  <2> QED
    BY <2>1 DEF TerminalBacked, Canonical, Kept
<1>5. CASE poll.pc = "idle"
  <2>1. poll' = NoPoll
    BY <1>5 DEF IndexInv, Timely
  <2> QED
    BY <1>2, <1>3, <1>4, <2>1, IdleRests
<1>6. CASE poll.pc # "idle"
  <2>1. /\ poll.stale \in SUBSET Hashes /\ poll.logs \in SUBSET Logs
        /\ poll.from \in Nat /\ poll.read \in Hashes
    BY DEF IndexInv, TypeInv, Polls
  <2>2. FixedTop' <= FixedTop /\ Agree(chain, chain', FixedTop')
    BY <1>6
  <2>3. Checking'
    <3>1. Absent(poll.stale, chain', FixedTop')
      BY <1>1, <2>1, <2>2, AgreeKeeps DEF IndexInv, Checking
    <3>2. ASSUME poll.pc = "checking"
          PROVE  /\ Sorted(rows, poll.unchecked, poll.stale, chain', FixedTop')
                 /\ Sorted(snaps, poll.unchecked, poll.stale, chain', FixedTop')
      <4>1. /\ Sorted(rows, poll.unchecked, poll.stale, chain, FixedTop)
            /\ Sorted(snaps, poll.unchecked, poll.stale, chain, FixedTop)
        BY <3>2 DEF IndexInv, Checking
      <4> QED
        BY <1>1, <2>2, <4>1, AgreeKeeps
    <3> QED
      BY <3>1, <3>2 DEF Checking
  <2>4. Scanning'
    <3>1. Present(poll.logs, chain', FixedTop')
      BY <1>1, <2>1, <2>2, AgreeKeeps DEF IndexInv, Scanning
    <3>2. ASSUME poll.pc \in Reading \cup Holding
          PROVE  Sound(rows, chain', FixedTop') /\ Sound(snaps, chain', FixedTop')
      <4>1. Sound(rows, chain, FixedTop) /\ Sound(snaps, chain, FixedTop)
        BY <3>2 DEF IndexInv, Scanning
      <4> QED
        BY <1>1, <2>2, <4>1, AgreeKeeps
    <3>3. ASSUME poll.pc = "scanning"
          PROVE  /\ poll.from >= 1
                 /\ Covered(rows, poll.logs, chain', Min2(poll.from - 1, FixedTop'))
      <4> DEFINE m == Min2(poll.from - 1, FixedTop)
                 k == Min2(poll.from - 1, FixedTop')
      <4>1. poll.from >= 1 /\ Covered(rows, poll.logs, chain, m)
        BY <3>3 DEF IndexInv, Scanning
      <4>2. m \in Nat /\ k \in Nat /\ k <= m /\ k <= FixedTop'
        BY <1>1, <2>1, <2>2, <4>1 DEF Min2
      <4>3. Agree(chain, chain', k)
        BY <1>1, <2>2, <4>2, LenProperties DEF Agree, Hashes
      <4> HIDE DEF m, k
      <4>4. Covered(rows, poll.logs, chain', k)
        BY <1>1, <4>1, <4>2, <4>3, CoveredKeeps
      <4> QED
        BY <4>1, <4>4 DEF k
    <3>4. ASSUME poll.pc \in Holding
          PROVE  AllFiled(rows, chain', FixedTop')
      <4>1. AllFiled(rows, chain, FixedTop)
        BY <3>4 DEF IndexInv, Scanning
      <4> QED
        BY <1>1, <2>2, <4>1, AgreeKeeps
    <3> QED
      BY <3>1, <3>2, <3>3, <3>4 DEF Scanning
  <2>5. Reporting'
    <3>1. Reporting
      BY DEF IndexInv
    <3>2. poll.pc = "balances" => (Len(poll.read) <= FixedTop' => Has(chain', poll.read))
      <4> SUFFICES ASSUME poll.pc = "balances", Len(poll.read) <= FixedTop'
                   PROVE  Has(chain', poll.read)
        OBVIOUS
      <4>1. Len(poll.read) \in Nat
        BY <2>1, LenProperties DEF Hashes
      <4>2. Has(chain, poll.read)
        BY <1>1, <2>2, <3>1, <4>1 DEF Reporting
      <4> QED
        BY <1>1, <2>1, <2>2, <4>2, AgreeOnHashes
    <3> QED
      BY <3>1, <3>2 DEF Reporting, Deep
  <2> QED
    BY <1>2, <1>3, <1>4, <2>3, <2>4, <2>5
<1> QED
  BY <1>5, <1>6

LEMMA MineIndex ==
    ASSUME IndexInv, NEW b \in Block, Mine(b)
    PROVE  IndexInv'
<1>1. /\ chain \in Hashes /\ chain' = Append(chain, b)
      /\ UNCHANGED <<rows, snaps, next, poll, last, final, reorgs, faults>>
  BY DEF IndexInv, TypeInv, Mine, indexerVars
<1>2. /\ chain' \in Hashes /\ Len(chain') = Len(chain) + 1 /\ Len(chain) \in Nat
      /\ \A i \in 1..Len(chain) : chain'[i] = chain[i]
  BY <1>1, AppendProperties, LenProperties DEF Hashes
<1>3. FirmTop' = FirmTop /\ FixedTop' = FixedTop /\ (Steady' <=> Steady)
  BY <1>1 DEF FirmTop, FixedTop, Steady
<1>4. /\ FirmTop \in Nat /\ FixedTop \in Nat
      /\ FirmTop <= Len(chain) /\ FixedTop <= Len(chain)
  BY Sized DEF IndexInv, Timely
<1>5. Agree(chain, chain', FirmTop) /\ Agree(chain, chain', FixedTop)
  BY <1>2, <1>4 DEF Agree
<1>6. TypeInv'
  BY <1>1, <1>2 DEF IndexInv, TypeInv
<1>7. Timely'
  <2>1. Timely
    BY DEF IndexInv
  <2> QED
    BY <1>1, <1>2, <1>3, <1>4, <2>1 DEF Timely
<1>8. /\ AllFormed' /\ Exact' /\ Checking' /\ Scanning' /\ Reporting'
      /\ TerminalBacked'
  BY <1>1, <1>2, <1>3, <1>4, <1>5, ChainMoves
<1> QED
  BY <1>6, <1>7, <1>8 DEF IndexInv

LEMMA ReorgIndex ==
    ASSUME IndexInv, NEW b \in Block, NEW n \in 1..MaxHeight, Reorg(n, b)
    PROVE  IndexInv'
<1>1. /\ chain \in Hashes /\ chain' = Append(SubSeq(chain, 1, n - 1), b)
      /\ n \in final + 1..Len(chain) /\ reorgs' = reorgs + 1
      /\ UNCHANGED <<rows, snaps, next, poll, last, final, faults>>
  BY DEF IndexInv, TypeInv, Reorg, indexerVars
<1>2. /\ final \in Nat /\ reorgs \in Nat /\ Len(chain) \in Nat /\ n \in Nat
      /\ poll.began \in Nat /\ last.began \in Nat
  BY <1>1, LenProperties DEF IndexInv, TypeInv, Polls, Hashes
<1> DEFINE k == n - 1
           c == SubSeq(chain, 1, k)
<1>3. /\ k \in Nat /\ k <= Len(chain) /\ final <= k
  BY <1>1, <1>2
<1>4. c \in Hashes /\ Len(c) = k /\ \A i \in 1..k : c[i] = chain[i]
  BY <1>1, <1>3, PrefixIs
<1>5. /\ chain' \in Hashes /\ Len(chain') = k + 1
      /\ \A i \in 1..k : chain'[i] = chain[i]
  <2> HIDE DEF c
  <2>1. chain' = Append(c, b)
    BY <1>1 DEF c, k
  <2> QED
    BY <1>3, <1>4, <2>1, AppendProperties DEF Hashes
<1>6. poll.began # reorgs' /\ last.began # reorgs'
  <2>1. poll.began <= reorgs /\ last.began <= reorgs
    BY DEF IndexInv, Timely
  <2> QED
    BY <1>1, <1>2, <2>1
<1>7. FirmTop' = final /\ FixedTop' = final /\ ~Steady'
  BY <1>1, <1>6 DEF FirmTop, FixedTop, Steady
<1>8. /\ FirmTop \in Nat /\ FixedTop \in Nat
      /\ final <= FirmTop /\ final <= FixedTop
  BY Sized DEF IndexInv
<1>9. Agree(chain, chain', final)
  BY <1>2, <1>3, <1>5 DEF Agree
<1>10. TypeInv'
  BY <1>1, <1>2, <1>3, <1>5 DEF IndexInv, TypeInv
<1>11. Timely'
  <2>1. Timely
    BY DEF IndexInv
  <2> QED
    BY <1>1, <1>2, <1>3, <1>5, <1>7, <2>1 DEF Timely
<1>12. /\ AllFormed' /\ Exact' /\ Checking' /\ Scanning' /\ Reporting'
       /\ TerminalBacked'
  BY <1>1, <1>2, <1>5, <1>6, <1>7, <1>8, <1>9, ChainMoves
<1> QED
  BY <1>10, <1>11, <1>12 DEF IndexInv

LEMMA FinalizeIndex ==
    ASSUME Slow, IndexInv, Finalize
    PROVE  IndexInv'
<1>1. /\ Steady /\ final < last.head /\ final' = final + 1 /\ final < Len(chain)
      /\ UNCHANGED <<chain, rows, snaps, next, poll, last, reorgs, faults>>
  BY DEF Finalize, indexerVars
<1>2. /\ chain \in Hashes /\ Len(chain) \in Nat
      /\ final \in Nat /\ last.head \in Nat /\ poll.head \in Nat
      /\ poll.began \in Nat /\ last.began \in Nat /\ reorgs \in Nat
  BY LenProperties DEF IndexInv, TypeInv, Polls, Hashes
<1>3. Timely
  BY DEF IndexInv
<1>4. FirmTop = last.head /\ FirmTop' = last.head /\ (Steady' <=> Steady)
  BY <1>1, <1>2 DEF FirmTop, Steady
<1>5. ASSUME poll.pc # "idle"
      PROVE  /\ poll.began = reorgs /\ last.head <= poll.head
             /\ FixedTop = poll.head /\ FixedTop' = poll.head
  <2>1. last.began <= poll.began /\ poll.began <= reorgs /\ FirmTop <= FixedTop
    BY <1>3, <1>5 DEF Timely
  <2>2. poll.began = reorgs
    BY <1>1, <1>2, <2>1 DEF Steady
  <2>3. FixedTop = poll.head /\ last.head <= poll.head
    BY <1>1, <1>2, <1>4, <2>1, <2>2 DEF FixedTop
  <2> QED
    BY <1>1, <1>2, <2>2, <2>3 DEF FixedTop
<1>6. FixedTop' \in Nat /\ FixedTop' <= Len(chain)
  <2>1. poll.pc = "idle" => poll = NoPoll
    BY <1>3 DEF Timely
  <2>2. FixedTop <= Len(chain)
    BY <1>3 DEF Timely
  <2>3. CASE poll.pc = "idle"
    BY <1>1, <1>2, <2>1, <2>3, NoPollIs DEF FixedTop
  <2> QED
    BY <1>2, <1>5, <2>2, <2>3
<1>7. /\ Agree(chain, chain', FirmTop') 
      /\ poll.pc # "idle" => Agree(chain, chain', FixedTop')
  <2>1. FirmTop <= Len(chain)
    BY <1>3 DEF Timely
  <2> QED
    BY <1>1, <1>2, <1>4, <1>6, <2>1, AgreeItself
<1>8. TypeInv'
  BY <1>1, <1>2 DEF IndexInv, TypeInv
<1>9. Timely'
  <2>1. ASSUME poll.pc # "idle"
        PROVE  poll.fin <= final' /\ final' <= poll.head
    <3>1. poll.fin \in Nat /\ poll.fin <= final
      BY <1>3, <2>1 DEF IndexInv, TypeInv, Polls, Timely
    <3> QED
      BY <1>1, <1>2, <1>5, <2>1, <3>1
  <2> QED
    BY <1>1, <1>2, <1>3, <1>4, <1>5, <1>6, <2>1 DEF Timely
<1>10. /\ AllFormed' /\ Exact' /\ Checking' /\ Scanning' /\ Reporting'
       /\ TerminalBacked'
  BY <1>1, <1>2, <1>4, <1>5, <1>6, <1>7, ChainMoves
<1> QED
  BY <1>8, <1>9, <1>10 DEF IndexInv

-----------------------------------------------------------------------------
(* The steps that move the poll on and write nothing.                      *)

LEMMA PollMoves ==
    ASSUME IndexInv, UNCHANGED <<chain, final, reorgs, rows, snaps, last>>
    PROVE  /\ FirmTop' = FirmTop /\ Exact' /\ TerminalBacked'
           /\ \A r \in rows' : Formed(r)
           /\ poll'.began = poll.began /\ poll'.head = poll.head
                => FixedTop' = FixedTop
<1>1. FirmTop' = FirmTop
  BY DEF FirmTop, Steady
<1>2. Exact'
  BY <1>1 DEF IndexInv, Exact
<1>3. TerminalBacked'
  <2>1. TerminalBacked
    BY DEF IndexInv
  <2> QED
    BY <2>1 DEF TerminalBacked, Steady, Canonical, Kept
<1>4. AllFormed
  BY DEF IndexInv
<1>5. poll'.began = poll.began /\ poll'.head = poll.head => FixedTop' = FixedTop
  BY DEF FixedTop
<1> QED
  BY <1>1, <1>2, <1>3, <1>4, <1>5 DEF AllFormed

LEMMA SameTimes ==
    ASSUME IndexInv, poll.pc # "idle", UNCHANGED <<chain, final, reorgs, last>>,
           poll'.pc # "idle", poll'.began = poll.began, poll'.head = poll.head,
           poll'.fin \in Nat, poll'.fin <= final
    PROVE  Timely'
<1>1. FirmTop' = FirmTop /\ FixedTop' = FixedTop
  BY DEF FirmTop, FixedTop, Steady
<1>2. Timely
  BY DEF IndexInv
<1> QED
  BY <1>1, <1>2 DEF Timely

LEMMA AfterIs ==
    ASSUME NEW pc
    PROVE  /\ After(pc).pc = pc
           /\ After(pc).began = poll.began /\ After(pc).head = poll.head
           /\ After(pc).fin = 0 /\ After(pc).unchecked = {}
           /\ After(pc).stale = {} /\ After(pc).logs = {}
           /\ After(pc).from = 0 /\ After(pc).due = << >>
           /\ After(pc).read = << >>
BY DEF After, NoPoll

LEMMA AfterPolls ==
    ASSUME TypeInv, NEW pc \in Counters
    PROVE  After(pc) \in Polls
<1>1. poll.began \in Nat /\ poll.head \in Nat /\ << >> \in Hashes
  BY EmptySeq DEF TypeInv, Polls, Hashes
<1> QED
  BY <1>1 DEF After, NoPoll, Polls

LEMMA PollIs ==
    ASSUME TypeInv
    PROVE  /\ poll.pc \in Counters /\ poll.began \in Nat /\ poll.head \in Nat
           /\ poll.fin \in Nat /\ poll.from \in Nat
           /\ poll.unchecked \in SUBSET Hashes /\ poll.stale \in SUBSET Hashes
           /\ poll.logs \in SUBSET Logs
           /\ poll.due \in Hashes /\ poll.read \in Hashes
BY DEF TypeInv, Polls

LEMMA ReadHeadIndex ==
    ASSUME IndexInv, ReadHead
    PROVE  IndexInv'
<1>1. UNCHANGED <<chain, final, reorgs, rows, snaps, next, last, faults>>
  BY DEF ReadHead, chainVars, indexerVars
<1>2. /\ chain \in Hashes /\ Len(chain) \in Nat /\ final \in Nat
      /\ final <= Len(chain) /\ reorgs \in Nat
  BY LenProperties DEF IndexInv, TypeInv, Hashes
<1>3. poll' = [NoPoll EXCEPT !.pc = "finalized", !.began = reorgs, !.head = Len(chain)]
  BY DEF ReadHead
<1>4. /\ poll' \in Polls
      /\ poll'.pc = "finalized" /\ poll'.began = reorgs /\ poll'.head = Len(chain)
      /\ poll'.stale = {} /\ poll'.logs = {} /\ poll'.fin = 0
  <2>1. << >> \in Hashes
    BY EmptySeq DEF Hashes
  <2> QED
    BY <1>2, <1>3, <2>1 DEF NoPoll, Polls, Counters, Reading, Holding
<1>5. FixedTop' = Len(chain)
  BY <1>1, <1>2, <1>4 DEF FixedTop
<1>6. /\ FirmTop' = FirmTop /\ Exact' /\ TerminalBacked'
      /\ \A r \in rows' : Formed(r)
  BY <1>1, PollMoves
<1>7. TypeInv'
  BY <1>1, <1>2, <1>4 DEF IndexInv, TypeInv
<1>8. Timely'
  <2>1. Timely
    BY DEF IndexInv
  <2> QED
    BY <1>1, <1>2, <1>4, <1>5, <1>6, <2>1 DEF Timely
<1>9. AllFormed'
  BY <1>4, <1>6 DEF AllFormed
<1>10. Checking' /\ Scanning' /\ Reporting'
  BY <1>4 DEF Checking, Absent, Scanning, Present, Reporting, Reading, Holding
<1> QED
  BY <1>6, <1>7, <1>8, <1>9, <1>10 DEF IndexInv

LEMMA ReadFinalizedIndex ==
    ASSUME IndexInv, ReadFinalized
    PROVE  IndexInv'
<1> DEFINE fin == Min2(final, poll.head)
<1>1. /\ poll.pc = "finalized"
      /\ UNCHANGED <<chain, final, reorgs, rows, snaps, next, last, faults>>
      /\ poll' = [poll EXCEPT !.pc = "checking", !.fin = fin, !.unchecked = Watched(fin)]
  BY DEF ReadFinalized, chainVars, indexerVars, At
<1>2. /\ poll \in Polls /\ final \in Nat /\ fin \in Nat /\ fin <= final
      /\ FirmTop \in Nat /\ FixedTop \in Nat /\ final <= FirmTop
      /\ \A r \in rows : r.hash \in Hashes /\ Len(r.hash) \in Nat
      /\ \A x \in snaps : x.hash \in Hashes /\ Len(x.hash) \in Nat
  BY Sized, PollIs DEF IndexInv, TypeInv, Min2
<1>3. /\ \A r \in rows : r.canonical /\ Len(r.hash) > fin => r.hash \in Watched(fin)
      /\ \A x \in snaps : x.canonical /\ Len(x.hash) > fin => x.hash \in Watched(fin)
      /\ Watched(fin) \subseteq Hashes
  BY <1>2 DEF Watched, Canonical, Kept, Height
<1> HIDE DEF fin
<1>4. /\ poll' \in Polls
      /\ poll'.pc = "checking" /\ poll'.began = poll.began /\ poll'.head = poll.head
      /\ poll'.stale = poll.stale /\ poll'.logs = poll.logs /\ poll'.fin = fin
      /\ poll'.unchecked = Watched(fin)
  BY <1>1, <1>2, <1>3 DEF Polls, Counters
<1>5. /\ FirmTop' = FirmTop /\ Exact' /\ TerminalBacked' /\ FixedTop' = FixedTop
      /\ \A r \in rows' : Formed(r)
  BY <1>1, <1>4, PollMoves
<1>6. TypeInv'
  BY <1>1, <1>4 DEF IndexInv, TypeInv
<1>7. Timely'
  BY <1>1, <1>2, <1>4, SameTimes
<1>8. AllFormed'
  BY <1>4, <1>5 DEF AllFormed, IndexInv
<1>9. Checking'
  <2>1. Absent(poll.stale, chain, FixedTop)
    BY DEF IndexInv, Checking
  <2>2. Sorted(rows, Watched(fin), poll.stale, chain, FixedTop)
    BY <1>2, <1>3 DEF Sorted, IndexInv, Exact, Sound
  <2>3. Sorted(snaps, Watched(fin), poll.stale, chain, FixedTop)
    BY <1>2, <1>3 DEF Sorted, IndexInv, Exact, Sound
  <2> QED
    BY <1>1, <1>4, <1>5, <2>1, <2>2, <2>3 DEF Checking
<1>10. Scanning'
  <2>1. Present(poll.logs, chain, FixedTop)
    BY DEF IndexInv, Scanning
  <2> QED
    BY <1>1, <1>4, <1>5, <2>1 DEF Scanning, Reading, Holding
<1>11. Reporting'
  BY <1>4 DEF Reporting
<1> QED
  BY <1>5, <1>6, <1>7, <1>8, <1>9, <1>10, <1>11 DEF IndexInv

LEMMA CheckBlockIndex ==
    ASSUME IndexInv, CheckBlock
    PROVE  IndexInv'
<1>1. /\ poll.pc = "checking"
      /\ UNCHANGED <<chain, final, reorgs, rows, snaps, next, last, faults>>
  BY SMTT(40) DEF CheckBlock, chainVars, indexerVars, At
<1>2. PICK at \in SUBSET poll.unchecked :
        poll' = [poll EXCEPT !.unchecked = poll.unchecked \ at,
                             !.stale = poll.stale \cup {h \in at : Gone(h)}]
  BY DEF CheckBlock
<1> DEFINE stale == poll.stale \cup {h \in at : Gone(h)}
<1>3. /\ poll \in Polls /\ FixedTop \in Nat /\ poll.fin \in Nat /\ poll.fin <= final
      /\ poll.unchecked \in SUBSET Hashes /\ poll.stale \in SUBSET Hashes
      /\ stale \in SUBSET Hashes
  BY <1>1, <1>2, Sized, PollIs DEF IndexInv, TypeInv, Timely
<1>4. \A h \in at : Gone(h) <=> ~Has(chain, h)
  <2> TAKE h \in at
  <2>1. Len(h) \in Nat /\ Len(chain) \in Nat
    BY <1>3, LenProperties DEF IndexInv, TypeInv, Hashes
  <2> QED
    BY <2>1 DEF Gone, Has, Height, Hash
<1>5. \A h \in stale : h \in poll.stale \/ ~Has(chain, h)
  BY <1>4
<1>6. \A h \in at : h \in stale \/ Has(chain, h)
  BY <1>4
<1>7. poll.stale \subseteq stale
  OBVIOUS
<1> HIDE DEF stale
<1>8. /\ poll' \in Polls
      /\ poll'.pc = "checking" /\ poll'.began = poll.began /\ poll'.head = poll.head
      /\ poll'.stale = stale /\ poll'.logs = poll.logs /\ poll'.fin = poll.fin
      /\ poll'.unchecked = poll.unchecked \ at
  <2>1. poll' = [poll EXCEPT !.unchecked = poll.unchecked \ at, !.stale = stale]
    BY <1>2 DEF stale
  <2> QED
    BY <1>1, <1>3, <2>1 DEF Polls
<1>9. /\ FirmTop' = FirmTop /\ Exact' /\ TerminalBacked' /\ FixedTop' = FixedTop
      /\ \A r \in rows' : Formed(r)
  BY <1>1, <1>8, PollMoves
<1>10. TypeInv'
  BY <1>1, <1>8 DEF IndexInv, TypeInv
<1>11. Timely'
  BY <1>1, <1>3, <1>8, SameTimes
<1>12. AllFormed'
  BY <1>8, <1>9 DEF AllFormed, IndexInv
<1>13. Checking'
  <2>1. Checking
    BY DEF IndexInv
  <2>2. Absent(stale, chain, FixedTop)
    BY <1>5, <2>1 DEF Checking, Absent
  <2>3. ASSUME NEW xs, Sorted(xs, poll.unchecked, poll.stale, chain, FixedTop)
        PROVE  Sorted(xs, poll.unchecked \ at, stale, chain, FixedTop)
    BY <1>6, <1>7, <2>3 DEF Sorted
  <2>4. /\ Sorted(rows, poll.unchecked \ at, stale, chain, FixedTop)
        /\ Sorted(snaps, poll.unchecked \ at, stale, chain, FixedTop)
    BY <1>1, <2>1, <2>3 DEF Checking
  <2> QED
    BY <1>1, <1>8, <1>9, <2>2, <2>4 DEF Checking
<1>14. Scanning'
  <2>1. Present(poll.logs, chain, FixedTop)
    BY DEF IndexInv, Scanning
  <2> QED
    BY <1>1, <1>8, <1>9, <2>1 DEF Scanning, Reading, Holding
<1>15. Reporting'
  BY <1>8 DEF Reporting
<1> QED
  BY <1>9, <1>10, <1>11, <1>12, <1>13, <1>14, <1>15 DEF IndexInv

LEMMA NothingStaleIndex ==
    ASSUME IndexInv, NothingStale
    PROVE  IndexInv'
<1>1. /\ poll.pc = "checking" /\ poll.unchecked = {} /\ poll.stale = {}
      /\ UNCHANGED <<chain, final, reorgs, rows, snaps, next, last, faults>>
      /\ poll' = [After("receipts") EXCEPT !.fin = poll.fin]
  BY DEF NothingStale, chainVars, indexerVars, At
<1>2. poll.fin \in Nat /\ poll.fin <= final
  BY <1>1, PollIs DEF IndexInv, Timely
<1>3. /\ poll' \in Polls
      /\ poll'.pc = "receipts" /\ poll'.began = poll.began /\ poll'.head = poll.head
      /\ poll'.stale = {} /\ poll'.logs = {} /\ poll'.fin = poll.fin
  <2>1. After("receipts") \in Polls
    BY AfterPolls DEF IndexInv, Counters, Reading
  <2> QED
    BY <1>1, <1>2, <2>1, AfterIs DEF Polls
<1>4. /\ FirmTop' = FirmTop /\ Exact' /\ TerminalBacked' /\ FixedTop' = FixedTop
      /\ \A r \in rows' : Formed(r)
  BY <1>1, <1>3, PollMoves
<1>5. TypeInv'
  BY <1>1, <1>3 DEF IndexInv, TypeInv
<1>6. Timely'
  BY <1>1, <1>2, <1>3, SameTimes
<1>7. AllFormed'
  BY <1>3, <1>4 DEF AllFormed
<1>8. Checking'
  BY <1>3 DEF Checking, Absent
<1>9. Scanning'
  <2>1. /\ Sorted(rows, {}, {}, chain, FixedTop)
        /\ Sorted(snaps, {}, {}, chain, FixedTop)
    BY <1>1 DEF IndexInv, Checking
  <2>2. Sound(rows, chain, FixedTop) /\ Sound(snaps, chain, FixedTop)
    BY <2>1 DEF Sorted, Sound
  <2> QED
    BY <1>1, <1>3, <1>4, <2>2 DEF Scanning, Present, Reading, Holding
<1>10. Reporting'
  BY <1>3 DEF Reporting
<1> QED
  BY <1>4, <1>5, <1>6, <1>7, <1>8, <1>9, <1>10 DEF IndexInv

-----------------------------------------------------------------------------
(* The scan.                                                               *)

(* The logs between two heights: each is the chain's and well formed, and  *)
(* none is missing.                                                        *)
LEMMA LogsAre ==
    ASSUME TypeInv, NEW a \in Nat, a >= 1, NEW b \in Nat
    PROVE  /\ LogsIn(a, b) \in SUBSET Logs
           /\ \A l \in LogsIn(a, b) :
                Formed(l) /\ Has(chain, l.hash) /\ Len(l.hash) <= b
           /\ \A n \in a..b : n <= Len(chain) =>
                \A t \in chain[n].txs :
                   [hash |-> SubSeq(chain, 1, n), tx |-> t] \in LogsIn(a, b)
<1>1. chain \in Hashes /\ Len(chain) \in Nat
  BY LenProperties DEF TypeInv, Hashes
<1>2. \A n \in a..Min2(b, Len(chain)) :
        /\ n \in Nat /\ n >= 1 /\ n <= Len(chain) /\ n <= b
        /\ SubSeq(chain, 1, n) \in Hashes /\ Len(SubSeq(chain, 1, n)) = n
        /\ SubSeq(chain, 1, n)[n] = chain[n]
        /\ Has(chain, SubSeq(chain, 1, n))
        /\ chain[n].txs \in SUBSET Txs
  <2> TAKE n \in a..Min2(b, Len(chain))
  <2>1. n \in Nat /\ n >= 1 /\ n <= Len(chain) /\ n <= b
    BY <1>1 DEF Min2
  <2>2. chain[n] \in Block
    BY <1>1, <2>1, ElementOfSeq DEF Hashes
  <2> QED
    BY <1>1, <2>1, <2>2, PrefixIs DEF Block
<1>3. ASSUME NEW l \in LogsIn(a, b)
      PROVE  /\ l \in Logs /\ Formed(l) /\ Has(chain, l.hash) /\ Len(l.hash) <= b
  <2>1. PICK n \in a..Min2(b, Len(chain)) : \E t \in chain[n].txs :
          l = [hash |-> SubSeq(chain, 1, n), tx |-> t]
    BY DEF LogsIn, Hash
  <2>2. PICK t \in chain[n].txs : l = [hash |-> SubSeq(chain, 1, n), tx |-> t]
    BY <2>1
  <2>3. l.hash = SubSeq(chain, 1, n) /\ l.tx = t
    BY <2>2
  <2>4. l \in Logs
    BY <1>2, <2>2 DEF Logs
  <2>5. Len(l.hash) = n /\ l.hash[n] = chain[n]
    BY <1>2, <2>3
  <2>6. Formed(l)
    BY <1>2, <2>3, <2>5 DEF Formed
  <2> QED
    BY <1>2, <2>3, <2>4, <2>5, <2>6
<1>4. ASSUME NEW n \in a..b, n <= Len(chain), NEW t \in chain[n].txs
      PROVE  [hash |-> SubSeq(chain, 1, n), tx |-> t] \in LogsIn(a, b)
  <2>1. n \in a..Min2(b, Len(chain))
    BY <1>1, <1>4 DEF Min2
  <2> QED
    BY SMTT(40), <2>1 DEF LogsIn, Hash
<1> QED
  BY <1>3, <1>4

LEMMA ReadReceiptsIndex ==
    ASSUME IndexInv, ReadReceipts
    PROVE  IndexInv'
<1> DEFINE logs == {l \in LogsIn(1, poll.head) : l.tx \in Sent}
           from == ScanFrom(poll.fin)
<1>1. /\ poll.pc = "receipts"
      /\ UNCHANGED <<chain, final, reorgs, rows, snaps, next, last, faults>>
      /\ poll' = [After("scanning") EXCEPT !.from = from, !.logs = logs]
  BY DEF ReadReceipts, chainVars, indexerVars, At
<1>2. /\ TypeInv /\ poll.head \in Nat /\ poll.fin \in Nat /\ next \in Nat
      /\ final \in Nat /\ FirmTop \in Nat /\ FixedTop \in Nat /\ final <= FirmTop
      /\ poll.fin <= final
  BY <1>1, Sized, PollIs DEF IndexInv, TypeInv, Timely
<1>3. from \in Nat /\ from >= 1 /\ from <= poll.fin + 1
  BY <1>2 DEF ScanFrom, Max2, Min2, Start
<1>4. /\ logs \in SUBSET Logs
      /\ \A l \in logs : Formed(l) /\ Has(chain, l.hash)
  BY <1>2, LogsAre
<1> HIDE DEF logs, from
<1>5. /\ poll' \in Polls
      /\ poll'.pc = "scanning" /\ poll'.began = poll.began /\ poll'.head = poll.head
      /\ poll'.stale = {} /\ poll'.logs = logs /\ poll'.fin = 0 /\ poll'.from = from
  <2>1. After("scanning") \in Polls
    BY <1>2, AfterPolls DEF Counters, Reading
  <2> QED
    BY <1>1, <1>3, <1>4, <2>1, AfterIs DEF Polls
<1>6. /\ FirmTop' = FirmTop /\ Exact' /\ TerminalBacked' /\ FixedTop' = FixedTop
      /\ \A r \in rows' : Formed(r)
  BY <1>1, <1>5, PollMoves
<1>7. TypeInv'
  BY <1>1, <1>5 DEF IndexInv, TypeInv
<1>8. Timely'
  BY <1>1, <1>2, <1>5, SameTimes
<1>9. AllFormed'
  BY <1>4, <1>5, <1>6 DEF AllFormed
<1>10. Checking'
  BY <1>5 DEF Checking, Absent
<1>11. Scanning'
  <2>1. Present(logs, chain, FixedTop)
    BY <1>4 DEF Present
  <2>2. Sound(rows, chain, FixedTop) /\ Sound(snaps, chain, FixedTop)
    BY <1>1 DEF IndexInv, Scanning, Reading
  <2>3. Covered(rows, logs, chain, Min2(from - 1, FixedTop))
    <3>1. \A n \in 1..Min2(from - 1, FixedTop) : n \in 1..FirmTop
      BY <1>2, <1>3 DEF Min2
    <3>2. AllFiled(rows, chain, FirmTop)
      BY DEF IndexInv, Exact
    <3> QED
      BY <3>1, <3>2 DEF AllFiled, Covered
  <2> QED
    BY <1>1, <1>3, <1>5, <1>6, <2>1, <2>2, <2>3 DEF Scanning, Holding
<1>12. Reporting'
  BY <1>5 DEF Reporting
<1> QED
  BY <1>6, <1>7, <1>8, <1>9, <1>10, <1>11, <1>12 DEF IndexInv

LEMMA ScanChunkIndex ==
    ASSUME IndexInv, ScanChunk
    PROVE  IndexInv'
<1> DEFINE end == Min2(poll.from + Chunk - 1, poll.head)
           logs == poll.logs \cup LogsIn(poll.from, end)
<1>1. /\ poll.pc = "scanning" /\ poll.from <= poll.head
      /\ UNCHANGED <<chain, final, reorgs, rows, snaps, next, last, faults>>
      /\ poll' = [poll EXCEPT !.from = end + 1, !.logs = logs]
  BY DEF ScanChunk, chainVars, indexerVars, At
<1>2. /\ TypeInv /\ poll \in Polls /\ poll.head \in Nat /\ poll.from \in Nat
      /\ poll.from >= 1 /\ Chunk \in Nat /\ Chunk >= 1
      /\ FixedTop \in Nat /\ FixedTop <= Len(chain) /\ Len(chain) \in Nat
      /\ poll.fin \in Nat /\ poll.fin <= final
      /\ poll.logs \in SUBSET Logs
  <2>1. Chunk \in Nat /\ Chunk >= 1
    BY EventIndexAssumption
  <2>2. TypeInv /\ Timely /\ Scanning
    BY DEF IndexInv
  <2>3. poll.from >= 1
    BY <1>1, <2>2 DEF Scanning
  <2>4. FixedTop <= Len(chain) /\ poll.fin <= final
    BY <1>1, <2>2 DEF Timely
  <2>5. poll \in Polls
    BY <2>2 DEF TypeInv
  <2> QED
    BY <2>1, <2>2, <2>3, <2>4, <2>5, Sized, PollIs
<1>3. end \in Nat /\ end >= poll.from
  BY <1>1, <1>2 DEF Min2
<1> HIDE DEF end
<1>4. /\ LogsIn(poll.from, end) \in SUBSET Logs
      /\ \A l \in LogsIn(poll.from, end) : Formed(l) /\ Has(chain, l.hash)
      /\ \A n \in poll.from..end : n <= Len(chain) =>
           \A t \in chain[n].txs :
              [hash |-> SubSeq(chain, 1, n), tx |-> t] \in LogsIn(poll.from, end)
  BY <1>2, <1>3, LogsAre
<1>5. /\ logs \in SUBSET Logs
      /\ \A l \in logs : l \in poll.logs \/ (Formed(l) /\ Has(chain, l.hash))
      /\ \A l \in poll.logs : l \in logs
      /\ \A l \in LogsIn(poll.from, end) : l \in logs
  BY <1>2, <1>4
<1> HIDE DEF logs
<1>6. /\ poll' \in Polls
      /\ poll'.pc = "scanning" /\ poll'.began = poll.began /\ poll'.head = poll.head
      /\ poll'.stale = poll.stale /\ poll'.logs = logs /\ poll'.fin = poll.fin
      /\ poll'.from = end + 1
  <2>1. end + 1 \in Nat
    BY <1>3
  <2> QED
    BY <1>1, <1>2, <1>5, <2>1 DEF Polls
<1>7. /\ FirmTop' = FirmTop /\ Exact' /\ TerminalBacked' /\ FixedTop' = FixedTop
      /\ \A r \in rows' : Formed(r)
  BY <1>1, <1>6, PollMoves
<1>8. TypeInv'
  BY <1>1, <1>6 DEF IndexInv, TypeInv
<1>9. Timely'
  BY <1>1, <1>2, <1>6, SameTimes
<1>10. AllFormed'
  <2>1. AllFormed
    BY DEF IndexInv
  <2> QED
    BY <1>5, <1>6, <1>7, <2>1 DEF AllFormed
<1>11. Checking'
  <2>1. Absent(poll.stale, chain, FixedTop)
    BY DEF IndexInv, Checking
  <2> QED
    BY <1>1, <1>6, <1>7, <2>1 DEF Checking
<1>12. Scanning'
  <2>1. Scanning
    BY DEF IndexInv
  <2>2. Present(logs, chain, FixedTop)
    BY <1>5, <2>1 DEF Present, Scanning
  <2>3. Covered(rows, logs, chain, Min2(end, FixedTop))
    <3> SUFFICES ASSUME NEW n \in 1..Min2(end, FixedTop), NEW t \in chain[n].txs
                 PROVE  Filed(rows, chain, n, t) \/ Scanned(logs, chain, n, t)
      BY DEF Covered
    <3>1. CASE n < poll.from
      <4>1. n \in 1..Min2(poll.from - 1, FixedTop)
        BY <1>2, <1>3, <3>1 DEF Min2
      <4>2. Filed(rows, chain, n, t) \/ Scanned(poll.logs, chain, n, t)
        BY <1>1, <2>1, <4>1 DEF Scanning, Covered
      <4> QED
        BY <1>5, <4>2 DEF Scanned
    <3>2. CASE ~(n < poll.from)
      <4>1. n \in poll.from..end /\ n <= Len(chain)
        BY <1>2, <1>3, <3>2 DEF Min2
      <4>2. [hash |-> SubSeq(chain, 1, n), tx |-> t] \in logs
        BY <1>4, <1>5, <4>1
      <4> QED
        BY <4>2 DEF Scanned
    <3> QED
      BY <3>1, <3>2
  <2>4. Sound(rows, chain, FixedTop) /\ Sound(snaps, chain, FixedTop)
    BY <1>1, <2>1 DEF Scanning, Reading
  <2>5. end + 1 - 1 = end /\ end + 1 >= 1
    BY <1>3
  <2>6. poll'.from - 1 = end
    BY <1>3, <1>6
  <2>7. Covered(rows', poll'.logs, chain', Min2(poll'.from - 1, FixedTop'))
    BY <1>1, <1>6, <1>7, <2>3, <2>6
  <2>8. Present(poll'.logs, chain', FixedTop')
    BY <1>1, <1>6, <1>7, <2>2
  <2>9. Sound(rows', chain', FixedTop') /\ Sound(snaps', chain', FixedTop')
    BY <1>1, <1>7, <2>4
  <2>10. poll'.from >= 1 /\ ~(poll'.pc \in Holding)
    BY <1>6, <2>5 DEF Holding
  <2> QED
    BY <2>7, <2>8, <2>9, <2>10 DEF Scanning
<1>13. Reporting'
  BY <1>6 DEF Reporting
<1> QED
  BY <1>7, <1>8, <1>9, <1>10, <1>11, <1>12, <1>13 DEF IndexInv

-----------------------------------------------------------------------------
(* The steps that write the rows.                                          *)

LEMMA SteadyPoll ==
    ASSUME IndexInv, poll.pc # "idle", Steady
    PROVE  poll.began = reorgs /\ last.head <= poll.head /\ FixedTop = poll.head
<1>1. /\ final \in Nat /\ last.head \in Nat /\ poll.head \in Nat
      /\ poll.began \in Nat /\ last.began \in Nat /\ reorgs \in Nat
  BY DEF IndexInv, TypeInv, Polls
<1>2. /\ last.began <= poll.began /\ poll.began <= reorgs /\ FirmTop <= FixedTop
      /\ final <= poll.head
  BY DEF IndexInv, Timely
<1>3. poll.began = reorgs
  BY <1>1, <1>2 DEF Steady
<1>4. FixedTop = poll.head
  BY <1>1, <1>2, <1>3 DEF FixedTop
<1> QED
  BY <1>1, <1>2, <1>3, <1>4 DEF FirmTop

(* A step that writes, and leaves the chain and the last report alone.     *)
LEMMA SameTops ==
    ASSUME UNCHANGED <<chain, final, reorgs, last>>,
           poll'.began = poll.began, poll'.head = poll.head
    PROVE  FirmTop' = FirmTop /\ FixedTop' = FixedTop /\ (Steady' <=> Steady)
BY DEF FirmTop, FixedTop, Steady

LEMMA LowestIs ==
    ASSUME NEW S \in SUBSET Nat, S # {}
    PROVE  \E m \in S : \A k \in S : m <= k
<1> DEFINE Below == OpToRel(<, Nat)
<1>1. IsWellFoundedOn(Below, Nat)
  BY NatLessThanWellFounded
<1>2. \A k, m \in Nat : ~(<<k, m>> \in Below) => m <= k
  BY DEF OpToRel
<1> HIDE DEF Below
<1>3. PICK m \in S : \A k \in S : ~(<<k, m>> \in Below)
  BY <1>1, WFMin
<1>4. \A k \in S : m <= k
  BY <1>2, <1>3
<1> QED
  BY <1>4

(* What Rewind leaves of a set of rows: the same ones, canonical no longer *)
(* if their block is stale.                                                *)
Unmarked(x) == [x EXCEPT !.canonical = FALSE]
Markable(T) ==
    \A x \in T : /\ Unmarked(x) \in T
                 /\ Unmarked(x).hash = x.hash /\ Unmarked(x).canonical = FALSE

LEMMA InvalidatedIs ==
    ASSUME NEW xs, NEW stale, NEW T, xs \subseteq T, Markable(T)
    PROVE  /\ Invalidated(xs, stale) \subseteq T
           /\ \A y \in Invalidated(xs, stale) :
                /\ \E x \in xs : y = x \/ y = Unmarked(x)
                /\ y.canonical => y \in xs /\ y.hash \notin stale
           /\ \A x \in xs : x.hash \notin stale => x \in Invalidated(xs, stale)
<1>1. ASSUME NEW y \in Invalidated(xs, stale)
      PROVE  /\ y \in T
             /\ \E x \in xs : y = x \/ y = Unmarked(x)
             /\ y.canonical => y \in xs /\ y.hash \notin stale
  <2>1. PICK x \in xs :
          y = IF x.hash \in stale THEN Unmarked(x) ELSE x
    BY DEF Invalidated, Unmarked
  <2>2. x \in T
    OBVIOUS
  <2>3. CASE x.hash \in stale
    BY <2>1, <2>2, <2>3 DEF Markable
  <2>4. CASE x.hash \notin stale
    BY <2>1, <2>2, <2>4
  <2> QED
    BY <2>3, <2>4
<1>2. ASSUME NEW x \in xs, x.hash \notin stale
      PROVE  x \in Invalidated(xs, stale)
  BY <1>2 DEF Invalidated
<1> QED
  BY <1>1, <1>2

LEMMA InvalidRow ==
    /\ Markable(Rows)
    /\ \A r \in Rows : Unmarked(r).tx = r.tx
BY DEF Rows, Unmarked, Markable

LEMMA InvalidBalance == Markable(Balances)
BY DEF Balances, Unmarked, Markable

(* The rows and balances that answer for the chain's blocks survive.       *)
RowsStay(rs, new, stale) ==
    /\ \A r \in new : r.canonical => r \in rs /\ r.hash \notin stale
    /\ \A r \in rs : r.hash \notin stale => r \in new

LEMMA StaySound ==
    ASSUME NEW xs, NEW new, NEW stale, RowsStay(xs, new, stale),
           NEW c, NEW m
    PROVE  /\ Sound(xs, c, m) => Sound(new, c, m)
           /\ Sorted(xs, {}, stale, c, m) => Sound(new, c, m)
BY DEF RowsStay, Sound, Sorted

LEMMA StayFiled ==
    ASSUME NEW rs, NEW new, NEW stale, RowsStay(rs, new, stale),
           NEW c \in Hashes, NEW m \in Nat, m <= Len(c), Absent(stale, c, m),
           AllFiled(rs, c, m)
    PROVE  AllFiled(new, c, m)
<1> SUFFICES ASSUME NEW n \in 1..m, NEW t \in c[n].txs
             PROVE  Filed(new, c, n, t)
  BY DEF AllFiled
<1>1. PICK r \in rs : r.canonical /\ r.hash = SubSeq(c, 1, n) /\ r.tx = t
  BY DEF AllFiled, Filed
<1>2. n \in Nat /\ n <= Len(c) /\ n <= m
  BY LenProperties DEF Hashes
<1>3. Has(c, SubSeq(c, 1, n)) /\ Len(SubSeq(c, 1, n)) = n
  BY <1>2, PrefixIs
<1>4. r.hash \notin stale
  BY <1>1, <1>2, <1>3 DEF Absent
<1>5. r \in new
  BY <1>4 DEF RowsStay
<1> QED
  BY <1>1, <1>5 DEF Filed

LEMMA RewindIndex ==
    ASSUME IndexInv, Rewind
    PROVE  IndexInv'
<1>1. /\ poll.pc = "checking" /\ poll.unchecked = {} /\ poll.stale # {}
      /\ rows' = Invalidated(rows, poll.stale)
      /\ snaps' = Invalidated(snaps, poll.stale)
      /\ next' = Min2(next, Fork(poll.stale))
      /\ poll' = [After("receipts") EXCEPT !.fin = poll.fin]
      /\ UNCHANGED <<chain, final, reorgs, last, faults>>
  BY DEF Rewind, chainVars, At
<1>2. /\ TypeInv /\ Timely /\ AllFormed /\ Exact /\ Checking /\ TerminalBacked
      /\ chain \in Hashes /\ FirmTop \in Nat /\ FixedTop \in Nat
      /\ FirmTop <= FixedTop /\ FixedTop <= Len(chain) /\ FirmTop <= Len(chain)
      /\ poll.stale \in SUBSET Hashes /\ next \in Nat
      /\ poll.fin \in Nat /\ poll.fin <= final /\ Len(chain) \in Nat
  BY <1>1, Sized, PollIs DEF IndexInv, TypeInv, Timely
<1>3. Absent(poll.stale, chain, FixedTop) /\ Absent(poll.stale, chain, FirmTop)
  <2>1. \A h \in poll.stale : Len(h) \in Nat
    BY <1>2, LenProperties DEF Hashes
  <2> QED
    BY <1>2, <2>1 DEF Checking, Absent
<1>4. /\ rows' \subseteq Rows /\ RowsStay(rows, rows', poll.stale)
      /\ \A y \in rows' : \E x \in rows : y = x \/ y = Unmarked(x)
  <2>1. rows \subseteq Rows
    BY <1>2 DEF TypeInv
  <2> QED
    BY <1>1, <2>1, InvalidatedIs, InvalidRow DEF RowsStay
<1>5. /\ snaps' \subseteq Balances /\ RowsStay(snaps, snaps', poll.stale)
      /\ \A y \in snaps' : \E x \in snaps : y = x \/ y = Unmarked(x)
  <2>1. snaps \subseteq Balances
    BY <1>2 DEF TypeInv
  <2> QED
    BY <1>1, <2>1, InvalidatedIs, InvalidBalance DEF RowsStay
<1>6. next' \in Nat
  <2> DEFINE S == {Len(h) : h \in poll.stale}
  <2>1. S \in SUBSET Nat /\ S # {}
    BY <1>1, <1>2, LenProperties DEF Hashes
  <2>2. \E m \in S : \A k \in S : m <= k
    BY <2>1, LowestIs
  <2>3. PICK m \in S : \A h \in poll.stale : m <= Len(h)
    BY <2>2
  <2>4. Fork(poll.stale) \in S
    BY <2>3 DEF Fork, Height
  <2> QED
    BY <1>1, <1>2, <2>1, <2>4 DEF Min2
<1>7. /\ poll' \in Polls
      /\ poll'.pc = "receipts" /\ poll'.began = poll.began /\ poll'.head = poll.head
      /\ poll'.stale = {} /\ poll'.logs = {} /\ poll'.fin = poll.fin
  <2>1. After("receipts") \in Polls
    BY <1>2, AfterPolls DEF Counters, Reading
  <2> QED
    BY <1>1, <1>2, <2>1, AfterIs DEF Polls
<1>8. FirmTop' = FirmTop /\ FixedTop' = FixedTop /\ (Steady' <=> Steady)
  BY <1>1, <1>7, SameTops
<1>9. TypeInv'
  BY <1>1, <1>2, <1>4, <1>5, <1>6, <1>7 DEF TypeInv
<1>10. Timely'
  BY <1>1, <1>2, <1>7, SameTimes
<1>11. AllFormed'
  <2>1. \A y \in rows' : Formed(y)
    <3> TAKE y \in rows'
    <3>1. PICK x \in rows : y = x \/ y = Unmarked(x)
      BY <1>4
    <3>2. x \in Rows /\ Formed(x)
      BY <1>2 DEF TypeInv, AllFormed
    <3>3. y.hash = x.hash /\ y.tx = x.tx
      BY <3>1, <3>2, InvalidRow DEF Markable
    <3> QED
      BY <3>2, <3>3 DEF Formed
  <2> QED
    BY <1>7, <2>1 DEF AllFormed
<1>12. Exact'
  <2>1. Sound(rows', chain, FirmTop) /\ Sound(snaps', chain, FirmTop)
    BY <1>2, <1>4, <1>5, StaySound DEF Exact
  <2>2. AllFiled(rows', chain, FirmTop)
    BY <1>2, <1>3, <1>4, StayFiled DEF Exact
  <2> QED
    BY <1>1, <1>8, <2>1, <2>2 DEF Exact
<1>13. Checking'
  BY <1>7 DEF Checking, Absent
<1>14. Scanning'
  <2>1. /\ Sorted(rows, {}, poll.stale, chain, FixedTop)
        /\ Sorted(snaps, {}, poll.stale, chain, FixedTop)
    BY <1>1, <1>2 DEF Checking
  <2>2. Sound(rows', chain, FixedTop) /\ Sound(snaps', chain, FixedTop)
    BY <1>4, <1>5, <2>1, StaySound
  <2> QED
    BY <1>1, <1>7, <1>8, <2>2 DEF Scanning, Present, Reading, Holding
<1>15. Reporting'
  BY <1>7 DEF Reporting
<1>16. TerminalBacked'
  <2> SUFFICES ASSUME Steady, last.terminal # << >>
               PROVE  /\ Len(last.terminal) + Threshold <= last.head + 1
                      /\ \E r \in rows' : /\ r.canonical
                                          /\ r.hash = last.terminal /\ r.tx = "end"
                                          /\ r.depth >= Threshold
                      /\ {x.hash : x \in {y \in {z \in snaps' : z.canonical} :
                                             Len(y.hash) = Len(last.terminal)}}
                           = {last.terminal}
    BY <1>1, <1>8 DEF TerminalBacked, Canonical, Kept, Height
  <2>1. /\ Len(last.terminal) + Threshold <= last.head + 1
        /\ \E r \in rows : /\ r.canonical
                           /\ r.hash = last.terminal /\ r.tx = "end"
                           /\ r.depth >= Threshold
        /\ {x.hash : x \in {y \in {z \in snaps : z.canonical} :
                               Len(y.hash) = Len(last.terminal)}}
             = {last.terminal}
    BY <1>2 DEF TerminalBacked, Canonical, Kept, Height
  <2>2. last.terminal \notin poll.stale
    <3>1. last.head <= poll.head /\ FixedTop = poll.head
      BY <1>1, SteadyPoll
    <3>2. FirmTop = last.head \/ last.head <= final
      BY <1>2 DEF FirmTop, TypeInv
    <3>3. /\ last.head \in Nat /\ final <= FirmTop /\ final \in Nat
          /\ last.terminal \in Hashes /\ Threshold \in Nat /\ Threshold >= 1
      BY <1>2, Sized, EventIndexAssumption DEF TypeInv
    <3>4. Len(last.terminal) \in Nat
      BY <3>3, LenProperties DEF Hashes
    <3>5. Len(last.terminal) <= last.head
      BY <2>1, <3>3, <3>4
    <3>6. Len(last.terminal) <= FirmTop
      BY <1>2, <3>2, <3>3, <3>4, <3>5
    <3>7. Has(chain, last.terminal)
      BY <1>2, <2>1, <3>6 DEF Exact, Sound
    <3> QED
      BY <1>3, <3>6, <3>7 DEF Absent
  <2>3. \E r \in rows' : /\ r.canonical
                         /\ r.hash = last.terminal /\ r.tx = "end"
                         /\ r.depth >= Threshold
    BY <1>4, <2>1, <2>2 DEF RowsStay
  <2>4. ASSUME NEW h
        PROVE  h \in {x.hash : x \in {y \in {z \in snaps' : z.canonical} :
                                         Len(y.hash) = Len(last.terminal)}}
                 <=> h \in {x.hash : x \in {y \in {z \in snaps : z.canonical} :
                                         Len(y.hash) = Len(last.terminal)}}
    <3>1. ASSUME NEW x \in snaps', x.canonical
          PROVE  x \in snaps
      BY <1>5, <3>1 DEF RowsStay
    <3>2. ASSUME NEW x \in snaps, x.canonical, Len(x.hash) = Len(last.terminal)
          PROVE  x \in snaps'
      <4>1. x.hash = last.terminal
        BY <2>1, <3>2
      <4> QED
        BY <1>5, <2>2, <4>1 DEF RowsStay
    <3> QED
      BY <3>1, <3>2
  <2> QED
    BY <2>1, <2>3, <2>4
<1> QED
  BY <1>9, <1>10, <1>11, <1>12, <1>13, <1>14, <1>15, <1>16 DEF IndexInv

NewRow(l) == [hash |-> l.hash, tx |-> l.tx, canonical |-> TRUE,
              depth |-> Depth(l.hash, poll.head)]

(* What Record makes of the rows: the canonical ones stay, each log has a  *)
(* canonical row, and nothing else was added.                              *)
LEMMA RecordIs ==
    ASSUME TypeInv, Record
    PROVE  /\ rows' \subseteq Rows
           /\ \A r \in rows : r.canonical => r \in rows'
           /\ \A r \in rows' : r \in rows \/ \E l \in poll.logs : r = NewRow(l)
           /\ \A l \in poll.logs :
                \E r \in rows' : r.canonical /\ r.hash = l.hash /\ r.tx = l.tx
<1> DEFINE same(l) == {r \in rows : r.hash = l.hash /\ r.tx = l.tx /\ r.canonical}
           added(l) == Recorded(l, Depth(l.hash, poll.head))
<1>1. rows' = {r \in rows : \A l \in poll.logs : l.hash # r.hash \/ l.tx # r.tx}
                 \cup UNION {added(l) : l \in poll.logs}
  BY DEF Record
<1>2. \A l \in poll.logs :
        added(l) = IF same(l) # {} THEN same(l) ELSE {NewRow(l)}
  BY DEF Recorded, NewRow
<1>3. \A l \in poll.logs : NewRow(l) \in Rows
  <2> TAKE l \in poll.logs
  <2>1. l \in Logs
    BY PollIs
  <2>2. l.hash \in Hashes /\ l.tx \in Txs /\ Len(l.hash) \in Nat /\ poll.head \in Nat
    BY <2>1, PollIs, LenProperties DEF Logs, Hashes
  <2>3. Depth(l.hash, poll.head) \in Nat
    BY <2>2 DEF Depth, Height
  <2> QED
    BY <2>2, <2>3 DEF NewRow, Rows
<1>4. rows \subseteq Rows
  BY DEF TypeInv
<1> HIDE DEF added
<1>5. \A l \in poll.logs : \A r \in added(l) : r \in rows \/ r = NewRow(l)
  BY <1>2
<1>6. \A r \in rows' : r \in rows \/ \E l \in poll.logs : r = NewRow(l)
  BY <1>1, <1>5
<1>7. rows' \subseteq Rows
  BY <1>3, <1>4, <1>6
<1>8. ASSUME NEW r \in rows, r.canonical
      PROVE  r \in rows'
  <2>1. CASE \A l \in poll.logs : l.hash # r.hash \/ l.tx # r.tx
    BY <1>1, <2>1
  <2>2. CASE ~ \A l \in poll.logs : l.hash # r.hash \/ l.tx # r.tx
    <3>1. PICK l \in poll.logs : l.hash = r.hash /\ l.tx = r.tx
      BY <2>2
    <3>2. r \in same(l)
      BY <1>8, <3>1
    <3>3. r \in added(l)
      BY <1>2, <3>2
    <3> QED
      BY <1>1, <3>3
  <2> QED
    BY <2>1, <2>2
<1>9. ASSUME NEW l \in poll.logs
      PROVE  \E r \in rows' : r.canonical /\ r.hash = l.hash /\ r.tx = l.tx
  <2>1. CASE same(l) # {}
    <3>1. PICK r \in same(l) : TRUE
      BY <2>1
    <3>2. r \in rows /\ r.canonical /\ r.hash = l.hash /\ r.tx = l.tx
      BY <3>1
    <3> QED
      BY <1>8, <3>2
  <2>2. CASE same(l) = {}
    <3>1. NewRow(l) \in added(l)
      BY <1>2, <2>2
    <3>2. NewRow(l) \in rows'
      BY <1>1, <3>1
    <3> QED
      BY <3>2 DEF NewRow
  <2> QED
    BY <2>1, <2>2
<1> QED
  BY <1>6, <1>7, <1>8, <1>9

LEMMA FiledGrows ==
    ASSUME NEW rs, NEW new, \A r \in rs : r.canonical => r \in new,
           NEW c, NEW n, NEW t, Filed(rs, c, n, t)
    PROVE  Filed(new, c, n, t)
BY DEF Filed

LEMMA RecordIndex ==
    ASSUME IndexInv, Record
    PROVE  IndexInv'
<1>1. /\ poll.pc = "scanning" /\ poll.from > poll.head
      /\ next' = Max2(next, poll.head + 1)
      /\ poll' = After("depth")
      /\ UNCHANGED <<chain, final, reorgs, snaps, last, faults>>
  BY DEF Record, chainVars, At
<1>2. /\ TypeInv /\ Timely /\ AllFormed /\ Exact /\ Scanning /\ TerminalBacked
      /\ FirmTop \in Nat /\ FixedTop \in Nat /\ FirmTop <= FixedTop
      /\ final \in Nat /\ final <= poll.head /\ next \in Nat
      /\ poll.head \in Nat /\ poll.from \in Nat /\ poll.logs \in SUBSET Logs
  BY <1>1, Sized, PollIs DEF IndexInv, TypeInv, Timely
<1>3. /\ rows' \subseteq Rows
      /\ \A r \in rows : r.canonical => r \in rows'
      /\ \A r \in rows' : r \in rows \/ \E l \in poll.logs : r = NewRow(l)
      /\ \A l \in poll.logs :
           \E r \in rows' : r.canonical /\ r.hash = l.hash /\ r.tx = l.tx
  BY <1>2, RecordIs
<1>4. /\ poll' \in Polls
      /\ poll'.pc = "depth" /\ poll'.began = poll.began /\ poll'.head = poll.head
      /\ poll'.stale = {} /\ poll'.logs = {} /\ poll'.fin = 0
  BY <1>1, <1>2, AfterIs, AfterPolls DEF Counters, Holding
<1>5. FirmTop' = FirmTop /\ FixedTop' = FixedTop /\ (Steady' <=> Steady)
  BY <1>1, <1>4, SameTops
<1>6. TypeInv'
  <2>1. next' \in Nat
    BY <1>1, <1>2 DEF Max2
  <2> QED
    BY <1>1, <1>2, <1>3, <1>4, <2>1 DEF TypeInv
<1>7. Timely'
  BY <1>1, <1>2, <1>4, SameTimes
<1>8. AllFormed'
  <2>1. \A r \in rows' : Formed(r)
    BY <1>2, <1>3 DEF AllFormed, Formed, NewRow
  <2> QED
    BY <1>1, <1>2, <1>4, <2>1 DEF AllFormed
<1>9. Sound(rows', chain, FixedTop) /\ Sound(snaps, chain, FixedTop)
  <2>1. /\ Sound(rows, chain, FixedTop) /\ Sound(snaps, chain, FixedTop)
        /\ Present(poll.logs, chain, FixedTop)
    BY <1>1, <1>2 DEF Scanning, Reading
  <2>2. \A l \in poll.logs : NewRow(l).hash = l.hash
    BY DEF NewRow
  <2> QED
    BY <1>3, <2>1, <2>2 DEF Sound, Present
<1>10. AllFiled(rows', chain, FixedTop)
  <2>1. FixedTop <= poll.head
    BY <1>2 DEF FixedTop
  <2>2. Min2(poll.from - 1, FixedTop) = FixedTop
    BY <1>1, <1>2, <2>1 DEF Min2
  <2>3. Covered(rows, poll.logs, chain, FixedTop)
    BY <1>1, <1>2, <2>2 DEF Scanning
  <2> SUFFICES ASSUME NEW n \in 1..FixedTop, NEW t \in chain[n].txs
               PROVE  Filed(rows', chain, n, t)
    BY DEF AllFiled
  <2>4. CASE Filed(rows, chain, n, t)
    BY <1>3, <2>4, FiledGrows
  <2>5. CASE Scanned(poll.logs, chain, n, t)
    BY <1>3, <2>5 DEF Scanned, Filed
  <2> QED
    BY <2>3, <2>4, <2>5 DEF Covered
<1>11. Exact'
  <2>1. \A n \in 1..FirmTop : n \in 1..FixedTop
    BY <1>2
  <2>2. AllFiled(rows', chain, FirmTop)
    BY <1>10, <2>1 DEF AllFiled
  <2>3. Sound(rows', chain, FirmTop)
    <3>1. \A r \in rows' : Len(r.hash) \in Nat
      BY <1>3, LenProperties DEF Rows, Hashes
    <3> QED
      BY <1>2, <1>9, <3>1 DEF Sound
  <2>4. Sound(snaps, chain, FirmTop)
    BY <1>2 DEF Exact
  <2> QED
    BY <1>1, <1>5, <2>2, <2>3, <2>4 DEF Exact
<1>12. Checking'
  BY <1>4 DEF Checking, Absent
<1>13. Scanning'
  BY <1>1, <1>4, <1>5, <1>9, <1>10 DEF Scanning, Present
<1>14. Reporting'
  BY <1>4 DEF Reporting
<1>15. TerminalBacked'
  BY <1>1, <1>2, <1>3, <1>5 DEF TerminalBacked, Canonical, Kept
<1> QED
  BY <1>6, <1>7, <1>8, <1>11, <1>12, <1>13, <1>14, <1>15 DEF IndexInv

(* What UpdateDepth makes of the rows: the same rows, those that the head  *)
(* covers at their new depth.                                              *)
Deepened(r) ==
    IF r.canonical /\ poll.head + 1 >= Height(r.hash)
    THEN [r EXCEPT !.depth = Depth(r.hash, poll.head)] ELSE r

LEMMA DeepenedIs ==
    ASSUME TypeInv, NEW r \in Rows
    PROVE  /\ Deepened(r) \in Rows
           /\ Deepened(r).hash = r.hash /\ Deepened(r).tx = r.tx
           /\ Deepened(r).canonical = r.canonical
           /\ r.canonical /\ Len(r.hash) <= poll.head + 1
                => Deepened(r).depth = poll.head + 1 - Len(r.hash)
<1> DEFINE d == Depth(r.hash, poll.head)
<1>1. Len(r.hash) \in Nat /\ poll.head \in Nat
  BY PollIs, LenProperties DEF Rows, Hashes
<1>2. d \in Nat /\ (Len(r.hash) <= poll.head + 1 => d = poll.head + 1 - Len(r.hash))
  BY <1>1 DEF Depth, Height
<1>3. Deepened(r) = IF r.canonical /\ poll.head + 1 >= Len(r.hash)
                    THEN [r EXCEPT !.depth = d] ELSE r
  BY DEF Deepened, Height
<1> HIDE DEF d
<1> QED
  BY <1>1, <1>2, <1>3 DEF Rows

LEMMA UpdateDepthIndex ==
    ASSUME IndexInv, UpdateDepth
    PROVE  IndexInv'
<1>1. /\ poll.pc = "depth" /\ rows' = {Deepened(r) : r \in rows}
      /\ poll' = After("terminal")
      /\ UNCHANGED <<chain, final, reorgs, snaps, next, last, faults>>
  BY DEF UpdateDepth, chainVars, At, Deepened
<1>2. /\ TypeInv /\ Timely /\ AllFormed /\ Exact /\ Scanning /\ TerminalBacked
      /\ rows \subseteq Rows /\ poll.head \in Nat
  BY PollIs DEF IndexInv, TypeInv
<1>3. /\ \A r \in rows : r \in Rows /\ Deepened(r) \in rows'
      /\ \A y \in rows' : \E r \in rows : y = Deepened(r)
      /\ rows' \subseteq Rows
  BY <1>1, <1>2, DeepenedIs
<1>4. \A r \in rows : /\ Deepened(r).hash = r.hash /\ Deepened(r).tx = r.tx
                      /\ Deepened(r).canonical = r.canonical
  BY <1>2, DeepenedIs
<1>5. /\ poll' \in Polls
      /\ poll'.pc = "terminal" /\ poll'.began = poll.began /\ poll'.head = poll.head
      /\ poll'.stale = {} /\ poll'.logs = {} /\ poll'.fin = 0
  BY <1>1, <1>2, AfterIs, AfterPolls DEF Counters, Holding
<1>6. FirmTop' = FirmTop /\ FixedTop' = FixedTop /\ (Steady' <=> Steady)
  BY <1>1, <1>5, SameTops
<1>7. TypeInv'
  BY <1>1, <1>2, <1>3, <1>5 DEF TypeInv
<1>8. Timely'
  <2>1. final \in Nat
    BY <1>2 DEF TypeInv
  <2> QED
    BY <1>1, <1>5, <2>1, SameTimes
<1>9. AllFormed'
  <2>1. \A y \in rows' : Formed(y)
    BY <1>2, <1>3, <1>4 DEF AllFormed, Formed
  <2> QED
    BY <1>1, <1>2, <1>5, <2>1 DEF AllFormed
<1>10. ASSUME NEW m
       PROVE  /\ Sound(rows, chain, m) => Sound(rows', chain, m)
              /\ AllFiled(rows, chain, m) => AllFiled(rows', chain, m)
  <2>1. Sound(rows, chain, m) => Sound(rows', chain, m)
    BY <1>3, <1>4 DEF Sound
  <2>2. ASSUME NEW n, NEW t, Filed(rows, chain, n, t)
        PROVE  Filed(rows', chain, n, t)
    BY <1>3, <1>4, <2>2 DEF Filed
  <2> QED
    BY <2>1, <2>2 DEF AllFiled
<1>11. Exact'
  BY <1>1, <1>2, <1>6, <1>10 DEF Exact
<1>12. Checking'
  BY <1>5 DEF Checking, Absent
<1>13. Scanning'
  <2>1. /\ Sound(rows, chain, FixedTop) /\ Sound(snaps, chain, FixedTop)
        /\ AllFiled(rows, chain, FixedTop)
    BY <1>1, <1>2 DEF Scanning, Holding
  <2>2. Sound(rows', chain, FixedTop) /\ AllFiled(rows', chain, FixedTop)
    BY <1>10, <2>1
  <2> QED
    BY <1>1, <1>5, <1>6, <2>1, <2>2 DEF Scanning, Present
<1>14. Reporting'
  <2>1. ASSUME NEW y \in rows', y.canonical, Len(y.hash) <= poll.head
        PROVE  y.depth = poll.head + 1 - Len(y.hash)
    <3>1. PICK r \in rows : y = Deepened(r)
      BY <1>3
    <3>2. r \in Rows /\ y.hash = r.hash /\ r.canonical /\ Len(r.hash) \in Nat
      BY <1>2, <1>3, <1>4, <2>1, <3>1, LenProperties DEF Rows, Hashes
    <3>3. Len(r.hash) <= poll.head + 1
      BY <1>2, <2>1, <3>2
    <3> QED
      BY <1>2, <3>1, <3>2, <3>3, DeepenedIs
  <2> QED
    BY <1>5, <2>1 DEF Reporting
<1>15. TerminalBacked'
  <2> SUFFICES ASSUME Steady, last.terminal # << >>
               PROVE  \E r \in rows' : /\ r.canonical
                                       /\ r.hash = last.terminal /\ r.tx = "end"
                                       /\ r.depth >= Threshold
    BY <1>1, <1>2, <1>6 DEF TerminalBacked, Canonical, Kept
  <2>1. /\ Len(last.terminal) + Threshold <= last.head + 1
        /\ \E r \in rows : /\ r.canonical /\ r.hash = last.terminal /\ r.tx = "end"
    BY <1>2 DEF TerminalBacked, Canonical, Height
  <2>2. PICK r \in rows : r.canonical /\ r.hash = last.terminal /\ r.tx = "end"
    BY <2>1
  <2>3. last.head <= poll.head
    BY <1>1, SteadyPoll
  <2>4. /\ Threshold \in Nat /\ Len(last.terminal) \in Nat /\ last.head \in Nat
    BY <1>2, EventIndexAssumption, LenProperties DEF TypeInv, Hashes
  <2>5. Len(r.hash) <= poll.head + 1 /\ poll.head + 1 - Len(r.hash) >= Threshold
    BY SMTT(40), <1>2, <2>1, <2>2, <2>3, <2>4
  <2>6. Deepened(r).depth = poll.head + 1 - Len(r.hash)
    BY <1>2, <1>3, <2>2, <2>5, DeepenedIs
  <2>7. Deepened(r).depth >= Threshold
    BY <2>5, <2>6
  <2> QED
    BY <1>3, <1>4, <2>2, <2>7
<1> QED
  BY <1>7, <1>8, <1>9, <1>11, <1>12, <1>13, <1>14, <1>15 DEF IndexInv

-----------------------------------------------------------------------------
(* The terminal event and its balances.                                    *)

(* At one height only one block is canonical, if what is canonical is the  *)
(* chain's.                                                                *)
LEMMA OneHash ==
    ASSUME NEW xs, NEW c, NEW m, Sound(xs, c, m),
           NEW h, Len(h) <= m, Has(c, h),
           \E x \in xs : x.canonical /\ Len(x.hash) = Len(h)
    PROVE  {x.hash : x \in {y \in {z \in xs : z.canonical} :
                               Len(y.hash) = Len(h)}} = {h}
<1>1. \A x \in xs : x.canonical /\ Len(x.hash) = Len(h) => x.hash = h
  BY DEF Sound, Has
<1> QED
  BY <1>1

Vouched(t, xs) ==
    poll.began = reorgs /\ t # << >> =>
        /\ Deep(rows, t, poll.head)
        /\ \E x \in xs : x.canonical /\ Len(x.hash) = Len(t)

(* A poll that completes makes firm what it read.                          *)
LEMMA CompleteIndex ==
    ASSUME IndexInv, poll.pc \in Holding,
           UNCHANGED <<chain, final, reorgs, rows, next, faults>>,
           NEW t \in Hashes, Complete(t),
           snaps' \subseteq Balances, Sound(snaps', chain, FixedTop),
           Vouched(t, snaps')
    PROVE  IndexInv'
<1>1. /\ last' = [head |-> poll.head, began |-> poll.began, terminal |-> t]
      /\ poll' = NoPoll
  BY DEF Complete
<1>2. /\ last'.head = poll.head /\ last'.began = poll.began /\ last'.terminal = t
  BY <1>1
<1>3. /\ TypeInv /\ Timely /\ AllFormed /\ Scanning
      /\ FixedTop \in Nat /\ FixedTop <= Len(chain) /\ final \in Nat
      /\ final <= poll.head /\ poll.head \in Nat /\ poll.began \in Nat
      /\ poll.began <= reorgs /\ chain \in Hashes /\ Len(chain) \in Nat
  BY Sized, PollIs DEF IndexInv, TypeInv, Timely, Holding
<1>4. FirmTop' = FixedTop /\ (Steady' <=> poll.began = reorgs)
  BY <1>2 DEF FirmTop, FixedTop, Steady
<1>5. poll.began = reorgs => FixedTop = poll.head
  BY <1>3 DEF FixedTop
<1>6. /\ Sound(rows, chain, FixedTop) /\ AllFiled(rows, chain, FixedTop)
  BY <1>3 DEF Scanning
<1>7. TypeInv'
  <2>1. last' \in [head : Nat, began : Nat, terminal : Hashes]
    BY <1>1, <1>3
  <2> QED
    BY <1>1, <1>3, <2>1, NoPollIs DEF TypeInv
<1>8. Timely'
  <2>1. FixedTop' <= Len(chain)
    <3>1. final <= Len(chain) /\ ~(final < 0)
      BY <1>3 DEF TypeInv
    <3>2. FixedTop' = final
      BY <1>1, <3>1, NoPollIs DEF FixedTop
    <3> QED
      BY <3>1, <3>2
  <2>2. poll'.pc = "idle" /\ poll'.began = 0 /\ reorgs \in Nat
    BY <1>1, <1>3, NoPollIs DEF TypeInv
  <2> QED
    BY <1>1, <1>2, <1>3, <1>4, <2>1, <2>2 DEF Timely
<1>9. AllFormed'
  BY <1>1, <1>3, NoPollIs DEF AllFormed
<1>10. Exact'
  BY <1>4, <1>6 DEF Exact
<1>11. Checking' /\ Scanning' /\ Reporting'
  BY <1>1, IdleRests
<1>12. TerminalBacked'
  <2> SUFFICES ASSUME poll.began = reorgs, t # << >>
               PROVE  /\ Len(t) + Threshold <= poll.head + 1
                      /\ \E r \in rows : /\ r.canonical
                                         /\ r.hash = t /\ r.tx = "end"
                                         /\ r.depth >= Threshold
                      /\ {x.hash : x \in {y \in {z \in snaps' : z.canonical} :
                                             Len(y.hash) = Len(t)}} = {t}
    BY <1>2, <1>4 DEF TerminalBacked, Canonical, Kept, Height
  <2>1. /\ Len(t) + Threshold <= poll.head + 1
        /\ \E r \in rows : /\ r.canonical /\ r.hash = t /\ r.tx = "end"
                           /\ r.depth >= Threshold
        /\ \E x \in snaps' : x.canonical /\ Len(x.hash) = Len(t)
    BY DEF Vouched, Deep
  <2>2. Len(t) <= FixedTop
    <3>1. Len(t) \in Nat /\ Threshold \in Nat /\ Threshold >= 1
      BY EventIndexAssumption, LenProperties DEF Hashes
    <3> QED
      BY <1>3, <1>5, <2>1, <3>1
  <2>3. Has(chain, t)
    BY <1>6, <2>1, <2>2 DEF Sound
  <2>4. {x.hash : x \in {y \in {z \in snaps' : z.canonical} :
                            Len(y.hash) = Len(t)}} = {t}
    BY ZenonT(60), <2>1, <2>2, <2>3, OneHash
  <2> QED
    BY <2>1, <2>4
<1> QED
  BY <1>7, <1>8, <1>9, <1>10, <1>11, <1>12 DEF IndexInv

LEMMA DueIs ==
    ASSUME IndexInv, poll.pc = "terminal", Due # << >>
    PROVE  Deep(rows, Due, poll.head) /\ Due \in Hashes
<1> DEFINE ends == {r \in Canonical : r.tx = "end"}
           heights == {Len(r.hash) : r \in ends}
           first == CHOOSE r \in ends : \A x \in ends : Height(r.hash) <= Height(x.hash)
<1>1. /\ ends # {} /\ Due = first.hash
      /\ ~(poll.head + 1 < Height(first.hash) + Threshold)
  BY DEF Due
<1>2. /\ \A r \in ends : r \in rows /\ r.canonical /\ r.tx = "end"
      /\ \A r \in rows : r.hash \in Hashes /\ Len(r.hash) \in Nat
  BY Sized DEF IndexInv, Canonical
<1>3. \E r \in ends : \A x \in ends : Len(r.hash) <= Len(x.hash)
  <2>1. heights \in SUBSET Nat /\ heights # {}
    BY <1>1, <1>2
  <2>2. PICK m \in heights : \A k \in heights : m <= k
    BY <2>1, LowestIs
  <2> QED
    BY <2>2
<1>4. first \in ends
  BY <1>3 DEF Height
<1> HIDE DEF first, ends
<1>5. /\ first \in rows /\ first.canonical /\ first.tx = "end"
      /\ first.hash \in Hashes /\ Len(first.hash) \in Nat
  BY <1>2, <1>4
<1>6. poll.head \in Nat /\ Threshold \in Nat /\ Threshold >= 1
  BY PollIs, EventIndexAssumption DEF IndexInv
<1>7. Len(first.hash) + Threshold <= poll.head + 1 /\ Len(first.hash) <= poll.head
  BY <1>1, <1>5, <1>6 DEF Height
<1>8. first.depth = poll.head + 1 - Len(first.hash)
  BY <1>5, <1>7 DEF IndexInv, Reporting
<1>9. first.depth >= Threshold
  BY <1>5, <1>6, <1>7, <1>8
<1> QED
  BY <1>1, <1>5, <1>7, <1>9 DEF Deep

(* A report of the same rows and balances.                                 *)
LEMMA ReportsIndex ==
    ASSUME IndexInv, poll.pc \in Holding,
           UNCHANGED <<chain, final, reorgs, rows, snaps, next, faults>>,
           NEW t \in Hashes, Complete(t), Vouched(t, snaps)
    PROVE  IndexInv'
<1>1. snaps' \subseteq Balances
  BY DEF IndexInv, TypeInv
<1>2. Sound(snaps', chain, FixedTop)
  BY DEF IndexInv, Scanning
<1>3. Vouched(t, snaps')
  OBVIOUS
<1> QED
  BY <1>1, <1>2, <1>3, CompleteIndex

LEMMA ConfirmTerminalIndex ==
    ASSUME IndexInv, ConfirmTerminal
    PROVE  IndexInv'
<1>1. /\ poll.pc = "terminal"
      /\ UNCHANGED <<chain, final, reorgs, rows, snaps, next, faults>>
  BY DEF ConfirmTerminal, chainVars, At
<1>2. CASE /\ Due = << >> \/ \E x \in Kept : Height(x.hash) = Height(Due)
           /\ Complete(Due)
  <2>1. Due \in Hashes
    <3>1. << >> \in Hashes
      BY EmptySeq DEF Hashes
    <3> QED
      BY <1>1, <3>1, DueIs
  <2>2. Vouched(Due, snaps)
    BY <1>1, <1>2, DueIs DEF Vouched, Kept, Height
  <2>3. poll.pc \in Holding
    BY <1>1 DEF Holding
  <2> QED
    BY <1>1, <1>2, <2>1, <2>2, <2>3, ReportsIndex
<1>3. CASE /\ Due # << >>
           /\ poll' = [poll EXCEPT !.pc = "block", !.due = Due]
           /\ UNCHANGED last
  <2>1. Deep(rows, Due, poll.head) /\ Due \in Hashes
    BY <1>1, <1>3, DueIs
  <2>2. TypeInv /\ poll \in Polls /\ poll.fin \in Nat /\ poll.fin <= final
    BY <1>1, PollIs DEF IndexInv, TypeInv, Timely
  <2>3. /\ poll' \in Polls
        /\ poll'.pc = "block" /\ poll'.began = poll.began /\ poll'.head = poll.head
        /\ poll'.stale = poll.stale /\ poll'.logs = poll.logs
        /\ poll'.fin = poll.fin /\ poll'.due = Due
    BY <1>3, <2>1, <2>2 DEF Polls, Counters, Holding
  <2>4. /\ FirmTop' = FirmTop /\ Exact' /\ TerminalBacked' /\ FixedTop' = FixedTop
        /\ \A r \in rows' : Formed(r)
    BY <1>1, <1>3, <2>3, PollMoves
  <2>5. TypeInv'
    BY <1>1, <1>3, <2>2, <2>3 DEF TypeInv
  <2>6. Timely'
    BY <1>1, <1>3, <2>2, <2>3, SameTimes
  <2>7. AllFormed'
    BY <2>3, <2>4 DEF AllFormed, IndexInv
  <2>8. Checking'
    BY <1>1, <2>3, <2>4 DEF IndexInv, Checking
  <2>9. Scanning'
    BY <1>1, <2>3, <2>4 DEF IndexInv, Scanning, Holding
  <2>10. Reporting'
    BY <1>1, <2>1, <2>3 DEF Reporting
  <2> QED
    BY <2>4, <2>5, <2>6, <2>7, <2>8, <2>9, <2>10 DEF IndexInv
<1> QED
  BY <1>2, <1>3 DEF ConfirmTerminal

(* Until something replaces blocks, the reported event is in the chain.    *)
LEMMA DueOnChain ==
    ASSUME IndexInv, poll.pc \in {"block", "balances"}, poll.began = reorgs
    PROVE  /\ Deep(rows, poll.due, poll.head) /\ poll.due \in Hashes
           /\ Len(poll.due) <= FixedTop /\ Has(chain, poll.due)
<1>1. Deep(rows, poll.due, poll.head)
  BY DEF IndexInv, Reporting
<1>2. /\ poll.due \in Hashes /\ poll.head \in Nat /\ final \in Nat
      /\ final <= poll.head /\ Threshold \in Nat /\ Threshold >= 1
  BY PollIs, EventIndexAssumption DEF IndexInv, TypeInv, Timely
<1>3. FixedTop = poll.head
  BY <1>2 DEF FixedTop
<1>4. Len(poll.due) \in Nat
  BY <1>2, LenProperties DEF Hashes
<1>5. Len(poll.due) <= FixedTop
  BY <1>1, <1>2, <1>3, <1>4 DEF Deep
<1>6. Sound(rows, chain, FixedTop)
  BY DEF IndexInv, Scanning, Holding
<1> QED
  BY <1>1, <1>2, <1>5, <1>6 DEF Deep, Sound

LEMMA ReadBlockIndex ==
    ASSUME IndexInv, ReadBlock
    PROVE  IndexInv'
<1>1. /\ poll.pc = "block"
      /\ UNCHANGED <<chain, final, reorgs, rows, snaps, next, faults>>
  BY DEF ReadBlock, chainVars, At
<1>2. /\ TypeInv /\ poll \in Polls /\ poll.fin \in Nat /\ poll.fin <= final
      /\ poll.due \in Hashes /\ Len(poll.due) \in Nat
      /\ chain \in Hashes /\ Len(chain) \in Nat
  BY <1>1, PollIs, LenProperties DEF IndexInv, TypeInv, Timely, Hashes
<1>3. CASE /\ Height(poll.due) > Len(chain)
           /\ Complete(poll.due)
  <2>1. poll.began # reorgs
    <3> SUFFICES ASSUME poll.began = reorgs PROVE FALSE
      OBVIOUS
    <3>1. Has(chain, poll.due)
      BY <1>1, DueOnChain
    <3> QED
      BY <1>2, <1>3, <3>1 DEF Has, Height
  <2>2. Vouched(poll.due, snaps) /\ poll.pc \in Holding
    BY <1>1, <2>1 DEF Vouched, Holding
  <2> QED
    BY <1>1, <1>2, <1>3, <2>2, ReportsIndex
<1>4. CASE /\ Height(poll.due) <= Len(chain)
           /\ poll' = [poll EXCEPT !.pc = "balances", !.read = Hash(Height(poll.due))]
           /\ UNCHANGED last
  <2> DEFINE read == SubSeq(chain, 1, Len(poll.due))
  <2>1. read \in Hashes /\ Has(chain, read)
    BY <1>2, <1>4, PrefixIs DEF Height
  <2>2. poll.began = reorgs => read = poll.due
    BY <1>1, DueOnChain DEF Has
  <2>3. poll' = [poll EXCEPT !.pc = "balances", !.read = read]
    BY <1>4 DEF Hash, Height
  <2> HIDE DEF read
  <2>4. /\ poll' \in Polls
        /\ poll'.pc = "balances" /\ poll'.began = poll.began /\ poll'.head = poll.head
        /\ poll'.stale = poll.stale /\ poll'.logs = poll.logs
        /\ poll'.fin = poll.fin /\ poll'.due = poll.due /\ poll'.read = read
    BY <1>2, <2>1, <2>3 DEF Polls, Counters, Holding
  <2>5. /\ FirmTop' = FirmTop /\ Exact' /\ TerminalBacked' /\ FixedTop' = FixedTop
        /\ \A r \in rows' : Formed(r)
    BY <1>1, <1>4, <2>4, PollMoves
  <2>6. TypeInv'
    BY <1>1, <1>2, <1>4, <2>4 DEF TypeInv
  <2>7. Timely'
    BY <1>1, <1>2, <1>4, <2>4, SameTimes
  <2>8. AllFormed'
    BY <2>4, <2>5 DEF AllFormed, IndexInv
  <2>9. Checking'
    BY <1>1, <2>4, <2>5 DEF IndexInv, Checking
  <2>10. Scanning'
    BY <1>1, <2>4, <2>5 DEF IndexInv, Scanning, Holding
  <2>11. Reporting'
    BY <1>1, <2>1, <2>2, <2>4 DEF IndexInv, Reporting
  <2> QED
    BY <2>5, <2>6, <2>7, <2>8, <2>9, <2>10, <2>11 DEF IndexInv
<1> QED
  BY <1>3, <1>4 DEF ReadBlock

LEMMA ReadBalancesIndex ==
    ASSUME IndexInv, ReadBalances
    PROVE  IndexInv'
<1> DEFINE read == [hash |-> poll.read, canonical |-> TRUE,
                    of |-> Hash(Height(poll.read))]
           again(x) == [x EXCEPT !.canonical = TRUE]
<1>1. /\ poll.pc = "balances" /\ Height(poll.read) <= Len(chain)
      /\ snaps' = Added(read)
      /\ Complete(poll.due)
      /\ UNCHANGED <<chain, final, reorgs, rows, next, faults>>
  BY DEF ReadBalances, chainVars, At
<1>2. /\ TypeInv /\ poll.due \in Hashes /\ poll.read \in Hashes
      /\ chain \in Hashes /\ Len(poll.read) \in Nat /\ Len(chain) \in Nat
      /\ snaps \subseteq Balances
  BY PollIs, LenProperties DEF IndexInv, TypeInv, Hashes
<1>3. read \in Balances /\ read.hash = poll.read /\ read.canonical = TRUE
  <2>1. SubSeq(chain, 1, Len(poll.read)) \in Hashes
    BY <1>1, <1>2, PrefixIs DEF Height
  <2> QED
    BY <1>2, <2>1 DEF Balances, Hash, Height
<1> HIDE DEF read
<1>4. \A x \in Balances : /\ again(x) \in Balances /\ again(x).hash = x.hash
                          /\ again(x).canonical = TRUE
  BY DEF Balances
<1> DEFINE known == {x \in snaps : x.hash = poll.read}
<1>5. snaps' = IF known = {} THEN snaps \cup {read}
               ELSE (snaps \ known) \cup {again(x) : x \in known}
  BY <1>1, <1>3 DEF Added
<1> HIDE DEF again
<1>6. /\ snaps' \subseteq Balances
      /\ \A x \in snaps' : x \in snaps \/ x.hash = poll.read
      /\ \E x \in snaps' : x.canonical /\ x.hash = poll.read
  <2>1. CASE known = {}
    BY <1>2, <1>3, <1>5, <2>1
  <2>2. CASE known # {}
    <3>1. \A x \in known : x \in Balances /\ x.hash = poll.read
      BY <1>2
    <3>2. PICK x \in known : TRUE
      BY <2>2
    <3>3. again(x) \in snaps'
      BY <1>5, <2>2, <3>2
    <3>4. again(x).canonical /\ again(x).hash = poll.read
      BY <1>4, <3>1, <3>2
    <3> QED
      BY <1>2, <1>4, <1>5, <2>2, <3>1, <3>3, <3>4
  <2> QED
    BY <2>1, <2>2
<1>7. Sound(snaps', chain, FixedTop)
  <2>1. Sound(snaps, chain, FixedTop)
    BY <1>1 DEF IndexInv, Scanning, Holding
  <2>2. Len(poll.read) <= FixedTop => Has(chain, poll.read)
    BY <1>1 DEF IndexInv, Reporting
  <2> QED
    BY <1>6, <2>1, <2>2 DEF Sound
<1>8. Vouched(poll.due, snaps')
  BY <1>1, <1>6 DEF Vouched, IndexInv, Reporting
<1>9. poll.pc \in Holding
  BY <1>1 DEF Holding
<1> QED
  BY <1>1, <1>2, <1>6, <1>7, <1>8, <1>9, CompleteIndex

-----------------------------------------------------------------------------
(* The steps that end the poll early.                                      *)

LEMMA GivesUpIndex ==
    ASSUME IndexInv, poll' = NoPoll, faults' \in Nat, next' \in Nat,
           UNCHANGED <<chain, final, reorgs, rows, snaps>>,
           UNCHANGED last \/ last' = NothingPolled
    PROVE  IndexInv'
<1>1. /\ TypeInv /\ Timely /\ AllFormed /\ Exact /\ TerminalBacked
      /\ final \in Nat /\ final <= Len(chain) /\ Len(chain) \in Nat
      /\ FirmTop \in Nat /\ final <= FirmTop /\ FirmTop <= Len(chain)
      /\ reorgs \in Nat /\ chain \in Hashes
  BY Sized DEF IndexInv, TypeInv, Timely
<1>2. /\ poll' \in Polls /\ poll'.pc = "idle" /\ poll'.began = 0 /\ poll'.head = 0
      /\ poll'.logs = {}
  BY NoPollIs
<1>3. FixedTop' = final
  <2>1. ~(final < 0)
    BY <1>1
  <2> QED
    BY <1>2, <2>1 DEF FixedTop
<1>4. Checking' /\ Scanning' /\ Reporting'
  BY IdleRests
<1>5. AllFormed'
  BY <1>1, <1>2 DEF AllFormed
<1>6. CASE UNCHANGED last
  <2>1. FirmTop' = FirmTop /\ (Steady' <=> Steady)
    BY <1>6 DEF FirmTop, Steady
  <2>2. TypeInv'
    BY <1>1, <1>2, <1>6 DEF TypeInv
  <2>3. Timely'
    BY <1>1, <1>2, <1>3, <1>6, <2>1 DEF Timely
  <2>4. Exact'
    BY <1>1, <2>1 DEF Exact
  <2>5. TerminalBacked'
    BY <1>1, <1>6, <2>1 DEF TerminalBacked, Canonical, Kept
  <2> QED
    BY <1>4, <1>5, <2>2, <2>3, <2>4, <2>5 DEF IndexInv
<1>7. CASE last' = NothingPolled
  <2>1. last'.head = 0 /\ last'.began = 0 /\ last'.terminal = << >>
    BY <1>7 DEF NothingPolled
  <2>2. FirmTop' = final
    <3>1. ~(final < 0)
      BY <1>1
    <3> QED
      BY <2>1, <3>1 DEF FirmTop
  <2>3. TypeInv'
    <3>1. last' \in [head : Nat, began : Nat, terminal : Hashes]
      BY <1>7, EmptySeq DEF NothingPolled, Hashes
    <3> QED
      BY <1>1, <1>2, <3>1 DEF TypeInv
  <2>4. Timely'
    BY <1>1, <1>2, <1>3, <2>1, <2>2 DEF Timely
  <2>5. Exact'
    <3>1. \A x \in rows : Len(x.hash) \in Nat
      BY <1>1, Sized
    <3>2. \A x \in snaps : Len(x.hash) \in Nat
      BY <1>1, Sized
    <3>3. Sound(rows, chain, final) /\ Sound(snaps, chain, final)
      BY <1>1, <3>1, <3>2 DEF Exact, Sound
    <3>4. AllFiled(rows, chain, final)
      BY <1>1 DEF Exact, AllFiled
    <3> QED
      BY <2>2, <3>3, <3>4 DEF Exact
  <2>6. TerminalBacked'
    BY <2>1 DEF TerminalBacked
  <2> QED
    BY <1>4, <1>5, <2>3, <2>4, <2>5, <2>6 DEF IndexInv
<1> QED
  BY <1>6, <1>7

LEMMA BalancesRefusedIndex ==
    ASSUME IndexInv, BalancesRefused
    PROVE  IndexInv'
<1>1. faults \in Nat /\ next \in Nat
  BY DEF IndexInv, TypeInv
<1> QED
  BY <1>1, GivesUpIndex DEF BalancesRefused, chainVars, indexerVars

LEMMA FailIndex ==
    ASSUME IndexInv, Fail
    PROVE  IndexInv'
<1>1. faults + 1 \in Nat /\ next \in Nat
  BY DEF IndexInv, TypeInv
<1> QED
  BY <1>1, GivesUpIndex DEF Fail, chainVars, indexerVars

LEMMA RestartIndex ==
    ASSUME IndexInv, Restart
    PROVE  IndexInv'
<1>1. faults + 1 \in Nat /\ Start \in Nat
  BY DEF IndexInv, TypeInv, Start
<1> QED
  BY <1>1, GivesUpIndex DEF Restart, chainVars

-----------------------------------------------------------------------------
LEMMA IndexInit ==
    ASSUME Init
    PROVE  IndexInv
<1>1. /\ chain = << >> /\ final = 0 /\ reorgs = 0 /\ rows = {} /\ snaps = {}
      /\ next = 1 /\ poll = NoPoll /\ last = NothingPolled /\ faults = 0
  BY DEF Init, Start
<1>2. chain \in Hashes /\ Len(chain) = 0
  BY <1>1, EmptySeq DEF Hashes
<1>3. last.head = 0 /\ last.began = 0 /\ last.terminal = << >>
  BY <1>1 DEF NothingPolled
<1>4. FirmTop = 0 /\ FixedTop = 0
  BY <1>1, <1>3, NoPollIs DEF FirmTop, FixedTop
<1>5. TypeInv
  <2>1. last \in [head : Nat, began : Nat, terminal : Hashes]
    BY <1>1, EmptySeq DEF NothingPolled, Hashes
  <2> QED
    BY <1>1, <1>2, <2>1, NoPollIs DEF TypeInv
<1>6. Timely
  BY <1>1, <1>2, <1>3, <1>4, NoPollIs DEF Timely
<1>7. AllFormed /\ Exact
  BY <1>1, <1>4, NoPollIs DEF AllFormed, Exact, Sound, AllFiled
<1>8. Checking /\ Scanning /\ Reporting
  BY <1>1, NoPollIs DEF Checking, Absent, Scanning, Present, Reporting, Reading, Holding
<1>9. TerminalBacked
  BY <1>3 DEF TerminalBacked
<1> QED
  BY <1>5, <1>6, <1>7, <1>8, <1>9 DEF IndexInv

LEMMA IndexStep ==
    ASSUME Slow, IndexInv, [Next]_vars
    PROVE  IndexInv'
<1>1. CASE \E b \in Block : Mine(b) \/ \E n \in 1..MaxHeight : Reorg(n, b)
  BY <1>1, MineIndex, ReorgIndex
<1>2. CASE Finalize
  BY <1>2, FinalizeIndex
<1>3. CASE ReadHead \/ ReadFinalized \/ CheckBlock \/ Rewind \/ NothingStale
  BY <1>3, ReadHeadIndex, ReadFinalizedIndex, CheckBlockIndex, RewindIndex,
     NothingStaleIndex
<1>4. CASE ReadReceipts \/ ScanChunk \/ Record \/ UpdateDepth \/ ConfirmTerminal
  BY <1>4, ReadReceiptsIndex, ScanChunkIndex, RecordIndex, UpdateDepthIndex,
     ConfirmTerminalIndex
<1>5. CASE ReadBlock \/ ReadBalances \/ BalancesRefused
  BY <1>5, ReadBlockIndex, ReadBalancesIndex, BalancesRefusedIndex
<1>6. CASE Fail \/ Restart
  BY <1>6, FailIndex, RestartIndex
<1>7. CASE UNCHANGED vars
  <2>1. /\ UNCHANGED <<chain, final, rows, snaps, next, poll, last, reorgs, faults>>
    BY <1>7 DEF vars
  <2>2. FirmTop' = FirmTop /\ FixedTop' = FixedTop /\ (Steady' <=> Steady)
    BY <2>1 DEF FirmTop, FixedTop, Steady
  <2>3. TypeInv' /\ Timely' /\ AllFormed'
    BY <2>1, <2>2 DEF IndexInv, TypeInv, Timely, AllFormed
  <2>4. Exact' /\ Checking' /\ Scanning'
    BY <2>1, <2>2 DEF IndexInv, Exact, Checking, Scanning
  <2>5. Reporting' /\ TerminalBacked'
    BY <2>1, <2>2 DEF IndexInv, Reporting, TerminalBacked, Canonical, Kept
  <2> QED
    BY <2>3, <2>4, <2>5 DEF IndexInv
<1> QED
  BY <1>1, <1>2, <1>3, <1>4, <1>5, <1>6, <1>7 DEF Next, Step

(* What the rows say below the last complete poll's head is what the chain *)
(* says.                                                                   *)
LEMMA RowsAreLogs ==
    ASSUME IndexInv
    PROVE  CanonicalIsChain
<1> SUFFICES ASSUME Steady
             PROVE  {[hash |-> r.hash, tx |-> r.tx] :
                        r \in {x \in Canonical : Height(x.hash) <= last.head}}
                      = LogsIn(1, last.head)
  BY DEF CanonicalIsChain
<1> DEFINE filed == {[hash |-> r.hash, tx |-> r.tx] :
                        r \in {x \in Canonical : Height(x.hash) <= last.head}}
<1>1. /\ TypeInv /\ AllFormed /\ Exact
      /\ final \in Nat /\ last.head \in Nat /\ FirmTop \in Nat
      /\ chain \in Hashes /\ Len(chain) \in Nat /\ FirmTop <= Len(chain)
  BY Sized DEF IndexInv, TypeInv, Timely
<1>2. last.head <= FirmTop
  BY <1>1 DEF FirmTop
<1>3. ASSUME NEW l \in filed
      PROVE  l \in LogsIn(1, last.head)
  <2>1. PICK r \in rows : /\ r.canonical /\ Len(r.hash) <= last.head
                          /\ l = [hash |-> r.hash, tx |-> r.tx]
    BY DEF Canonical, Height
  <2>2. Formed(r) /\ r.hash \in Hashes /\ Len(r.hash) \in Nat
    BY <1>1, Sized DEF AllFormed
  <2>3. Has(chain, r.hash)
    BY <1>1, <1>2, <2>1, <2>2 DEF Exact, Sound
  <2> DEFINE n == Len(r.hash)
  <2>4. n \in 1..last.head /\ n \in Nat /\ n <= Len(chain)
        /\ r.hash = SubSeq(chain, 1, n)
    BY <1>1, <2>1, <2>2, <2>3 DEF Has, Formed
  <2>5. SubSeq(chain, 1, n)[n] = chain[n]
    BY <1>1, <2>4, PrefixIs
  <2>6. r.tx \in chain[n].txs
    BY <2>2, <2>4, <2>5 DEF Formed
  <2>7. [hash |-> SubSeq(chain, 1, n), tx |-> r.tx] \in LogsIn(1, last.head)
    BY <1>1, <2>4, <2>6, LogsAre
  <2> QED
    BY <2>1, <2>4, <2>7
<1>4. ASSUME NEW l \in LogsIn(1, last.head)
      PROVE  l \in filed
  <2>0. PICK n \in 1..Min2(last.head, Len(chain)) : \E t \in chain[n].txs :
           l = [hash |-> SubSeq(chain, 1, n), tx |-> t]
    BY DEF LogsIn, Hash
  <2>1. PICK t \in chain[n].txs : l = [hash |-> SubSeq(chain, 1, n), tx |-> t]
    BY <2>0
  <2>2. n \in Nat /\ n <= last.head /\ n <= Len(chain) /\ n \in 1..FirmTop
    BY <1>1, <1>2 DEF Min2
  <2>3. Filed(rows, chain, n, t)
    BY <1>1, <2>2 DEF Exact, AllFiled
  <2>4. PICK r \in rows : r.canonical /\ r.hash = SubSeq(chain, 1, n) /\ r.tx = t
    BY <2>3 DEF Filed
  <2>5. Len(r.hash) <= last.head
    BY <1>1, <2>2, <2>4, PrefixIs
  <2>6. r \in {x \in Canonical : Height(x.hash) <= last.head}
    BY <2>4, <2>5 DEF Canonical, Height
  <2>7. l = [hash |-> r.hash, tx |-> r.tx]
    BY <2>1, <2>4
  <2> QED
    BY <2>6, <2>7
<1> HIDE DEF filed
<1>5. filed = LogsIn(1, last.head)
  BY <1>3, <1>4
<1> QED
  BY <1>5 DEF filed

(* When a block is polled before it is final, the canonical rows up to the *)
(* last complete poll's head are exactly the chain's logs, unless blocks   *)
(* were replaced since it began; for any chain, any order of the poll's    *)
(* reads with the blocks mined, replaced and finalized between them, any   *)
(* failed polls and restarts (Indexer.poll and the steps it awaits).       *)
THEOREM CanonicalIsChainTheorem == ASSUME Slow PROVE Spec => []CanonicalIsChain
<1>1. IndexInv /\ [Next]_vars => IndexInv'
  BY IndexStep
<1>2. Init => IndexInv
  BY IndexInit
<1>3. IndexInv => CanonicalIsChain
  BY RowsAreLogs
<1> QED
  BY <1>1, <1>2, <1>3, PTL DEF Spec

(* Under the same condition, what such a poll reports as a session's end   *)
(* is on the chain under its threshold of blocks, with a canonical row     *)
(* that says so and no balances but its own block's filed at its height    *)
(* (Indexer._terminal and the snapshot it takes).                          *)
THEOREM TerminalBackedTheorem == ASSUME Slow PROVE Spec => []TerminalBacked
<1>1. IndexInv /\ [Next]_vars => IndexInv'
  BY IndexStep
<1>2. Init => IndexInv
  BY IndexInit
<1>3. IndexInv => TerminalBacked
  BY DEF IndexInv
<1> QED
  BY <1>1, <1>2, <1>3, PTL DEF Spec
=============================================================================
