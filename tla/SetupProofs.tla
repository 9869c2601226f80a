----------------------------- MODULE SetupProofs ------------------------------
(***************************************************************************)
(* Theorems about Setup, for any processes, fees, durations and faults:    *)
(* what a run that could not be created leaves at the agents; and, while   *)
(* no second process takes a run over from one that is stalled, what set-up*)
(* does on the chain and what it has seen when the run goes on.            *)
(***************************************************************************)
EXTENDS Setup, FiniteSetTheorems, SequenceTheorems, WellFoundedInduction, TLAPS

-----------------------------------------------------------------------------
(* The parts of the state.                                                 *)

Kinds == SetupKinds \cup {"create_session"}
Statuses == {"pending", "submitted", "included", "confirmed", "dropped", "reverted"}
Creating == {"provision", "undo", "commit"}
Resting == {"idle", "down"}
Counters == Creating \cup Resting \cup
    {"pre", "mint", "send", "approvals", "ask", "submit", "nonce", "record", "create",
     "approve", "post", "stop", "done"}
Afterwards == {"idle", "mint", "nonce", "approvals", "stop", "record", "create", "approve"}

(* Fees and wei are sums over the chain; nothing here depends on them.     *)
IsRow(r) ==
    r = [kind |-> r.kind, party |-> r.party, nonce |-> r.nonce, fee |-> r.fee,
         status |-> r.status, session |-> r.session]
IsListed(s) == s \in Seq({s[k] : k \in DOMAIN s})
IsPerParty(f) == f = [q \in Parties |-> f[q]]

RowsTyped(rs) ==
    /\ IsListed(rs)
    /\ \A k \in DOMAIN rs :
         /\ IsRow(rs[k])
         /\ rs[k].kind \in Kinds /\ rs[k].status \in Statuses
         /\ rs[k].party \in Parties \cup {"both"}

DbTyped ==
    /\ db = [rows |-> db.rows, session |-> db.session, nonce |-> db.nonce,
             base |-> db.base, event |-> db.event, run |-> db.run,
             fresh |-> db.fresh, post |-> db.post]
    /\ RowsTyped(db.rows) /\ IsPerParty(db.nonce)
    /\ db.fresh \in Nat \ {0}

ChainTyped ==
    /\ chain = [soft |-> chain.soft, deep |-> chain.deep, time |-> chain.time,
                base |-> chain.base, lost |-> chain.lost]
    /\ IsFiniteSet(chain.soft) /\ IsFiniteSet(chain.deep)
    /\ chain.base \in Nat \ {0}

(* The parties a process has still to mint for.                            *)
Left(x) == {k \in Unminted(x.st) : k >= x.i}

IsProcess(x) ==
    /\ x = [pc |-> x.pc, i |-> x.i, busy |-> x.busy, st |-> x.st, ask |-> x.ask,
            session |-> x.session, terms |-> x.terms, row |-> x.row, then |-> x.then]
    /\ x.pc \in Counters /\ x.then \in Afterwards
    /\ x.i \in 0..2 /\ x.busy \in 0..2
    /\ x.pc # "undo" => x.i # 0
    /\ x.pc = "idle" => x.i = 1 /\ x.busy = 0 /\ x.then = "idle"
    /\ x.pc = "mint" \/ (x.pc = "send" /\ x.then = "mint") => Left(x) # {}
    /\ IsPerParty(x.terms)

IsAgent(a) ==
    /\ a = [entry |-> a.entry, late |-> a.late]
    /\ a.late \in BOOLEAN

TypeInv ==
    /\ DbTyped /\ ChainTyped
    /\ procs = [p \in Procs |-> procs[p]] /\ \A p \in Procs : IsProcess(procs[p])
    /\ agents = [q \in Parties |-> agents[q]] /\ \A q \in Parties : IsAgent(agents[q])
    /\ owner \in Procs
    /\ faults \in 0..MaxFaults

-----------------------------------------------------------------------------
(* The creation of the run.                                                *)

Untouched(q) == agents[q].entry.state = "unprovisioned" /\ ~agents[q].late

(* An agent whose request was refused, or not yet made, was not touched    *)
(* when the failure is the only fault.                                     *)
CreationOf(p) ==
    /\ At(p, "provision") /\ faults = MaxFaults =>
         \A j \in procs[p].i..2 : Untouched(Order[j])
    /\ At(p, "undo") =>
         /\ faults < MaxFaults
         /\ faults = MaxFaults - 1 => \A j \in (procs[p].i + 1)..2 : Untouched(Order[j])

CreationInv ==
    /\ \A p \in Procs :
         /\ procs[p].pc \in Creating => p = owner /\ db.run = "creating"
         /\ procs[p].pc \notin Creating \cup Resting => db.run \notin {"creating", "refused"}
         /\ CreationOf(p)
    /\ db.run = "refused" =>
         /\ faults < MaxFaults
         /\ faults = MaxFaults - 1 =>
              \A q \in Parties : Untouched(q) \/ agents[q].entry.state = "released"
    /\ \A q \in Parties : agents[q].late =>
         /\ db.run \in {"creating", "refused"}
         /\ \A p \in Procs : procs[p].pc \notin {"provision", "commit"}

-----------------------------------------------------------------------------
(* The rows and the chain.                                                 *)

RowsOf(rs, kind, q) == {k \in DOMAIN rs : rs[k].kind = kind /\ rs[k].party = q}
LiveOf(rs, kind, q) == {k \in RowsOf(rs, kind, q) : rs[k].status \notin Gone}

(* Only an approval is displaced, and only a session fails; of a party's   *)
(* approvals one is never given up; a party is minted for once.            *)
Outlasting(rs) ==
    /\ \A k \in DOMAIN rs :
         /\ rs[k].status = "dropped" => rs[k].kind = "approve"
         /\ rs[k].status = "reverted" => rs[k].kind = "create_session"
    /\ \A q \in Parties :
         RowsOf(rs, "approve", q) # {} => LiveOf(rs, "approve", q) # {}

MintedOnce == \A q \in Parties : \A k, l \in RowsOf(db.rows, "mint", q) : k = l

(* An account sends one approval, its first transaction, whatever is       *)
(* resent.                                                                 *)
Unnumbered(rs) == \A k \in DOMAIN rs : rs[k].nonce = 0

(* A block carries out its row, and no other block does.                   *)
BlocksOfRows ==
    /\ \A b \in Blocks :
         /\ b.row \in DOMAIN db.rows
         /\ b.kind = db.rows[b.row].kind /\ b.party = db.rows[b.row].party
         /\ b.nonce = 0 /\ b.ok \in BOOLEAN
         /\ ~b.ok => b.kind = "create_session"
    /\ \A b, c \in Blocks : b.row = c.row => b = c

OneOfEach ==
    /\ \A q \in Parties : \A b, c \in Did("approve", q) : b = c
    /\ \A b, c \in Opened : b = c

(* What is confirmed stays in the chain.                                   *)
InDeep(k) == \E b \in chain.deep : b.row = k
ConfirmedInDeep(rs) ==
    \A k \in DOMAIN rs : rs[k].status = "confirmed" => InDeep(k)

NonceAfterRow(nonce, rs) ==
    \A q \in Parties : nonce[q] # 0 => RowsOf(rs, "approve", q) # {}

Creates == {k \in DOMAIN db.rows : db.rows[k].kind = "create_session"}
SessionRows ==
    /\ \A k \in Creates : db.rows[k].session = db.session
    /\ db.session = NoSession => Creates = {}
    /\ db.event # NoEvent => Creates # {} /\ db.event.opened.id = db.session.id

DataInv ==
    /\ Outlasting(db.rows) /\ Unnumbered(db.rows) /\ MintedOnce /\ BlocksOfRows /\ OneOfEach
    /\ ConfirmedInDeep(db.rows) /\ NonceAfterRow(db.nonce, db.rows) /\ SessionRows

-----------------------------------------------------------------------------
(* What a process knows.  Its snapshot holds rows of the run as they were: *)
(* none was added since but by the process itself.                         *)

(* The step a process takes once what it persisted is broadcast.           *)
Doing(x) == IF x.pc = "send" THEN x.then ELSE x.pc

SameRows(rs, old) ==
    /\ DOMAIN old \subseteq DOMAIN rs
    /\ \A k \in DOMAIN old :
         /\ rs[k].kind = old[k].kind /\ rs[k].party = old[k].party
         /\ rs[k].session = old[k].session

Reading == {"mint", "approvals", "ask", "submit", "nonce"}
SnapshotInv(s) ==
    /\ RowsTyped(s.rows) /\ SameRows(db.rows, s.rows)
    /\ Outlasting(s.rows) /\ Unnumbered(s.rows) /\ ConfirmedInDeep(s.rows) /\ NonceAfterRow(s.nonce, s.rows)
    /\ s.session = db.session /\ s.event = db.event

Done(kind, q) == Did(kind, q) # {} /\ Did(kind, q) \subseteq chain.deep
Bound(q) ==
    \/ agents[q].entry = [state |-> "approved", opened |-> db.event.opened]
    \/ agents[q].entry.state = "unprovisioned"
Opening ==
    /\ SessionConfirmed(db)
    /\ \A q \in Parties : Done("mint", q) /\ Done("approve", q)

PlaceInv(x) ==
    /\ Doing(x) \in Reading => SnapshotInv(x.st)
    /\ Doing(x) = "mint" => \A k \in Left(x) : RowsOf(db.rows, "mint", Order[k]) = {}
    /\ Doing(x) \in Reading \ {"mint"} =>
         /\ Unminted(x.st) = {}
         /\ x.busy = 0 => \A j \in 1..(x.i - 1) : Sent(x.st, "approve", Order[j])
    /\ Doing(x) \in {"ask", "submit", "nonce"} => x.ask.nonce = 0
    /\ Doing(x) = "nonce" => RowsOf(db.rows, "approve", Order[x.i]) # {}
    /\ Doing(x) = "record" => db.session = NoSession
    /\ Doing(x) = "create" => db.session # NoSession /\ x.session = db.session
    /\ Doing(x) \in {"approve", "post", "done"} => Opening
    /\ Doing(x) = "approve" => \A j \in 1..(x.i - 1) : Bound(Order[j])
    /\ Doing(x) \in {"post", "done"} => \A q \in Parties : Bound(q)

ProcsInv ==
    \A p \in Procs :
        /\ procs[p].pc \notin Resting => p = owner
        /\ procs[p].pc \notin Creating \cup Resting => db.run = "preparing"
        /\ PlaceInv(procs[p])

RunInv == db.run = "running" => Opening /\ \A q \in Parties : Bound(q)

SetupInv == DataInv /\ ProcsInv /\ RunInv

-----------------------------------------------------------------------------
(* Sequences and rows.                                                     *)

LEMMA ListedIs ==
    ASSUME NEW s, IsListed(s)
    PROVE  Len(s) \in Nat /\ DOMAIN s = 1..Len(s)
BY LenProperties DEF IsListed

LEMMA ListedFunction ==
    ASSUME NEW n \in Nat, NEW f, f = [k \in 1..n |-> f[k]]
    PROVE  IsListed(f) /\ Len(f) = n
<1> DEFINE S == {f[k] : k \in 1..n}
<1>1. f \in [1..n -> S] /\ DOMAIN f = 1..n
  BY Zenon
<1>2. S = {f[k] : k \in DOMAIN f}
  BY <1>1
<1> HIDE DEF S
<1>3. f \in Seq(S)
  BY <1>1, SeqDef
<1>4. Len(f) = n
  BY <1>1, <1>3, LenProperties
<1> QED
  BY <1>2, <1>3, <1>4 DEF IsListed

LEMMA ListedAppend ==
    ASSUME NEW s, IsListed(s), NEW e
    PROVE  /\ IsListed(Append(s, e)) /\ Len(Append(s, e)) = Len(s) + 1
           /\ DOMAIN Append(s, e) = 1..(Len(s) + 1)
           /\ \A k \in 1..Len(s) : Append(s, e)[k] = s[k]
           /\ Append(s, e)[Len(s) + 1] = e
<1> DEFINE S == {s[k] : k \in DOMAIN s} \cup {e}
           t == Append(s, e)
<1>1. s \in Seq(S) /\ e \in S
  <2>1. {s[k] : k \in DOMAIN s} \subseteq S
    OBVIOUS
  <2> QED
    BY <2>1, SeqMonotonic DEF IsListed
<1> HIDE DEF S
<1>2. /\ t \in Seq(S) /\ Len(t) = Len(s) + 1 /\ t[Len(s) + 1] = e
      /\ \A k \in 1..Len(s) : t[k] = s[k]
  BY <1>1, AppendProperties
<1>3. Len(s) \in Nat
  BY ListedIs
<1> HIDE DEF t
<1>4. DOMAIN t = 1..(Len(s) + 1)
  BY <1>2, <1>3, LenProperties
<1>5. IsListed(t)
  <2>1. t \in [1..(Len(s) + 1) -> S]
    BY <1>2, LenProperties
  <2>2. t = [k \in 1..(Len(s) + 1) |-> t[k]]
    BY <2>1
  <2> QED
    BY <1>3, <2>2, ListedFunction
<1> QED
  BY <1>2, <1>4, <1>5 DEF t

(* Rows whose status alone is changed.                                     *)
Restated(rs, new) ==
    /\ RowsTyped(new) /\ DOMAIN new = DOMAIN rs
    /\ \A k \in DOMAIN rs :
         /\ new[k].kind = rs[k].kind /\ new[k].party = rs[k].party
         /\ new[k].session = rs[k].session /\ new[k].nonce = rs[k].nonce

LEMMA Restating ==
    ASSUME NEW rs, RowsTyped(rs), NEW st, NEW new,
           new = [k \in DOMAIN rs |-> [rs[k] EXCEPT !.status = st[k]]],
           \A k \in DOMAIN rs : st[k] \in Statuses
    PROVE  Restated(rs, new) /\ \A k \in DOMAIN rs : new[k].status = st[k]
<1>1. Len(rs) \in Nat /\ DOMAIN rs = 1..Len(rs)
  BY ListedIs DEF RowsTyped
<1>2. new = [k \in 1..Len(rs) |-> new[k]] /\ DOMAIN new = DOMAIN rs
  BY <1>1
<1>3. IsListed(new)
  BY <1>1, <1>2, ListedFunction
<1>4. ASSUME NEW k \in DOMAIN rs
      PROVE  /\ IsRow(new[k]) /\ new[k].status = st[k]
             /\ new[k].kind = rs[k].kind /\ new[k].party = rs[k].party
             /\ new[k].session = rs[k].session /\ new[k].nonce = rs[k].nonce
  <2>1. new[k] = [rs[k] EXCEPT !.status = st[k]]
    OBVIOUS
  <2>2. rs[k] = [kind |-> rs[k].kind, party |-> rs[k].party, nonce |-> rs[k].nonce,
                 fee |-> rs[k].fee, status |-> rs[k].status, session |-> rs[k].session]
    BY DEF RowsTyped, IsRow
  <2> QED
    BY <2>1, <2>2 DEF IsRow
<1> QED
  BY <1>2, <1>3, <1>4 DEF Restated, RowsTyped

LEMMA AppendingRow ==
    ASSUME NEW rs, RowsTyped(rs), NEW r, IsRow(r), r.kind \in Kinds, r.status = "pending",
           r.party \in Parties \cup {"both"}
    PROVE  /\ RowsTyped(Append(rs, r))
           /\ DOMAIN Append(rs, r) = DOMAIN rs \cup {Len(rs) + 1}
           /\ Len(rs) + 1 \notin DOMAIN rs
           /\ \A k \in DOMAIN rs : Append(rs, r)[k] = rs[k]
           /\ Append(rs, r)[Len(rs) + 1] = r
<1> DEFINE t == Append(rs, r)
           n == Len(rs) + 1
<1>1. Len(rs) \in Nat /\ DOMAIN rs = 1..Len(rs)
  BY ListedIs DEF RowsTyped
<1>2. /\ IsListed(t) /\ DOMAIN t = 1..n /\ t[n] = r
      /\ \A k \in 1..Len(rs) : t[k] = rs[k]
  BY ListedAppend DEF RowsTyped
<1> HIDE DEF t
<1>3. 1..n = 1..Len(rs) \cup {n} /\ n \notin 1..Len(rs)
  BY <1>1
<1>4. RowsTyped(t)
  BY <1>1, <1>2, <1>3 DEF RowsTyped, Statuses
<1> QED
  BY <1>1, <1>2, <1>3, <1>4 DEF t

-----------------------------------------------------------------------------
(* Processes.                                                              *)

LEMMA MaxOfTwo ==
    ASSUME NEW a \in 0..2, NEW b \in 0..2
    PROVE  /\ Max({a, b}) \in 0..2
           /\ Max({a, b}) = 0 <=> a = 0 /\ b = 0
<1> DEFINE m == IF a >= b THEN a ELSE b
<1>1. m \in {a, b} /\ \A y \in {a, b} : m >= y
  OBVIOUS
<1> HIDE DEF m
<1>2. Max({a, b}) \in {a, b} /\ \A y \in {a, b} : Max({a, b}) >= y
  BY Zenon, <1>1 DEF Max
<1> QED
  BY <1>2

LEMMA ProcessNew ==
    ASSUME NEW pc \in Counters, pc # "mint", NEW terms, IsPerParty(terms)
    PROVE  /\ IsProcess(Process(pc, terms))
           /\ Process(pc, terms).pc = pc /\ Process(pc, terms).i = 1
           /\ Process(pc, terms).then = "idle" /\ Process(pc, terms).busy = 0
           /\ Process(pc, terms).terms = terms
BY DEF IsProcess, Process, Counters, Afterwards, Creating, Resting

LEMMA LeftSame ==
    ASSUME NEW x, NEW y, x.st = y.st, x.i = y.i
    PROVE  Left(x) = Left(y)
BY DEF Left

LEMMA PerPartyChanged ==
    ASSUME NEW f, IsPerParty(f), NEW q \in Parties, NEW v
    PROVE  IsPerParty([f EXCEPT ![q] = v]) /\ [f EXCEPT ![q] = v][q] = v
           /\ \A o \in Parties : o # q => [f EXCEPT ![q] = v][o] = f[o]
BY Zenon DEF IsPerParty

LEMMA OrderIs == Len(Order) = 2 /\ DOMAIN Order = 1..2 /\ Order[1] = "buyer" /\ Order[2] = "seller"
BY DEF Order

LEMMA PartyIs ==
    ASSUME TypeInv, NEW p \in Procs, procs[p].pc # "undo"
    PROVE  Party(p) \in Parties /\ procs[p].i \in 1..2
<1>1. procs[p].i \in 1..2
  BY DEF TypeInv, IsProcess
<1> QED
  BY <1>1, OrderIs DEF Party, Parties

LEMMA PartiesAre == \A q \in Parties : \E j \in 1..2 : q = Order[j]
<1>1. 1 \in 1..2 /\ 2 \in 1..2
  OBVIOUS
<1> QED
  BY <1>1, OrderIs DEF Parties

(* The processes after one of them moved.                                  *)
Moved(p) ==
    /\ procs' = [o \in Procs |-> procs'[o]]
    /\ \A o \in Procs : o # p => procs'[o] = procs[o]

LEMMA ThenMoves ==
    ASSUME TypeInv, NEW p \in Procs, NEW x, Then(p, x)
    PROVE  Moved(p) /\ procs'[p] = x
BY Zenon DEF TypeInv, Then, Moved

LEMMA MovedTyped ==
    ASSUME TypeInv, NEW p \in Procs, Moved(p), IsProcess(procs'[p])
    PROVE  /\ procs' = [o \in Procs |-> procs'[o]]
           /\ \A o \in Procs : IsProcess(procs'[o])
BY Zenon DEF TypeInv, Moved

LEMMA YieldedIs ==
    ASSUME TypeInv, NEW p \in Procs
    PROVE  /\ IsProcess(Yielded(p)) /\ Yielded(p).pc = "idle" /\ Yielded(p).i = 1
           /\ Yielded(p).then = "idle" /\ Yielded(p).busy = 0
<1>1. IsPerParty(procs[p].terms)
  BY DEF TypeInv, IsProcess
<1> QED
  BY <1>1, ProcessNew DEF Yielded, Counters, Resting

(* What follows the approvals, and what follows one of them.               *)
LEMMA AfterApprovalsIs ==
    ASSUME TypeInv, NEW p \in Procs, procs[p].i \in 1..2
    PROVE  /\ IsProcess(AfterApprovals(p))
           /\ AfterApprovals(p).pc \in {"idle", "record", "create", "approve"}
           /\ AfterApprovals(p).st = procs[p].st \/ AfterApprovals(p).pc = "idle"
           /\ AfterApprovals(p).pc \in {"record", "create", "approve"} =>
                SetupConfirmed(procs[p].st)
           /\ AfterApprovals(p).pc = "record" => procs[p].st.session = NoSession
           /\ AfterApprovals(p).pc = "create" =>
                /\ procs[p].st.session # NoSession
                /\ AfterApprovals(p).session = procs[p].st.session
           /\ AfterApprovals(p).pc = "approve" =>
                SessionConfirmed(procs[p].st) /\ AfterApprovals(p).i = 1
           /\ AfterApprovals(p).terms = procs[p].terms
<1> DEFINE x == procs[p]
           s == procs[p].st
           c == SetupConfirmed(s)
           sent == Sent(s, "create_session", "both")
           ok == SessionConfirmed(s)
           a == AfterApprovals(p)
<1>1. IsProcess(x) /\ x.i \in 1..2
  BY DEF TypeInv
<1>2. \/ a = Yielded(p)
      \/ c /\ a = [x EXCEPT !.pc = IF s.session = NoSession THEN "record" ELSE "create",
                            !.session = s.session]
      \/ c /\ ok /\ a = [x EXCEPT !.pc = "approve", !.i = 1]
  <2> HIDE DEF c, sent, ok
  <2> QED
    BY Zenon DEF AfterApprovals, c, sent, ok
<1>0. /\ x = [pc |-> x.pc, i |-> x.i, busy |-> x.busy, st |-> x.st, ask |-> x.ask,
            session |-> x.session, terms |-> x.terms, row |-> x.row, then |-> x.then]
      /\ x.then \in Afterwards /\ x.i \in 0..2 /\ x.busy \in 0..2
      /\ IsPerParty(x.terms)
  BY <1>1 DEF IsProcess
<1> DEFINE Fine(y) ==
        /\ IsProcess(y)
        /\ y.pc \in {"idle", "record", "create", "approve"}
        /\ y.st = x.st \/ y.pc = "idle"
        /\ y.pc \in {"record", "create", "approve"} => c
        /\ y.pc = "record" => s.session = NoSession
        /\ y.pc = "create" => s.session # NoSession /\ y.session = s.session
        /\ y.pc = "approve" => ok /\ y.i = 1
        /\ y.terms = x.terms
<1> HIDE DEF a, c, ok
<1>3. CASE a = Yielded(p)
  <2>1. a.pc = "idle" /\ IsProcess(a) /\ a.terms = x.terms
    BY <1>3, YieldedIs DEF Yielded, Process
  <2> QED
    BY <2>1 DEF a, c, ok
<1>4. CASE c /\ a = [x EXCEPT !.pc = IF s.session = NoSession THEN "record" ELSE "create",
                              !.session = s.session]
  <2> DEFINE pc == IF s.session = NoSession THEN "record" ELSE "create"
  <2>1. a = [pc |-> pc, i |-> x.i, busy |-> x.busy, st |-> x.st, ask |-> x.ask,
             session |-> s.session, terms |-> x.terms, row |-> x.row, then |-> x.then]
    BY <1>0, <1>4
  <2>2. /\ pc \in {"record", "create"} /\ (pc = "record" <=> s.session = NoSession)
        /\ pc \in Counters
    BY DEF Counters
  <2> HIDE DEF pc
  <2>3. IsProcess(a) /\ a.pc = pc /\ a.session = s.session /\ a.st = x.st /\ a.terms = x.terms
    BY <1>0, <1>1, <2>1, <2>2 DEF IsProcess
  <2> HIDE DEF x, s
  <2>4. Fine(a)
    BY <1>4, <2>2, <2>3
  <2> QED
    BY <2>4 DEF a, c, ok, x, s
<1>5. CASE c /\ ok /\ a = [x EXCEPT !.pc = "approve", !.i = 1]
  <2>1. a = [pc |-> "approve", i |-> 1, busy |-> x.busy, st |-> x.st, ask |-> x.ask,
             session |-> x.session, terms |-> x.terms, row |-> x.row, then |-> x.then]
    BY <1>0, <1>5
  <2>2. IsProcess(a) /\ a.pc = "approve" /\ a.i = 1 /\ a.st = x.st /\ a.terms = x.terms
    BY <1>0, <2>1 DEF IsProcess, Counters, Afterwards
  <2> QED
    BY <1>5, <2>2 DEF a, c, ok
<1> QED
  BY <1>2, <1>3, <1>4, <1>5

HandledAs(p, result, h) ==
    \/ /\ procs[p].i = 1
       /\ h.pc = "approvals" /\ h.i = 2 /\ h.st = procs[p].st
       /\ h.busy = Max({procs[p].busy, result})
    \/ /\ procs[p].i = 2 /\ procs[p].busy = 0 /\ result = 0
       /\ h = AfterApprovals(p)
    \/ /\ h.pc \in {"idle", "stop"}
       /\ result # 0 \/ procs[p].busy # 0

LEMMA HandledIs ==
    ASSUME TypeInv, NEW p \in Procs, procs[p].i \in 1..2, NEW result \in 0..2
    PROVE  /\ IsProcess(Handled(p, result)) /\ HandledAs(p, result, Handled(p, result))
           /\ Handled(p, result).pc \in
                {"approvals", "idle", "stop", "record", "create", "approve"}
           /\ Handled(p, result).terms = procs[p].terms
<1> DEFINE x == procs[p]
           m == Max({procs[p].busy, result})
           h == Handled(p, result)
<1>1. IsProcess(x) /\ x.i \in 1..2 /\ IsPerParty(x.terms)
  BY DEF TypeInv, IsProcess
<1>2. m \in 0..2 /\ (m = 0 <=> x.busy = 0 /\ result = 0)
  <2>1. x.busy \in 0..2
    BY <1>1 DEF IsProcess
  <2> QED
    BY <2>1, MaxOfTwo
<1> HIDE DEF m
<1>3. \/ x.i = 1 /\ h = [x EXCEPT !.pc = "approvals", !.i = x.i + 1, !.busy = m, !.ask = NoAsk]
      \/ x.i = 2 /\ m = 0 /\ h = AfterApprovals(p)
      \/ m # 0 /\ h = Yielded(p)
      \/ m # 0 /\ h = Process("stop", x.terms)
  <2>1. x.i = 1 => h = [x EXCEPT !.pc = "approvals", !.i = x.i + 1, !.busy = m, !.ask = NoAsk]
    BY OrderIs DEF Handled, m
  <2>2. x.i = 2 /\ m = 0 => h = AfterApprovals(p)
    BY OrderIs DEF Handled, m
  <2>3. x.i = 2 /\ m = 1 => h = Yielded(p)
    BY OrderIs DEF Handled, m
  <2>4. x.i = 2 /\ m = 2 => h = Process("stop", x.terms)
    BY OrderIs DEF Handled, m
  <2> HIDE DEF h
  <2> QED
    BY <1>1, <1>2, <2>1, <2>2, <2>3, <2>4
<1> HIDE DEF h
<1>4. CASE x.i = 1 /\ h = [x EXCEPT !.pc = "approvals", !.i = x.i + 1, !.busy = m, !.ask = NoAsk]
  <2>0. /\ x = [pc |-> x.pc, i |-> x.i, busy |-> x.busy, st |-> x.st, ask |-> x.ask,
              session |-> x.session, terms |-> x.terms, row |-> x.row, then |-> x.then]
        /\ x.then \in Afterwards
    BY <1>1 DEF IsProcess
  <2>1. h = [pc |-> "approvals", i |-> 2, busy |-> m, st |-> x.st, ask |-> NoAsk,
             session |-> x.session, terms |-> x.terms, row |-> x.row, then |-> x.then]
    <3>1. x.i + 1 = 2
      BY <1>4
    <3>2. h = [x EXCEPT !.pc = "approvals", !.i = 2, !.busy = m, !.ask = NoAsk]
      BY Zenon, <1>4, <3>1
    <3> HIDE DEF x
    <3> QED
      BY <2>0, <3>2
  <2>2. /\ IsProcess(h) /\ h.pc = "approvals" /\ h.i = 2 /\ h.st = x.st /\ h.busy = m
        /\ h.terms = x.terms
    BY <1>1, <1>2, <2>0, <2>1 DEF IsProcess, Counters, Afterwards
  <2> QED
    BY <1>4, <2>2 DEF HandledAs, h, m
<1>5. CASE x.i = 2 /\ m = 0 /\ h = AfterApprovals(p)
  <2>1. HandledAs(p, result, h)
    BY <1>2, <1>5 DEF HandledAs
  <2>2. /\ IsProcess(h) /\ h.terms = x.terms
        /\ h.pc \in {"idle", "record", "create", "approve"}
    BY <1>5, AfterApprovalsIs
  <2> QED
    BY <2>1, <2>2 DEF h
<1>6. CASE m # 0 /\ h = Yielded(p)
  <2>1. h.terms = x.terms
    BY <1>6 DEF Yielded, Process
  <2> QED
    BY <1>2, <1>6, <2>1, YieldedIs DEF HandledAs, h
<1>7. CASE m # 0 /\ h = Process("stop", x.terms)
  BY <1>1, <1>2, <1>7, ProcessNew DEF HandledAs, h, Counters
<1> QED
  BY <1>3, <1>4, <1>5, <1>6, <1>7

-----------------------------------------------------------------------------
(* The run's rows after a change of one of them.                           *)

DbIs(d) ==
    d = [rows |-> d.rows, session |-> d.session, nonce |-> d.nonce, base |-> d.base,
         event |-> d.event, run |-> d.run, fresh |-> d.fresh, post |-> d.post]

(* What set-up's rows say is left as it is, or grows by a row.             *)
SameBut(d) ==
    /\ d.session = db.session /\ d.nonce = db.nonce /\ d.event = db.event
    /\ d.fresh = db.fresh

LEMMA RunChanged ==
    ASSUME DbTyped, NEW v, db' = [db EXCEPT !.run = v]
    PROVE  DbTyped' /\ SameBut(db') /\ db'.rows = db.rows /\ db'.run = v
<1>1. DbIs(db)
  BY DEF DbTyped, DbIs
<1>2. db' = [rows |-> db.rows, session |-> db.session, nonce |-> db.nonce, base |-> db.base,
             event |-> db.event, run |-> v, fresh |-> db.fresh, post |-> db.post]
  BY <1>1 DEF DbIs
<1> QED
  BY <1>2 DEF DbTyped, SameBut

LEMMA DbSame ==
    ASSUME DbTyped, db' = db
    PROVE  DbTyped' /\ SameBut(db') /\ db'.rows = db.rows /\ db'.run = db.run
<1>1. DbTyped'
  BY DEF DbTyped
<1> QED
  BY <1>1 DEF SameBut

LEMMA BaseChanged ==
    ASSUME DbTyped, NEW v, db' = [db EXCEPT !.base = v]
    PROVE  DbTyped' /\ SameBut(db') /\ db'.rows = db.rows /\ db'.run = db.run
<1>1. DbIs(db)
  BY DEF DbTyped, DbIs
<1>2. db' = [rows |-> db.rows, session |-> db.session, nonce |-> db.nonce, base |-> v,
             event |-> db.event, run |-> db.run, fresh |-> db.fresh, post |-> db.post]
  BY <1>1 DEF DbIs
<1> QED
  BY <1>2 DEF DbTyped, SameBut

LEMMA PostChanged ==
    ASSUME DbTyped, NEW v, db' = [db EXCEPT !.post = v]
    PROVE  DbTyped' /\ SameBut(db') /\ db'.rows = db.rows /\ db'.run = db.run
<1>1. DbIs(db)
  BY DEF DbTyped, DbIs
<1>2. db' = [rows |-> db.rows, session |-> db.session, nonce |-> db.nonce, base |-> db.base,
             event |-> db.event, run |-> db.run, fresh |-> db.fresh, post |-> v]
  BY <1>1 DEF DbIs
<1> QED
  BY <1>2 DEF DbTyped, SameBut

LEMMA RowsChanged ==
    ASSUME DbTyped, NEW rs, RowsTyped(rs), db' = [db EXCEPT !.rows = rs]
    PROVE  DbTyped' /\ SameBut(db') /\ db'.rows = rs /\ db'.run = db.run
<1>1. DbIs(db)
  BY DEF DbTyped, DbIs
<1>2. db' = [rows |-> rs, session |-> db.session, nonce |-> db.nonce, base |-> db.base,
             event |-> db.event, run |-> db.run, fresh |-> db.fresh, post |-> db.post]
  BY <1>1 DEF DbIs
<1> QED
  BY <1>2 DEF DbTyped, SameBut

LEMMA NonceChanged ==
    ASSUME DbTyped, NEW q \in Parties, NEW v, db' = [db EXCEPT !.nonce[q] = v]
    PROVE  /\ DbTyped' /\ db'.rows = db.rows /\ db'.run = db.run
           /\ db'.session = db.session /\ db'.event = db.event
           /\ db'.nonce = [db.nonce EXCEPT ![q] = v]
<1>1. DbIs(db)
  BY DEF DbTyped, DbIs
<1> DEFINE f == [db.nonce EXCEPT ![q] = v]
<1>2. db' = [rows |-> db.rows, session |-> db.session, nonce |-> f, base |-> db.base,
             event |-> db.event, run |-> db.run, fresh |-> db.fresh, post |-> db.post]
  BY <1>1 DEF DbIs
<1>3. IsPerParty(f)
  BY PerPartyChanged DEF DbTyped
<1> HIDE DEF f
<1>4. DbTyped'
  BY <1>2, <1>3 DEF DbTyped
<1> QED
  BY <1>2, <1>4 DEF f

(* Broadcasting.                                                           *)
Sending(rs, new) ==
    /\ Restated(rs, new)
    /\ \A k \in DOMAIN rs :
         \/ new[k].status = rs[k].status
         \/ rs[k].status = "pending" /\ new[k].status = "submitted"

LEMMA BroadcastIs ==
    ASSUME DbTyped, NEW ks, ks \subseteq Unsent(db)
    PROVE  \E rs : /\ Broadcast(db, ks) = [db EXCEPT !.rows = rs]
                   /\ Sending(db.rows, rs)
<1> DEFINE rs == [k \in DOMAIN db.rows |->
                    IF k \in ks THEN [db.rows[k] EXCEPT !.status = "submitted"]
                    ELSE db.rows[k]]
           st == [k \in DOMAIN db.rows |-> IF k \in ks THEN "submitted" ELSE db.rows[k].status]
<1>1. RowsTyped(db.rows)
  BY DEF DbTyped
<1>2. \A k \in DOMAIN db.rows : db.rows[k] = [db.rows[k] EXCEPT !.status = db.rows[k].status]
  BY <1>1 DEF RowsTyped, IsRow
<1>3. rs = [k \in DOMAIN db.rows |-> [db.rows[k] EXCEPT !.status = st[k]]]
  <2>1. \A k \in DOMAIN db.rows : rs[k] = [db.rows[k] EXCEPT !.status = st[k]]
    BY <1>2
  <2> QED
    BY <2>1
<1>4. \A k \in DOMAIN db.rows : st[k] \in Statuses
  BY <1>1 DEF RowsTyped, Statuses
<1>5. \A k \in DOMAIN db.rows :
        st[k] = db.rows[k].status \/ (db.rows[k].status = "pending" /\ st[k] = "submitted")
  BY DEF Unsent
<1>6. Broadcast(db, ks) = [db EXCEPT !.rows = rs]
  BY DEF Broadcast
<1> HIDE DEF rs, st
<1>7. Restated(db.rows, rs) /\ \A k \in DOMAIN db.rows : rs[k].status = st[k]
  BY <1>1, <1>3, <1>4, Restating
<1>8. Sending(db.rows, rs)
  BY <1>5, <1>7 DEF Sending
<1> QED
  BY <1>6, <1>8

(* A step that broadcasts rows, adds one, or leaves them.                  *)
RowsSent == Sending(db.rows, db'.rows) /\ SameBut(db')
RowAdded(r) ==
    /\ db'.rows = Append(db.rows, r) /\ IsRow(r) /\ r.kind \in Kinds
    /\ r.party \in Parties \cup {"both"} /\ r.status = "pending"
    /\ SameBut(db')

LEMMA SentChanged ==
    ASSUME DbTyped, NEW ks, ks \subseteq Unsent(db), db' = Broadcast(db, ks)
    PROVE  DbTyped' /\ RowsSent /\ db'.run = db.run
<1>1. PICK rs : db' = [db EXCEPT !.rows = rs] /\ Sending(db.rows, rs)
  BY BroadcastIs
<1>2. RowsTyped(rs)
  BY <1>1 DEF Sending, Restated
<1> QED
  BY <1>1, <1>2, RowsChanged DEF RowsSent

LEMMA AddedChanged ==
    ASSUME DbTyped, NEW r, IsRow(r), r.kind \in Kinds, r.status = "pending",
           r.party \in Parties \cup {"both"},
           db' = [db EXCEPT !.rows = Append(@, r)]
    PROVE  DbTyped' /\ RowAdded(r) /\ db'.run = db.run
<1>1. RowsTyped(db.rows)
  BY DEF DbTyped
<1>2. RowsTyped(Append(db.rows, r))
  BY <1>1, AppendingRow
<1> QED
  BY <1>2, RowsChanged DEF RowAdded

LEMMA RowIs ==
    ASSUME NEW kind, NEW q
    PROVE  /\ IsRow(Row(kind, q)) /\ Row(kind, q).kind = kind /\ Row(kind, q).party = q
           /\ Row(kind, q).nonce = 0 /\ Row(kind, q).status = "pending"
BY DEF Row, IsRow

(* What a process persists, it goes on to broadcast.                       *)
LEMMA PersistIs ==
    ASSUME TypeInv, NEW p \in Procs, NEW r, IsRow(r), r.kind \in Kinds, r.status = "pending",
           r.party \in Parties \cup {"both"},
           NEW x, IsProcess(x), x.pc \in Afterwards, Persist(p, r, x)
    PROVE  /\ DbTyped' /\ RowAdded(r) /\ db'.run = db.run
           /\ Moved(p) /\ IsProcess(procs'[p])
           /\ procs'[p].pc = "send" /\ procs'[p].then = x.pc
           /\ procs'[p].i = x.i /\ procs'[p].busy = x.busy /\ procs'[p].st = x.st
           /\ procs'[p].ask = x.ask /\ procs'[p].session = x.session
<1>1. DbTyped
  BY DEF TypeInv
<1>2. db' = [db EXCEPT !.rows = Append(@, r)]
  BY DEF Persist
<1>3. DbTyped' /\ RowAdded(r) /\ db'.run = db.run
  BY <1>1, <1>2, AddedChanged
<1> DEFINE n == Len(db.rows) + 1
           y == [x EXCEPT !.then = x.pc, !.pc = "send", !.row = n]
<1>4. Then(p, y)
  BY DEF Persist
<1> HIDE DEF n
<1>0. y = [x EXCEPT !.then = x.pc, !.pc = "send", !.row = n]
  OBVIOUS
<1> HIDE DEF y
<1>5. y = [pc |-> "send", i |-> x.i, busy |-> x.busy, st |-> x.st, ask |-> x.ask,
           session |-> x.session, terms |-> x.terms, row |-> n, then |-> x.pc]
  BY <1>0 DEF IsProcess
<1>6. /\ x.pc \in Afterwards /\ x.i \in 0..2 /\ x.i # 0 /\ x.busy \in 0..2
      /\ IsPerParty(x.terms)
  BY DEF IsProcess, Afterwards
<1>9. Left(y) = Left(x)
  BY <1>5, LeftSame
<1>10. x.pc = "mint" => Left(x) # {}
  BY DEF IsProcess
<1>7. IsProcess(y)
  BY <1>5, <1>6, <1>9, <1>10 DEF IsProcess, Counters, Afterwards
<1>8. Moved(p) /\ procs'[p] = y
  BY <1>4, ThenMoves
<1> QED
  BY <1>3, <1>5, <1>7, <1>8

-----------------------------------------------------------------------------
(* The poll.                                                               *)

BlocksAt(k) == {b \in Blocks : b.row = k}
RivalsOf(k) == {b \in Did("approve", db.rows[k].party) :
                   db.rows[k].kind = "approve" /\ b.nonce = db.rows[k].nonce}

(* The status a row is given, and what the chain says of it.               *)
Given(k, status) ==
    \/ status = "reverted" /\ \E b \in BlocksAt(k) : ~b.ok
    \/ status = "confirmed" /\ BlocksAt(k) # {} /\ BlocksAt(k) \subseteq chain.deep
    \/ status = "included" /\ BlocksAt(k) # {}
    \/ status = "dropped" /\ BlocksAt(k) = {} /\ RivalsOf(k) # {}
    \/ status = "submitted"
    \/ /\ status = db.rows[k].status
       /\ BlocksAt(k) = {} \/ ~(BlocksAt(k) \subseteq chain.deep \/ BlocksAt(k) \subseteq chain.soft)

LEMMA MirroredIs ==
    ASSUME DbTyped, NEW k \in DOMAIN db.rows
    PROVE  Mirrored(k) \in Statuses /\ Given(k, Mirrored(k))
<1>1. db.rows[k].status \in Statuses
  BY DEF DbTyped, RowsTyped
<1> DEFINE at == BlocksAt(k)
           rivals == RivalsOf(k)
           r == db.rows[k]
<1>2. Mirrored(k) =
        CASE \E b \in at : ~b.ok -> "reverted"
          [] at # {} /\ at \subseteq chain.deep -> "confirmed"
          [] at # {} /\ at \subseteq chain.soft -> "included"
          [] at = {} /\ rivals # {} /\ r.status \in {"pending", "submitted"} -> "dropped"
          [] at = {} /\ r.status \in {"included", "confirmed", "reverted"} -> "submitted"
          [] OTHER -> r.status
  BY Zenon DEF Mirrored, BlocksAt, RivalsOf
<1> DEFINE m == Mirrored(k)
<1>3. \/ m = "reverted" /\ \E b \in at : ~b.ok
      \/ m = "confirmed" /\ at # {} /\ at \subseteq chain.deep
      \/ m = "included" /\ at # {}
      \/ m = "dropped" /\ at = {} /\ rivals # {}
      \/ m = "submitted"
      \/ m = r.status /\ (at = {} \/ ~(at \subseteq chain.deep \/ at \subseteq chain.soft))
  <2> HIDE DEF m, at, rivals, r
  <2> QED
    BY <1>2 DEF m
<1> HIDE DEF m
<1>4. m \in Statuses
  BY <1>1, <1>3 DEF Statuses
<1>5. Given(k, m)
  BY <1>3 DEF Given
<1> QED
  BY <1>4, <1>5 DEF m

Polling ==
    /\ DbTyped' /\ Restated(db.rows, db'.rows)
    /\ \A k \in DOMAIN db.rows : Given(k, db'.rows[k].status)
    /\ db'.session = db.session /\ db'.nonce = db.nonce /\ db'.fresh = db.fresh
    /\ db'.event = Indexed

LEMMA PolledIs ==
    ASSUME DbTyped
    PROVE  \E rs, base :
             /\ Polled = [db EXCEPT !.rows = rs, !.event = Indexed, !.base = base]
             /\ Restated(db.rows, rs)
             /\ \A k \in DOMAIN db.rows : Given(k, rs[k].status)
<1> DEFINE rs == [k \in DOMAIN db.rows |-> [db.rows[k] EXCEPT !.status = Mirrored(k)]]
           st == [k \in DOMAIN db.rows |-> Mirrored(k)]
           base == IF chain.lost THEN NoBaseline ELSE db.base
<1>1. RowsTyped(db.rows)
  BY DEF DbTyped
<1>2. rs = [k \in DOMAIN db.rows |-> [db.rows[k] EXCEPT !.status = st[k]]]
  BY Zenon
<1>3. \A k \in DOMAIN db.rows : st[k] \in Statuses /\ Given(k, st[k])
  BY MirroredIs
<1>4. Polled = [db EXCEPT !.rows = rs, !.event = Indexed, !.base = base]
  BY Zenon DEF Polled
<1> HIDE DEF rs, st, base
<1>5. Restated(db.rows, rs) /\ \A k \in DOMAIN db.rows : rs[k].status = st[k]
  BY <1>1, <1>2, <1>3, Restating
<1>6. \A k \in DOMAIN db.rows : Given(k, rs[k].status)
  BY Zenon, <1>3, <1>5
<1> QED
  BY <1>4, <1>5, <1>6

LEMMA PollingIs ==
    ASSUME DbTyped, NEW d, d = Polled, NEW run, db' = d \/ db' = [d EXCEPT !.run = run]
    PROVE  /\ Polling /\ db'.run \in {db.run, run}
           /\ d.rows = db'.rows /\ d.session = db'.session /\ d.nonce = db'.nonce
           /\ d.event = db'.event
           /\ db' = d => db'.run = db.run
           /\ db' = [d EXCEPT !.run = run] => db'.run = run
<1>1. PICK rs, base :
        /\ d = [db EXCEPT !.rows = rs, !.event = Indexed, !.base = base]
        /\ Restated(db.rows, rs)
        /\ \A k \in DOMAIN db.rows : Given(k, rs[k].status)
  BY PolledIs
<1>2. d = [rows |-> rs, session |-> db.session, nonce |-> db.nonce, base |-> base,
           event |-> Indexed, run |-> db.run, fresh |-> db.fresh, post |-> db.post]
  BY <1>1 DEF DbTyped
<1>3. \E v : /\ db' = [rows |-> rs, session |-> db.session, nonce |-> db.nonce, base |-> base,
                       event |-> Indexed, run |-> v, fresh |-> db.fresh, post |-> db.post]
             /\ v \in {db.run, run}
             /\ db' = d => v = db.run
             /\ db' = [d EXCEPT !.run = run] => v = run
  <2>1. CASE db' = d
    BY <1>2, <2>1
  <2>2. CASE db' = [d EXCEPT !.run = run]
    BY <1>2, <2>2
  <2> QED
    BY <2>1, <2>2
<1>4. RowsTyped(rs)
  BY <1>1 DEF Restated
<1>5. DbTyped'
  BY <1>3, <1>4 DEF DbTyped
<1>6. db'.rows = rs /\ db'.event = Indexed
  BY <1>3
<1>7. Polling
  BY <1>1, <1>3, <1>5, <1>6 DEF Polling
<1> QED
  BY <1>2, <1>3, <1>7

LEMMA TickIs ==
    ASSUME TypeInv, NEW p \in Procs, Tick(p)
    PROVE  /\ Polling /\ Moved(p) /\ IsProcess(procs'[p]) /\ ChainTyped'
           /\ chain'.soft = chain.soft /\ chain'.deep = chain.deep
           /\ db'.run \in {"preparing", "failed"}
           /\ \/ procs'[p].pc = "idle"
              \/ /\ procs'[p].pc \in {"pre", "mint", "approvals"} /\ db'.run = "preparing"
                 /\ procs'[p].i = 1 /\ procs'[p].busy = 0
                 /\ procs'[p].st = Snapshot(db')
                 /\ procs'[p].pc = "mint" => Unminted(procs'[p].st) # {}
                 /\ procs'[p].pc = "approvals" => Unminted(procs'[p].st) = {}
<1> DEFINE d == Polled
           s == Snapshot(d)
           pc == CASE ~s.base.taken -> "pre"
                   [] s.base.taken /\ Unminted(s) # {} -> "mint"
                   [] OTHER -> "approvals"
           x == [procs[p] EXCEPT !.st = s, !.pc = pc]
<1>0. DbTyped /\ IsProcess(procs[p]) /\ procs[p].pc = "idle" /\ db.run = "preparing"
  BY DEF TypeInv, Tick, At
<1>1. \/ db' = [d EXCEPT !.run = "failed"] /\ Then(p, Yielded(p))
      \/ db' = d /\ Then(p, x)
  BY Zenon DEF Tick
<1>2. chain' = [chain EXCEPT !.lost = FALSE]
  BY DEF Tick
<1>3. ChainTyped' /\ chain'.soft = chain.soft /\ chain'.deep = chain.deep
  BY <1>2 DEF TypeInv, ChainTyped
<1>4. /\ pc \in {"pre", "mint", "approvals"}
      /\ pc = "mint" => Unminted(s) # {}
      /\ pc = "approvals" => Unminted(s) = {}
  <2> DEFINE t == s.base.taken
             u == Unminted(s) # {}
  <2>1. pc = CASE ~t -> "pre" [] t /\ u -> "mint" [] OTHER -> "approvals"
    OBVIOUS
  <2> HIDE DEF pc, t, u
  <2>2. /\ pc \in {"pre", "mint", "approvals"} /\ (pc = "mint" => u)
        /\ pc = "approvals" => t /\ ~u
    BY <2>1
  <2> QED
    BY <2>2 DEF u
<1>5. CASE db' = [d EXCEPT !.run = "failed"] /\ Then(p, Yielded(p))
  <2> HIDE DEF d
  <2>1. Polling /\ db'.run = "failed"
    BY <1>0, <1>5, PollingIs DEF d
  <2>2. Moved(p) /\ procs'[p] = Yielded(p)
    BY <1>5, ThenMoves
  <2>3. IsProcess(procs'[p]) /\ procs'[p].pc = "idle"
    BY <2>2, YieldedIs
  <2> QED
    BY <1>3, <2>1, <2>2, <2>3
<1>6. CASE db' = d /\ Then(p, x)
  <2> HIDE DEF d
  <2>1. Polling /\ db'.run = db.run
    BY <1>0, <1>6, PollingIs DEF d
  <2>2. s = Snapshot(db')
    BY <1>6
  <2> HIDE DEF s, pc
  <2>3. x = [procs[p] EXCEPT !.st = s, !.pc = pc]
    OBVIOUS
  <2> HIDE DEF x
  <2>4. Moved(p) /\ procs'[p] = x
    BY <1>6, ThenMoves
  <2> DEFINE y == procs[p]
  <2>5. IsProcess(y) /\ y.i = 1 /\ y.busy = 0 /\ y.then = "idle"
    BY <1>0 DEF IsProcess
  <2>6. x = [pc |-> pc, i |-> 1, busy |-> 0, st |-> s, ask |-> y.ask, session |-> y.session,
             terms |-> y.terms, row |-> y.row, then |-> "idle"]
    BY <2>3, <2>5 DEF IsProcess
  <2>9. Left(x) = Unminted(s)
    <3>1. Unminted(s) \subseteq 1..2
      BY OrderIs DEF Unminted
    <3> QED
      BY <2>6, <3>1 DEF Left
  <2>10. y.then \in Afterwards /\ IsPerParty(y.terms)
    BY <2>5 DEF IsProcess
  <2>7. /\ IsProcess(x) /\ x.pc = pc /\ x.i = 1 /\ x.busy = 0 /\ x.st = s
    BY <1>4, <2>5, <2>6, <2>9, <2>10 DEF IsProcess, Counters, Afterwards
  <2>8. db'.run = "preparing"
    BY <1>0, <2>1
  <2> HIDE DEF y
  <2> QED
    BY <1>3, <1>4, <2>1, <2>2, <2>4, <2>7, <2>8
<1> QED
  BY Zenon, <1>1, <1>5, <1>6
-----------------------------------------------------------------------------
(* What each step of set-up does.                                          *)

(* A process moves on from one step of set-up to another.                  *)
Onward(p) ==
    /\ Moved(p) /\ IsProcess(procs'[p]) /\ procs'[p].pc \notin Creating \cup {"down"}

AgentsTyped == agents = [q \in Parties |-> agents[q]] /\ \A q \in Parties : IsAgent(agents[q])

LEMMA OnwardIs ==
    ASSUME TypeInv, NEW p \in Procs, NEW x, Then(p, x), IsProcess(x),
           x.pc \notin Creating \cup {"down"}
    PROVE  Onward(p) /\ procs'[p] = x
BY ThenMoves DEF Onward

LEMMA YieldMoves ==
    ASSUME TypeInv, NEW p \in Procs, Then(p, Yielded(p))
    PROVE  Onward(p) /\ procs'[p].pc = "idle" /\ procs'[p] = Yielded(p)
<1>1. IsProcess(Yielded(p)) /\ Yielded(p).pc = "idle"
  BY YieldedIs
<1> QED
  BY <1>1, OnwardIs DEF Creating

LEMMA PreSetupIs ==
    ASSUME TypeInv, NEW p \in Procs, PreSetup(p)
    PROVE  /\ DbTyped' /\ SameBut(db') /\ db'.rows = db.rows /\ db'.run = db.run
           /\ Onward(p) /\ procs'[p].pc = "idle"
<1>1. PICK v : db' = [db EXCEPT !.base = v]
  BY DEF PreSetup
<1>2. DbTyped' /\ SameBut(db') /\ db'.rows = db.rows /\ db'.run = db.run
  BY <1>1, BaseChanged DEF TypeInv
<1>3. Then(p, Yielded(p))
  BY DEF PreSetup
<1> QED
  BY <1>2, <1>3, YieldMoves

LEMMA SendIs ==
    ASSUME TypeInv, NEW p \in Procs, Send(p)
    PROVE  /\ DbTyped' /\ RowsSent /\ db'.run = db.run
           /\ Moved(p) /\ IsProcess(procs'[p])
           /\ \/ procs'[p].pc = "idle"
              \/ /\ procs'[p].pc = procs[p].then /\ procs[p].then # "idle"
                 /\ procs'[p].i = procs[p].i /\ procs'[p].busy = procs[p].busy
                 /\ procs'[p].st = procs[p].st /\ procs'[p].ask = procs[p].ask
                 /\ procs'[p].session = procs[p].session
<1> DEFINE ks == {procs[p].row} \cap Unsent(db)
           x == procs[p]
           y == [procs[p] EXCEPT !.pc = procs[p].then, !.then = "idle", !.row = 0]
<1>1. ks \subseteq Unsent(db) /\ db' = Broadcast(db, ks)
  BY DEF Send
<1> HIDE DEF ks
<1>2. DbTyped' /\ RowsSent /\ db'.run = db.run
  BY <1>1, SentChanged DEF TypeInv
<1>3. \/ Then(p, Yielded(p))
      \/ x.then # "idle" /\ Then(p, y)
  BY DEF Send
<1>4. IsProcess(x) /\ x.pc = "send"
  BY DEF TypeInv, Send, At
<1>5. CASE x.then # "idle" /\ Then(p, y)
  <2>1. y = [x EXCEPT !.pc = x.then, !.then = "idle", !.row = 0]
    OBVIOUS
  <2> HIDE DEF x, y
  <2>2. y = [pc |-> x.then, i |-> x.i, busy |-> x.busy, st |-> x.st, ask |-> x.ask,
             session |-> x.session, terms |-> x.terms, row |-> 0, then |-> "idle"]
    BY <1>4, <2>1 DEF IsProcess
  <2>3. IsProcess(y)
    <3>1. /\ x.then \in Afterwards /\ x.i \in 0..2 /\ x.i # 0 /\ x.busy \in 0..2
          /\ IsPerParty(x.terms)
      BY <1>4 DEF IsProcess
    <3>2. Left(y) = Left(x)
      BY <2>2, LeftSame
    <3>3. x.then = "mint" => Left(x) # {}
      BY <1>4 DEF IsProcess
    <3> QED
      BY <1>5, <2>2, <3>1, <3>2, <3>3 DEF IsProcess, Counters, Afterwards, Resting
  <2>4. Moved(p) /\ procs'[p] = y
    BY <1>5, ThenMoves
  <2> QED
    BY <1>2, <1>5, <2>2, <2>3, <2>4 DEF x
<1>6. CASE Then(p, Yielded(p))
  BY <1>2, <1>6, YieldMoves DEF Onward
<1> QED
  BY <1>3, <1>5, <1>6

(* A step that persists a row for the process to broadcast.                *)
Persisted(p, r, x) ==
    /\ DbTyped' /\ RowAdded(r) /\ db'.run = db.run
    /\ Onward(p) /\ procs'[p].pc = "send" /\ procs'[p].then = x.pc
    /\ procs'[p].i = x.i /\ procs'[p].busy = x.busy /\ procs'[p].st = x.st
    /\ procs'[p].ask = x.ask /\ procs'[p].session = x.session

LEMMA PersistedIs ==
    ASSUME TypeInv, NEW p \in Procs, NEW r, IsRow(r), r.kind \in Kinds, r.status = "pending",
           r.party \in Parties \cup {"both"},
           NEW x, IsProcess(x), x.pc \in Afterwards, Persist(p, r, x)
    PROVE  Persisted(p, r, x)
<1>1. /\ DbTyped' /\ RowAdded(r) /\ db'.run = db.run
      /\ Moved(p) /\ IsProcess(procs'[p])
      /\ procs'[p].pc = "send" /\ procs'[p].then = x.pc
      /\ procs'[p].i = x.i /\ procs'[p].busy = x.busy /\ procs'[p].st = x.st
      /\ procs'[p].ask = x.ask /\ procs'[p].session = x.session
  BY PersistIs
<1> QED
  BY <1>1 DEF Persisted, Onward, Creating

(* The least party a process has still to mint for.                        *)
LEMMA LeastOfOrder ==
    ASSUME NEW S \in SUBSET (1..2), S # {}
    PROVE  Min(S) \in S /\ \A k \in S : Min(S) <= k
<1> DEFINE m == IF 1 \in S THEN 1 ELSE 2
<1>0. \A y \in S : y = 1 \/ y = 2
  OBVIOUS
<1>1. m \in S /\ \A y \in S : m =< y
  <2>1. CASE 1 \in S
    BY <1>0, <2>1
  <2>2. CASE 1 \notin S
    <3>1. PICK a \in S : TRUE
      OBVIOUS
    <3>2. a = 2 /\ \A y \in S : y = 2
      BY <1>0, <2>2, <3>1
    <3> QED
      BY <2>2, <3>1, <3>2
  <2> QED
    BY <2>1, <2>2
<1> HIDE DEF m
<1> QED
  BY <1>1 DEF Min

LEMMA UnmintedIs == ASSUME NEW s PROVE Unminted(s) \in SUBSET (1..2)
BY OrderIs DEF Unminted

LEMMA MintIs ==
    ASSUME TypeInv, NEW p \in Procs, Mint(p)
    PROVE  \E j \in Left(procs[p]) : \E x :
             /\ \A k \in Left(procs[p]) : j <= k
             /\ Persisted(p, Row("mint", Order[j]), x)
             /\ \/ x.pc = "idle"
                \/ /\ x.pc = "mint" /\ x.i = j + 1 /\ x.st = procs[p].st
                   /\ \E k \in Left(procs[p]) : k > j
<1> DEFINE y == procs[p]
           L == {k \in Unminted(procs[p].st) : k >= procs[p].i}
           j == Min(L)
           more == \E k \in Unminted(procs[p].st) : k > j
           z == [y EXCEPT !.i = j + 1]
           x == IF more THEN z ELSE Yielded(p)
           r == Row("mint", Order[j])
<1>1. L = Left(y) /\ L \in SUBSET (1..2) /\ L # {}
  <2>1. L = Left(y) /\ L \in SUBSET (1..2)
    BY UnmintedIs DEF Left
  <2>2. Left(y) # {}
    BY DEF Mint, At, TypeInv, IsProcess
  <2> QED
    BY <2>1, <2>2
<1>2. y.pc = "mint" /\ Persist(p, r, x) /\ IsProcess(y)
  <2>1. y.pc = "mint" /\ IsProcess(y)
    BY DEF TypeInv, Mint, At
  <2>2. Persist(p, r, x)
    BY Zenon DEF Mint
  <2> QED
    BY <2>1, <2>2
<1>3. j \in L /\ \A k \in L : j <= k
  BY <1>1, LeastOfOrder
<1>4. j \in 1..2 /\ Order[j] \in Parties
  BY SMTT(40), <1>1, <1>3, OrderIs DEF Parties
<1>5. more => j = 1 /\ \E k \in L : k > j
  <2>1. y.i \in 0..2
    BY <1>2 DEF IsProcess
  <2> HIDE DEF j, y
  <2>2. ASSUME NEW k \in Unminted(procs[p].st), k > j
        PROVE  k \in L /\ j = 1
    <3>1. k \in 1..2
      BY UnmintedIs
    <3>2. j \in L
      BY <1>3
    <3>3. j >= procs[p].i /\ procs[p].i \in 0..2
      BY <2>1, <3>2 DEF y
    <3> QED
      BY <1>4, <2>2, <3>1, <3>3
  <2> QED
    BY <2>2
<1> HIDE DEF L, j, r
<1>6. more => IsProcess(z) /\ z.pc = "mint" /\ z.i = j + 1 /\ z.st = y.st
  <2> SUFFICES ASSUME more PROVE IsProcess(z) /\ z.pc = "mint" /\ z.i = j + 1 /\ z.st = y.st
    OBVIOUS
  <2>1. j + 1 = 2
    BY <1>5
  <2>2. z = [y EXCEPT !.i = 2]
    BY Zenon, <2>1
  <2> HIDE DEF y, z
  <2>3. z = [pc |-> y.pc, i |-> 2, busy |-> y.busy, st |-> y.st, ask |-> y.ask,
             session |-> y.session, terms |-> y.terms, row |-> y.row, then |-> y.then]
    BY <1>2, <2>2 DEF IsProcess
  <2>4. /\ y.then \in Afterwards /\ y.busy \in 0..2
        /\ IsPerParty(y.terms)
    BY <1>2 DEF IsProcess
  <2>5. Left(z) # {}
    <3>1. PICK k \in Unminted(y.st) : k > j
      BY DEF more, y
    <3>2. k \in 1..2
      BY UnmintedIs
    <3>3. k >= 2
      BY <1>4, <3>1, <3>2
    <3> QED
      BY <2>3, <3>1, <3>3 DEF Left
  <2> QED
    BY <1>2, <2>1, <2>3, <2>4, <2>5 DEF IsProcess, Counters, Afterwards
<1>7. /\ IsProcess(x) /\ x.pc \in {"mint", "idle"}
      /\ x.pc = "mint" => more /\ x.i = j + 1 /\ x.st = y.st
  <2>1. IsProcess(Yielded(p)) /\ Yielded(p).pc = "idle"
    BY YieldedIs
  <2> HIDE DEF more, z, y
  <2> QED
    BY <1>6, <2>1
<1>8. IsRow(r) /\ r.kind = "mint" /\ r.status = "pending" /\ r.party \in Parties
  BY <1>4, RowIs DEF r
<1> HIDE DEF x, more
<1>9. Persisted(p, r, x)
  <2>1. r.kind \in Kinds
    BY <1>8 DEF Kinds, SetupKinds
  <2> QED
    BY <1>2, <1>7, <1>8, <2>1, PersistedIs DEF Afterwards
<1>10. x.pc = "mint" => \E k \in L : k > j
  BY <1>5, <1>7
<1> QED
  BY <1>1, <1>3, <1>7, <1>9, <1>10 DEF r

(* A process whose cached terms alone are changed.                         *)
Retermed(x, terms, y) == y = [x EXCEPT !.terms = terms]

LEMMA TermsChanged ==
    ASSUME NEW x, IsProcess(x), NEW terms, IsPerParty(terms),
           NEW y, Retermed(x, terms, y)
    PROVE  /\ IsProcess(y) /\ y.pc = x.pc /\ y.i = x.i /\ y.busy = x.busy /\ y.st = x.st
           /\ y.ask = x.ask /\ y.session = x.session /\ y.then = x.then
<1>1. y = [pc |-> x.pc, i |-> x.i, busy |-> x.busy, st |-> x.st, ask |-> x.ask,
           session |-> x.session, terms |-> terms, row |-> x.row, then |-> x.then]
  BY DEF IsProcess, Retermed
<1>2. /\ x.then \in Afterwards /\ x.i \in 0..2 /\ x.busy \in 0..2 /\ x.pc \in Counters
      /\ x.pc # "undo" => x.i # 0
      /\ x.pc = "idle" => x.i = 1 /\ x.busy = 0 /\ x.then = "idle"
      /\ x.pc = "mint" \/ (x.pc = "send" /\ x.then = "mint") => Left(x) # {}
  BY DEF IsProcess
<1>3. Left(y) = Left(x)
  BY <1>1, LeftSame
<1> QED
  BY <1>1, <1>2, <1>3 DEF IsProcess

(* A place that follows a result.                                          *)
Follows(p, result, x) ==
    /\ IsProcess(x)
    /\ \E h : /\ HandledAs(p, result, h)
              /\ h.pc \in {"approvals", "idle", "stop", "record", "create", "approve"}
              /\ x.pc = h.pc /\ x.i = h.i /\ x.busy = h.busy /\ x.st = h.st
              /\ x.session = h.session

LEMMA HandledFollows ==
    ASSUME TypeInv, NEW p \in Procs, procs[p].i \in 1..2, NEW result \in 0..2
    PROVE  Follows(p, result, Handled(p, result))
BY HandledIs DEF Follows

LEMMA RetermedFollows ==
    ASSUME TypeInv, NEW p \in Procs, procs[p].i \in 1..2, NEW result \in 0..2,
           NEW terms, IsPerParty(terms), NEW x, Retermed(Handled(p, result), terms, x)
    PROVE  Follows(p, result, x)
<1> DEFINE h == Handled(p, result)
<1>1. /\ IsProcess(h) /\ HandledAs(p, result, h)
      /\ h.pc \in {"approvals", "idle", "stop", "record", "create", "approve"}
  BY HandledIs
<1>2. Retermed(h, terms, x)
  OBVIOUS
<1> HIDE DEF h
<1>3. IsProcess(x) /\ x.pc = h.pc /\ x.i = h.i /\ x.busy = h.busy /\ x.st = h.st
      /\ x.session = h.session
  BY SMTT(60), <1>1, <1>2, TermsChanged
<1> QED
  BY <1>1, <1>3 DEF Follows

LEMMA HandledTermsFollow ==
    ASSUME TypeInv, NEW p \in Procs, procs[p].i \in 1..2, NEW result \in 0..2,
           NEW terms, IsPerParty(terms), NEW x, x = [Handled(p, result) EXCEPT !.terms = terms]
    PROVE  Follows(p, result, x)
<1>1. Retermed(Handled(p, result), terms, x)
  BY Zenon DEF Retermed
<1> QED
  BY Zenon, <1>1, RetermedFollows

LEMMA FollowsOn ==
    ASSUME TypeInv, NEW p \in Procs, NEW result, NEW x, Follows(p, result, x), Then(p, x)
    PROVE  Onward(p) /\ procs'[p] = x
BY OnwardIs DEF Follows, Creating

(* What an approval does: it is handled, with what it waits for or without,*)
(* or its party is sent what its wallet lacks, or the agent is asked.      *)
ApprovalHandled(p) ==
    /\ db' = db /\ Onward(p)
    /\ \/ Follows(p, 1, procs'[p])
       \/ Follows(p, 0, procs'[p]) /\ Sent(procs[p].st, "approve", Party(p))

ApprovalFunds(p) ==
    \E r, x : /\ r.kind = "fund_eth" /\ r.party = Party(p) /\ r.nonce = 0
              /\ r.session = NoSession
              /\ Follows(p, 1, x) /\ Persisted(p, r, x)

ApprovalAsks(p) ==
    /\ db' = db /\ Onward(p)
    /\ procs'[p].pc = "ask" /\ procs'[p].i = procs[p].i /\ procs'[p].busy = procs[p].busy
    /\ procs'[p].st = procs[p].st
    /\ procs'[p].ask.nonce = NonceFor(procs[p].st, Party(p))

LEMMA ApprovalIs ==
    ASSUME TypeInv, NEW p \in Procs, Approval(p)
    PROVE  ApprovalHandled(p) \/ ApprovalFunds(p) \/ ApprovalAsks(p)
<1> DEFINE y == procs[p]
           s == procs[p].st
           q == Party(p)
           again == Sent(s, "approve", q)
           fee == IF again THEN Replacement(s, q) ELSE TermsFor(p, q)
           kept == [procs[p] EXCEPT !.terms[q] = IF again THEN @ ELSE fee]
           terms == [y.terms EXCEPT ![q] = IF again THEN @ ELSE fee]
           ask == [fee |-> fee, nonce |-> NonceFor(s, q)]
           asking == [kept EXCEPT !.pc = "ask", !.ask = ask]
           r == [Row("fund_eth", q) EXCEPT !.fee = fee - Balance(q)]
           waiting == [Handled(p, 1) EXCEPT !.terms = kept.terms]
           settled == FundingSettled(s, q)
           poor == Balance(q) < fee
<1>1. IsProcess(y) /\ y.pc = "approvals" /\ y.i \in 1..2 /\ q \in Parties /\ IsPerParty(y.terms)
  <2>1. IsProcess(y) /\ y.pc = "approvals"
    BY DEF TypeInv, Approval, At
  <2>2. IsPerParty(y.terms)
    BY <2>1 DEF IsProcess
  <2>3. y.i \in 1..2 /\ q \in Parties
    BY <2>1, PartyIs
  <2> QED
    BY <2>1, <2>2, <2>3
<1>2. IsPerParty(terms)
  BY <1>1, PerPartyChanged
<1>3. kept = [y EXCEPT !.terms = terms]
  BY <1>1
<1>4. \/ fee = 0 /\ db' = db /\ Then(p, Handled(p, 0))
      \/ db' = db /\ Then(p, waiting)
      \/ Persist(p, r, waiting)
      \/ db' = db /\ Then(p, asking)
  <2>1. (CASE fee = 0 -> UNCHANGED db /\ Then(p, Handled(p, 0))
           [] fee # 0 /\ ~settled -> UNCHANGED db /\ Then(p, waiting)
           [] fee # 0 /\ settled /\ poor -> Persist(p, r, waiting)
           [] OTHER -> Then(p, asking) /\ UNCHANGED db)
    BY Zenon DEF Approval
  <2> DEFINE c1 == UNCHANGED db /\ Then(p, Handled(p, 0))
             c2 == UNCHANGED db /\ Then(p, waiting)
             c3 == Persist(p, r, waiting)
             c4 == Then(p, asking) /\ UNCHANGED db
  <2>2. (CASE fee = 0 -> c1 [] fee # 0 /\ ~settled -> c2
           [] fee # 0 /\ settled /\ poor -> c3 [] OTHER -> c4)
    BY Zenon, <2>1
  <2> HIDE DEF c1, c2, c3, c4, fee, settled, poor
  <2>3. (fee = 0 /\ c1) \/ c2 \/ c3 \/ c4
    BY <2>2
  <2> QED
    BY Zenon, <2>3 DEF c1, c2, c3, c4
<1>6. fee = 0 => again
  <2>1. TermsFor(p, q) # 0
    BY DEF TermsFor, TypeInv, ChainTyped
  <2> QED
    BY <2>1
<1>7. ask.nonce = NonceFor(s, q)
  OBVIOUS
<1>8. r.kind = "fund_eth" /\ r.party = q /\ r.nonce = 0 /\ r.session = NoSession
      /\ r.status = "pending" /\ IsRow(r)
  BY DEF Row, IsRow
<1> HIDE DEF terms, ask, fee, settled, poor, r
<1>5. kept.terms = terms
  BY <1>1, <1>3 DEF IsProcess
<1> DEFINE w == [Handled(p, 1) EXCEPT !.terms = terms]
<1>9. waiting = w /\ Follows(p, 1, w)
  <2>1. waiting = w
    BY Zenon, <1>5
  <2>2. Follows(p, 1, w)
    BY <1>1, <1>2, HandledTermsFollow
  <2> QED
    BY <2>1, <2>2
<1> HIDE DEF w, kept
<1>10. CASE fee = 0 /\ db' = db /\ Then(p, Handled(p, 0))
  <2>1. Follows(p, 0, Handled(p, 0))
    BY <1>1, HandledFollows
  <2>2. Onward(p) /\ procs'[p] = Handled(p, 0)
    BY <1>10, <2>1, FollowsOn
  <2> QED
    BY <1>6, <1>10, <2>1, <2>2 DEF ApprovalHandled
<1>11. CASE db' = db /\ Then(p, waiting)
  <2>1. Then(p, w)
    BY Zenon, <1>9, <1>11
  <2>2. Onward(p) /\ procs'[p] = w
    BY <1>9, <2>1, FollowsOn
  <2> QED
    BY <1>9, <1>11, <2>2 DEF ApprovalHandled
<1>12. CASE Persist(p, r, waiting)
  <2>1. Persist(p, r, w)
    BY Zenon, <1>9, <1>12
  <2>2. IsProcess(w) /\ w.pc \in Afterwards
    BY <1>9 DEF Follows, Afterwards
  <2>3. r.kind \in Kinds /\ r.party \in Parties
    BY <1>1, <1>8 DEF Kinds, SetupKinds
  <2>4. Persisted(p, r, w)
    BY <1>8, <2>1, <2>2, <2>3, PersistedIs
  <2> QED
    BY <1>8, <1>9, <2>4 DEF ApprovalFunds
<1>13. CASE db' = db /\ Then(p, asking)
  <2>1. asking = [kept EXCEPT !.pc = "ask", !.ask = ask]
    OBVIOUS
  <2> HIDE DEF asking
  <2> HIDE DEF y
  <2>2. kept = [pc |-> y.pc, i |-> y.i, busy |-> y.busy, st |-> y.st, ask |-> y.ask,
                session |-> y.session, terms |-> terms, row |-> y.row, then |-> y.then]
    BY <1>1, <1>3 DEF IsProcess
  <2>3. asking = [pc |-> "ask", i |-> y.i, busy |-> y.busy, st |-> y.st, ask |-> ask,
                  session |-> y.session, terms |-> terms, row |-> y.row, then |-> y.then]
    BY <2>1, <2>2
  <2>4. y.then \in Afterwards /\ y.i # 0 /\ y.busy \in 0..2 /\ y.i \in 0..2
    BY <1>1 DEF IsProcess
  <2>5. IsProcess(asking)
    BY <1>2, <2>3, <2>4 DEF IsProcess, Counters, Afterwards
  <2>6. Onward(p) /\ procs'[p] = asking
    BY <1>13, <2>3, <2>5, OnwardIs DEF Creating
  <2> QED
    BY <1>7, <1>13, <2>3, <2>6 DEF ApprovalAsks, y
<1> QED
  BY Zenon, <1>4, <1>10, <1>11, <1>12, <1>13

LEMMA ProvisionedIs ==
    ASSUME TypeInv, NEW q \in Parties
    PROVE  /\ IsAgent(Provisioned(agents[q])) /\ Provisioned(agents[q]).late = agents[q].late
           /\ agents[q].entry.state = "unprovisioned" =>
                Provisioned(agents[q]).entry = Entry("provisioned")
           /\ agents[q].entry.state # "unprovisioned" =>
                Provisioned(agents[q]).entry = agents[q].entry
<1> DEFINE a == agents[q]
<1>1. IsAgent(a)
  BY DEF TypeInv
<1> HIDE DEF a
<1>2. a = [entry |-> a.entry, late |-> a.late] /\ a.late \in BOOLEAN
  BY <1>1 DEF IsAgent
<1>3. /\ IsAgent(Provisioned(a)) /\ Provisioned(a).late = a.late
      /\ a.entry.state = "unprovisioned" => Provisioned(a).entry = Entry("provisioned")
      /\ a.entry.state # "unprovisioned" => Provisioned(a).entry = a.entry
  <2>1. CASE a.entry.state = "unprovisioned"
    <3>1. Provisioned(a) = [a EXCEPT !.entry = Entry("provisioned")]
      BY <2>1 DEF Provisioned
    <3>2. Provisioned(a) = [entry |-> Entry("provisioned"), late |-> a.late]
      BY <1>2, <3>1
    <3> QED
      BY <1>2, <2>1, <3>2 DEF IsAgent
  <2>2. CASE a.entry.state # "unprovisioned"
    BY <1>1, <2>2 DEF Provisioned
  <2> QED
    BY <2>1, <2>2
<1> QED
  BY <1>3 DEF a

(* One agent's entry changes; whether a request is under way does not.     *)
AgentChanged(q) ==
    /\ AgentsTyped'
    /\ \A o \in Parties : agents'[o].late = agents[o].late
    /\ \A o \in Parties : o # q => agents'[o] = agents[o]

LEMMA AgentUpdated ==
    ASSUME TypeInv, NEW q \in Parties, NEW a, IsAgent(a), a.late = agents[q].late,
           agents' = [agents EXCEPT ![q] = a]
    PROVE  AgentChanged(q) /\ agents'[q] = a
<1>1. /\ agents' = [o \in Parties |-> agents'[o]] /\ agents'[q] = a
      /\ \A o \in Parties : o # q => agents'[o] = agents[o]
  BY Zenon DEF TypeInv
<1>2. \A o \in Parties : IsAgent(agents'[o]) /\ agents'[o].late = agents[o].late
  BY <1>1 DEF TypeInv
<1> QED
  BY <1>1, <1>2 DEF AgentsTyped, AgentChanged

LEMMA AskIs ==
    ASSUME TypeInv, NEW p \in Procs, Ask(p)
    PROVE  /\ db' = db /\ Onward(p) /\ AgentChanged(Party(p)) /\ Party(p) \in Parties
           /\ faults' \in {faults, faults - 1} /\ (faults' # faults => faults > 0)
           /\ \/ /\ procs'[p].pc = "submit" /\ procs'[p].i = procs[p].i
                 /\ procs'[p].busy = procs[p].busy /\ procs'[p].st = procs[p].st
                 /\ procs'[p].ask = procs[p].ask
              \/ Follows(p, 1, procs'[p]) \/ Follows(p, 2, procs'[p])
<1> DEFINE y == procs[p]
           x == [procs[p] EXCEPT !.pc = "submit"]
           q == Party(p)
<1>1. IsProcess(y) /\ y.pc = "ask" /\ y.i \in 1..2 /\ q \in Parties
  <2>1. IsProcess(y) /\ y.pc = "ask"
    BY DEF TypeInv, Ask, At
  <2>2. y.i \in 1..2 /\ q \in Parties
    BY <2>1, PartyIs
  <2> QED
    BY <2>1, <2>2
<1>2. AgentChanged(q)
  <2>1. agents' = [agents EXCEPT ![q] = Provisioned(agents[q])]
    BY DEF Ask
  <2> QED
    BY <1>1, <2>1, ProvisionedIs, AgentUpdated
<1>3. /\ db' = db /\ faults' \in {faults, faults - 1} /\ (faults' # faults => faults > 0)
      /\ Then(p, x) \/ Then(p, Handled(p, 1)) \/ Then(p, Handled(p, 2))
  BY DEF Ask, Fault
<1>4. CASE Then(p, x)
  <2>1. x = [y EXCEPT !.pc = "submit"]
    OBVIOUS
  <2> HIDE DEF x
  <2> HIDE DEF y
  <2>2. x = [pc |-> "submit", i |-> y.i, busy |-> y.busy, st |-> y.st, ask |-> y.ask,
             session |-> y.session, terms |-> y.terms, row |-> y.row, then |-> y.then]
    BY <1>1, <2>1 DEF IsProcess
  <2>3. IsProcess(x)
    BY <1>1, <2>2 DEF IsProcess, Counters, Afterwards
  <2>4. Onward(p) /\ procs'[p] = x
    BY <1>4, <2>2, <2>3, OnwardIs DEF Creating
  <2> QED
    BY <1>1, <1>2, <1>3, <2>2, <2>4 DEF y
<1>5. ASSUME NEW n \in {1, 2}, Then(p, Handled(p, n))
      PROVE  Onward(p) /\ Follows(p, n, procs'[p])
  <2>1. Follows(p, n, Handled(p, n))
    BY <1>1, HandledFollows
  <2>2. Onward(p) /\ procs'[p] = Handled(p, n)
    BY <1>5, <2>1, FollowsOn
  <2> QED
    BY <2>1, <2>2
<1> QED
  BY <1>1, <1>2, <1>3, <1>4, <1>5

LEMMA SubmitIs ==
    ASSUME TypeInv, NEW p \in Procs, SubmitPresigned(p)
    PROVE  \E r, x :
             /\ r.kind = "approve" /\ r.party = Party(p) /\ r.nonce = procs[p].ask.nonce
             /\ r.session = NoSession
             /\ x.pc = "nonce" /\ x.i = procs[p].i /\ x.busy = procs[p].busy
             /\ x.st = procs[p].st /\ x.ask = procs[p].ask
             /\ \/ Persisted(p, r, x)
                \/ /\ db' = db /\ Onward(p) /\ Rows(db, "approve", Party(p)) # {}
                   /\ procs'[p].pc = "send" /\ procs'[p].then = "nonce"
                   /\ procs'[p].i = procs[p].i /\ procs'[p].busy = procs[p].busy
                   /\ procs'[p].st = procs[p].st /\ procs'[p].ask = procs[p].ask
<1> DEFINE y == procs[p]
           q == Party(p)
           r == [Row("approve", q) EXCEPT !.fee = procs[p].ask.fee, !.nonce = procs[p].ask.nonce]
           known == {k \in Rows(db, "approve", q) : db.rows[k].fee = r.fee /\ db.rows[k].nonce = r.nonce}
           x == [y EXCEPT !.pc = "nonce"]
           z == [y EXCEPT !.pc = "send", !.then = "nonce", !.row = Max(known)]
<1>1. IsProcess(y) /\ y.pc = "submit" /\ y.i \in 1..2 /\ q \in Parties
  <2>1. IsProcess(y) /\ y.pc = "submit"
    BY DEF TypeInv, SubmitPresigned, At
  <2>2. y.i \in 1..2 /\ q \in Parties
    BY <2>1, PartyIs
  <2> QED
    BY <2>1, <2>2
<1>2. r.kind = "approve" /\ r.party = q /\ r.nonce = y.ask.nonce /\ r.session = NoSession
      /\ r.status = "pending" /\ IsRow(r)
  <2> DEFINE m == Row("approve", q)
             fee == procs[p].ask.fee
             nonce == procs[p].ask.nonce
  <2>1. m = [kind |-> "approve", party |-> q, nonce |-> 0, fee |-> 0, status |-> "pending",
             session |-> NoSession]
    BY DEF Row
  <2>2. r = [m EXCEPT !.fee = fee, !.nonce = nonce]
    OBVIOUS
  <2> HIDE DEF m, fee, r, y
  <2>3. r = [kind |-> "approve", party |-> q, nonce |-> nonce, fee |-> fee,
             status |-> "pending", session |-> NoSession]
    BY <2>1, <2>2
  <2> QED
    BY <2>3 DEF IsRow, y
<1>3. \/ Persist(p, r, x)
      \/ known # {} /\ db' = db /\ Then(p, z)
  BY Zenon DEF SubmitPresigned
<1>4. known # {} => Rows(db, "approve", q) # {}
  OBVIOUS
<1>5. x = [y EXCEPT !.pc = "nonce"]
  OBVIOUS
<1> DEFINE n == Max(known)
<1>6. z = [y EXCEPT !.pc = "send", !.then = "nonce", !.row = n]
  OBVIOUS
<1> HIDE DEF r, x, z, n, known, y
<1>7. x = [pc |-> "nonce", i |-> y.i, busy |-> y.busy, st |-> y.st, ask |-> y.ask,
           session |-> y.session, terms |-> y.terms, row |-> y.row, then |-> y.then]
  BY <1>1, <1>5 DEF IsProcess
<1>8. z = [pc |-> "send", i |-> y.i, busy |-> y.busy, st |-> y.st, ask |-> y.ask,
           session |-> y.session, terms |-> y.terms, row |-> n, then |-> "nonce"]
  BY <1>1, <1>6 DEF IsProcess
<1>9. IsProcess(x) /\ IsProcess(z)
  BY <1>1, <1>7, <1>8 DEF IsProcess, Counters, Afterwards
<1>10. CASE Persist(p, r, x)
  <2>1. r.kind \in Kinds /\ r.party \in Parties
    BY <1>1, <1>2 DEF Kinds, SetupKinds
  <2>2. Persisted(p, r, x)
    BY <1>2, <1>7, <1>9, <1>10, <2>1, PersistedIs DEF Afterwards
  <2> QED
    BY <1>2, <1>7, <2>2 DEF y
<1>11. CASE known # {} /\ db' = db /\ Then(p, z)
  <2>1. Onward(p) /\ procs'[p] = z
    BY <1>8, <1>9, <1>11, OnwardIs DEF Creating
  <2> QED
    BY <1>2, <1>4, <1>7, <1>8, <1>11, <2>1 DEF y
<1> QED
  BY <1>3, <1>10, <1>11

LEMMA SetNonceIs ==
    ASSUME TypeInv, NEW p \in Procs, SetNonce(p)
    PROVE  /\ DbTyped' /\ db'.rows = db.rows /\ db'.run = db.run
           /\ db'.session = db.session /\ db'.event = db.event
           /\ Party(p) \in Parties
           /\ \A q \in Parties : q # Party(p) => db'.nonce[q] = db.nonce[q]
           /\ Onward(p) /\ Follows(p, 1, procs'[p])
<1> DEFINE y == procs[p]
           q == Party(p)
           v == Max({procs[p].st.nonce[q], procs[p].ask.nonce + 1})
           h == Handled(p, 1)
           x == [h EXCEPT !.terms[q] = 0]
           terms == [h.terms EXCEPT ![q] = 0]
<1>1. IsProcess(y) /\ y.i \in 1..2 /\ q \in Parties
  <2>1. IsProcess(y) /\ y.pc = "nonce"
    BY DEF TypeInv, SetNonce, At
  <2>2. y.i \in 1..2 /\ q \in Parties
    BY <2>1, PartyIs
  <2> QED
    BY <2>1, <2>2
<1>2. db' = [db EXCEPT !.nonce[q] = v] /\ Then(p, x)
  BY Zenon DEF SetNonce
<1> HIDE DEF v
<1>3. /\ DbTyped' /\ db'.rows = db.rows /\ db'.run = db.run
      /\ db'.session = db.session /\ db'.event = db.event
      /\ db'.nonce = [db.nonce EXCEPT ![q] = v]
  <2>1. DbTyped
    BY DEF TypeInv
  <2> HIDE DEF q
  <2> QED
    BY <1>1, <1>2, <2>1, NonceChanged
<1>4. \A o \in Parties : o # q => db'.nonce[o] = db.nonce[o]
  <2>1. IsPerParty(db.nonce)
    BY DEF TypeInv, DbTyped
  <2> HIDE DEF q
  <2> QED
    BY <1>1, <1>3, <2>1, PerPartyChanged
<1>5. h.terms = y.terms /\ IsPerParty(h.terms)
  <2>1. h.terms = y.terms
    BY <1>1, HandledIs
  <2>2. IsPerParty(y.terms)
    BY <1>1 DEF IsProcess
  <2> QED
    BY <2>1, <2>2
<1>6. IsPerParty(terms)
  <2> HIDE DEF h, q
  <2> QED
    BY <1>1, <1>5, PerPartyChanged
<1>7. x = [h EXCEPT !.terms = terms]
  OBVIOUS
<1> HIDE DEF terms, x
<1>8. Follows(p, 1, x)
  BY <1>1, <1>6, <1>7, HandledTermsFollow
<1>9. Onward(p) /\ procs'[p] = x
  BY <1>2, <1>8, FollowsOn
<1> QED
  BY <1>1, <1>3, <1>4, <1>8, <1>9

LEMMA RecordIs ==
    ASSUME TypeInv, NEW p \in Procs, RecordSession(p)
    PROVE  /\ DbTyped' /\ db'.rows = db.rows /\ db'.run = db.run /\ db'.session = Fresh
           /\ db'.nonce = db.nonce /\ db'.event = db.event /\ Fresh # NoSession
           /\ Onward(p) /\ procs'[p].pc = "create" /\ procs'[p].session = Fresh
<1> DEFINE y == procs[p]
           x == [procs[p] EXCEPT !.pc = "create", !.session = Fresh]
           f == db.fresh + 1
<1>1. IsProcess(y) /\ y.pc = "record" /\ DbTyped
  BY DEF TypeInv, RecordSession, At
<1>2. db' = [db EXCEPT !.session = Fresh, !.fresh = f] /\ Then(p, x)
  BY DEF RecordSession
<1>3. f \in Nat \ {0} /\ db.fresh # 0
  BY <1>1 DEF DbTyped
<1>4. Fresh # NoSession
  BY <1>3 DEF Fresh, NoSession
<1>0. x = [y EXCEPT !.pc = "create", !.session = Fresh]
  OBVIOUS
<1> HIDE DEF f, y, x
<1>5. DbIs(db)
  BY <1>1 DEF DbTyped, DbIs
<1>6. db' = [rows |-> db.rows, session |-> Fresh, nonce |-> db.nonce, base |-> db.base,
             event |-> db.event, run |-> db.run, fresh |-> f, post |-> db.post]
  BY <1>2, <1>5 DEF DbIs
<1>7. DbTyped'
  BY <1>1, <1>3, <1>6 DEF DbTyped
<1>8. x = [pc |-> "create", i |-> y.i, busy |-> y.busy, st |-> y.st, ask |-> y.ask,
           session |-> Fresh, terms |-> y.terms, row |-> y.row, then |-> y.then]
  BY <1>0, <1>1 DEF IsProcess
<1>9. IsProcess(x)
  BY <1>1, <1>8 DEF IsProcess, Counters, Afterwards
<1>10. Onward(p) /\ procs'[p] = x
  BY <1>2, <1>8, <1>9, OnwardIs DEF Creating
<1> QED
  BY <1>4, <1>6, <1>7, <1>8, <1>10

LEMMA CreateIs ==
    ASSUME TypeInv, NEW p \in Procs, CreateSession(p)
    PROVE  \E r, x :
             /\ r.kind = "create_session" /\ r.party = "both" /\ r.nonce = 0
             /\ r.session = procs[p].session /\ x.pc = "idle"
             /\ Persisted(p, r, x)
<1> DEFINE m == Row("create_session", "both")
           s == procs[p].session
           r == [m EXCEPT !.session = s]
           x == Yielded(p)
<1>1. m = [kind |-> "create_session", party |-> "both", nonce |-> 0, fee |-> 0,
           status |-> "pending", session |-> NoSession]
  BY DEF Row
<1>2. Persist(p, r, x)
  BY DEF CreateSession, Config
<1>0. r = [m EXCEPT !.session = s]
  OBVIOUS
<1>3. IsProcess(x) /\ x.pc = "idle"
  BY YieldedIs
<1> HIDE DEF m, r, x
<1>4. /\ r.kind = "create_session" /\ r.party = "both" /\ r.nonce = 0
      /\ r.session = s /\ r.status = "pending" /\ IsRow(r)
  BY <1>0, <1>1 DEF IsRow
<1>5. r.kind \in Kinds
  BY <1>4 DEF Kinds
<1>6. Persisted(p, r, x)
  BY <1>2, <1>3, <1>4, <1>5, PersistedIs DEF Afterwards
<1> QED
  BY <1>3, <1>4, <1>6

(* An agent is asked for the session the chain confirmed.                  *)
Agrees(p) == db.event # NoEvent /\ Approves(agents[Party(p)], db.event.opened)

LEMMA RestoredIs ==
    ASSUME TypeInv, NEW q \in Parties, NEW opened
    PROVE  /\ IsAgent(Restored(agents[q], opened))
           /\ Restored(agents[q], opened).late = agents[q].late
           /\ Restored(agents[q], opened).entry = [state |-> "approved", opened |-> opened]
<1> DEFINE a == Provisioned(agents[q])
           e == [state |-> "approved", opened |-> opened]
<1>1. IsAgent(a) /\ a.late = agents[q].late
  BY ProvisionedIs
<1>2. Restored(agents[q], opened) = [a EXCEPT !.entry = e]
  BY DEF Restored, Approved
<1> HIDE DEF a, e
<1>3. Restored(agents[q], opened) = [entry |-> e, late |-> a.late] /\ a.late \in BOOLEAN
  BY <1>1, <1>2 DEF IsAgent
<1> QED
  BY <1>1, <1>3 DEF IsAgent, e

LEMMA ApproveIs ==
    ASSUME TypeInv, NEW p \in Procs, ApproveSession(p)
    PROVE  /\ DbTyped' /\ SameBut(db') /\ db'.rows = db.rows
           /\ Onward(p) /\ AgentChanged(Party(p)) /\ Party(p) \in Parties
           /\ faults' \in {faults, faults - 1} /\ (faults' # faults => faults > 0)
           /\ db'.run # db.run => db'.run \in {"recovery", "ending"}
           /\ \/ /\ agents'[Party(p)].entry = [state |-> "approved", opened |-> db.event.opened]
                 /\ db.event # NoEvent /\ db' = db /\ procs[p].i = 1
                 /\ procs'[p].pc = "approve" /\ procs'[p].i = 2
              \/ /\ agents'[Party(p)].entry = [state |-> "approved", opened |-> db.event.opened]
                 /\ db.event # NoEvent /\ db' = db /\ procs[p].i = 2
                 /\ procs'[p].pc = "post"
              \/ procs'[p].pc = "idle"
<1> DEFINE y == procs[p]
           q == Party(p)
           opened == db.event.opened
           go == [y EXCEPT !.i = y.i + 1]
           end == [y EXCEPT !.pc = "post"]
<1>1. IsProcess(y) /\ y.pc = "approve" /\ y.i \in 1..2 /\ q \in Parties /\ DbTyped
  <2>1. IsProcess(y) /\ y.pc = "approve" /\ DbTyped
    BY DEF TypeInv, ApproveSession, At
  <2>2. y.i \in 1..2 /\ q \in Parties
    BY <2>1, PartyIs
  <2> QED
    BY <2>1, <2>2
<1>2. AgentChanged(q) /\ (Agrees(p) => agents'[q].entry = [state |-> "approved", opened |-> opened])
  <2>1. CASE Agrees(p)
    <3>1. agents' = [agents EXCEPT ![q] = Restored(agents[q], opened)]
      BY <2>1 DEF ApproveSession, Agrees
    <3>2. AgentChanged(q) /\ agents'[q] = Restored(agents[q], opened)
      <4> DEFINE a == Restored(agents[q], opened)
      <4>1. IsAgent(a) /\ a.late = agents[q].late
        BY <1>1, RestoredIs
      <4>2. agents' = [agents EXCEPT ![q] = a]
        BY <3>1
      <4> HIDE DEF a
      <4>3. AgentChanged(q) /\ agents'[q] = a
        BY <1>1, <4>1, <4>2, AgentUpdated
      <4> QED
        BY <4>3 DEF a
    <3> QED
      BY <1>1, <3>2, RestoredIs
  <2>2. CASE ~Agrees(p)
    <3>1. agents' = [agents EXCEPT ![q] = Provisioned(agents[q])]
      BY <2>2 DEF ApproveSession, Agrees
    <3> QED
      BY <1>1, <2>2, <3>1, ProvisionedIs, AgentUpdated
  <2> QED
    BY <2>1, <2>2
<1>3. \/ /\ Agrees(p) /\ db' = db /\ faults' = faults
         /\ Then(p, IF y.i < 2 THEN go ELSE end)
      \/ /\ faults' = faults /\ Then(p, Yielded(p))
         /\ \E v \in {"recovery", "ending"} : db' = [db EXCEPT !.run = v]
      \/ faults > 0 /\ faults' = faults - 1 /\ db' = db /\ Then(p, Yielded(p))
  BY OrderIs DEF ApproveSession, Agrees, Fault
<1>4. db' = db => DbTyped' /\ SameBut(db') /\ db'.rows = db.rows /\ db'.run = db.run
  BY <1>1, DbSame
<1>5. CASE Then(p, Yielded(p))
  <2>1. Onward(p) /\ procs'[p].pc = "idle"
    BY <1>5, YieldMoves
  <2>2. CASE db' = db
    BY <1>1, <1>2, <1>3, <1>4, <2>1, <2>2
  <2>3. ASSUME NEW v \in {"recovery", "ending"}, db' = [db EXCEPT !.run = v]
        PROVE  DbTyped' /\ SameBut(db') /\ db'.rows = db.rows /\ db'.run = v
    BY <1>1, <2>3, RunChanged
  <2> QED
    BY <1>1, <1>2, <1>3, <2>1, <2>2, <2>3
<1>6. CASE /\ Agrees(p) /\ db' = db /\ faults' = faults
           /\ Then(p, IF y.i < 2 THEN go ELSE end)
  <2>1. CASE y.i = 1
    <3>1. y.i + 1 = 2
      BY <2>1
    <3> DEFINE x == [y EXCEPT !.i = 2]
    <3>2. Then(p, x)
      BY <1>6, <2>1, <3>1
    <3>3. x = [y EXCEPT !.i = 2]
      OBVIOUS
    <3> HIDE DEF x
    <3> HIDE DEF y
    <3>4. x = [pc |-> "approve", i |-> 2, busy |-> y.busy, st |-> y.st, ask |-> y.ask,
               session |-> y.session, terms |-> y.terms, row |-> y.row, then |-> y.then]
      BY <1>1, <3>3 DEF IsProcess
    <3>5. IsProcess(x)
      BY <1>1, <3>4 DEF IsProcess, Counters, Afterwards
    <3>6. Onward(p) /\ procs'[p] = x
      BY <3>2, <3>4, <3>5, OnwardIs DEF Creating
    <3> QED
      BY <1>1, <1>2, <1>4, <1>6, <2>1, <3>4, <3>6 DEF Agrees, y
  <2>2. CASE y.i = 2
    <3>2. Then(p, end)
      BY <1>6, <2>2
    <3>3. end = [y EXCEPT !.pc = "post"]
      OBVIOUS
    <3> HIDE DEF end
    <3> HIDE DEF y
    <3>4. end = [pc |-> "post", i |-> y.i, busy |-> y.busy, st |-> y.st, ask |-> y.ask,
               session |-> y.session, terms |-> y.terms, row |-> y.row, then |-> y.then]
      BY <1>1, <3>3 DEF IsProcess
    <3>5. IsProcess(end)
      BY <1>1, <3>4 DEF IsProcess, Counters, Afterwards
    <3>6. Onward(p) /\ procs'[p] = end
      BY <3>2, <3>4, <3>5, OnwardIs DEF Creating
    <3> QED
      BY <1>1, <1>2, <1>4, <1>6, <2>2, <3>4, <3>6 DEF Agrees, y
  <2> QED
    BY <1>1, <2>1, <2>2
<1> QED
  BY <1>3, <1>5, <1>6

LEMMA PostIs ==
    ASSUME TypeInv, NEW p \in Procs, PostSetup(p)
    PROVE  /\ DbTyped' /\ SameBut(db') /\ db'.rows = db.rows /\ db'.run = db.run
           /\ Onward(p) /\ procs'[p].pc = "done"
<1> DEFINE y == procs[p]
           x == [procs[p] EXCEPT !.pc = "done"]
<1>1. IsProcess(y) /\ y.pc = "post" /\ DbTyped
  BY DEF TypeInv, PostSetup, At
<1>2. db' = [db EXCEPT !.post = TRUE] /\ Then(p, x)
  BY DEF PostSetup
<1>3. DbTyped' /\ SameBut(db') /\ db'.rows = db.rows /\ db'.run = db.run
  BY <1>1, <1>2, PostChanged
<1>0. x = [y EXCEPT !.pc = "done"]
  OBVIOUS
<1> HIDE DEF x, y
<1>4. x = [pc |-> "done", i |-> y.i, busy |-> y.busy, st |-> y.st, ask |-> y.ask,
           session |-> y.session, terms |-> y.terms, row |-> y.row, then |-> y.then]
  BY <1>0, <1>1 DEF IsProcess
<1>5. IsProcess(x)
  BY <1>1, <1>4 DEF IsProcess, Counters, Afterwards
<1>6. Onward(p) /\ procs'[p] = x
  BY <1>2, <1>4, <1>5, OnwardIs DEF Creating
<1> QED
  BY <1>3, <1>4, <1>6

LEMMA EndsIs ==
    ASSUME TypeInv, NEW p \in Procs, SetupStops(p) \/ SetupDone(p)
    PROVE  /\ DbTyped' /\ SameBut(db') /\ db'.rows = db.rows
           /\ db'.run # db.run => db'.run \in {"recovery", "running"}
           /\ db'.run = "running" => db.run = "running" \/ At(p, "done")
           /\ Onward(p) /\ procs'[p].pc = "idle"
<1>1. DbTyped
  BY DEF TypeInv
<1>2. Then(p, Yielded(p))
  BY DEF SetupStops, SetupDone
<1>3. Onward(p) /\ procs'[p].pc = "idle"
  BY <1>2, YieldMoves
<1>4. \/ db' = db
      \/ db' = [db EXCEPT !.run = "recovery"]
      \/ At(p, "done") /\ db' = [db EXCEPT !.run = "running"]
  BY DEF SetupStops, SetupDone
<1>5. CASE db' = db
  BY <1>1, <1>3, <1>5, DbSame
<1>6. CASE db' = [db EXCEPT !.run = "recovery"]
  BY <1>1, <1>3, <1>6, RunChanged
<1>7. CASE At(p, "done") /\ db' = [db EXCEPT !.run = "running"]
  BY <1>1, <1>3, <1>7, RunChanged
<1> QED
  BY <1>4, <1>5, <1>6, <1>7
-----------------------------------------------------------------------------
(* The creation of the run: every step keeps TypeInv and CreationInv.      *)

Fewer == faults' \in {faults, faults - 1} /\ (faults' # faults => faults > 0)

LEMMA FaultFewer ==
    ASSUME NEW kind, Fault(kind)
    PROVE  Fewer /\ faults' = faults - 1
BY DEF Fault, Fewer

LEMMA TypedNext ==
    ASSUME TypeInv, DbTyped', ChainTyped', procs' = [o \in Procs |-> procs'[o]],
           \A o \in Procs : IsProcess(procs'[o]), AgentsTyped', owner' \in Procs, Fewer
    PROVE  TypeInv'
<1>1. faults' \in 0..MaxFaults
  BY SetupAssumption DEF TypeInv, Fewer
<1> QED
  BY <1>1 DEF TypeInv, AgentsTyped

LEMMA TypedMoved ==
    ASSUME TypeInv, DbTyped', chain' = chain, NEW p \in Procs, Moved(p), IsProcess(procs'[p]),
           AgentsTyped', owner' = owner, Fewer
    PROVE  TypeInv'
<1>1. procs' = [o \in Procs |-> procs'[o]] /\ \A o \in Procs : IsProcess(procs'[o])
  BY MovedTyped
<1>2. ChainTyped' /\ owner' \in Procs
  BY DEF TypeInv, ChainTyped
<1> QED
  BY <1>1, <1>2, TypedNext

(* Past the creation no process returns to it, and none of its requests    *)
(* is left.                                                                *)
LEMMA CreationPast ==
    ASSUME TypeInv, CreationInv, db.run \notin {"creating", "refused"},
           db'.run \notin {"creating", "refused"},
           \A o \in Procs : procs'[o] = procs[o] \/ procs'[o].pc \notin Creating,
           \A q \in Parties : agents'[q].late => agents[q].late
    PROVE  CreationInv'
<1>1. \A o \in Procs : procs'[o].pc \notin Creating
  BY DEF CreationInv
<1>2. \A q \in Parties : ~agents'[q].late
  BY DEF CreationInv
<1>3. \A o \in Procs : CreationOf(o)'
  BY <1>1 DEF CreationOf, At, Creating
<1> QED
  BY <1>1, <1>2, <1>3 DEF CreationInv

(* While it lasts a process can stop, and faults happen.                   *)
LEMMA CreationStays ==
    ASSUME TypeInv, CreationInv, db'.run = db.run, owner' = owner, agents' = agents, Fewer,
           \A o \in Procs : procs'[o] = procs[o] \/ procs'[o].pc \in Resting
    PROVE  CreationInv'
<1>0. faults \in 0..MaxFaults /\ MaxFaults \in Nat /\ faults' \in {faults, faults - 1}
  BY SetupAssumption DEF TypeInv, Fewer
<1>1. ASSUME NEW o \in Procs
      PROVE  /\ procs'[o].pc \in Creating => o = owner' /\ db'.run = "creating"
             /\ procs'[o].pc \notin Creating \cup Resting =>
                  db'.run \notin {"creating", "refused"}
             /\ CreationOf(o)'
  <2>1. CASE procs'[o].pc \in Resting
    BY <2>1 DEF CreationOf, At, Creating, Resting
  <2>2. CASE procs'[o] = procs[o]
    <3>1. CreationOf(o)'
      <4>1. CreationOf(o)
        BY DEF CreationInv
      <4> QED
        BY <1>0, <2>2, <4>1 DEF CreationOf, At, Untouched
    <3> QED
      BY <2>2, <3>1 DEF CreationInv
  <2> QED
    BY <2>1, <2>2
<1>2. db'.run = "refused" =>
        /\ faults' < MaxFaults
        /\ faults' = MaxFaults - 1 =>
              \A q \in Parties : Untouched(q)' \/ agents'[q].entry.state = "released"
  BY <1>0 DEF CreationInv, Untouched
<1>3. \A q \in Parties : agents'[q].late =>
         /\ db'.run \in {"creating", "refused"}
         /\ \A o \in Procs : procs'[o].pc \notin {"provision", "commit"}
  BY DEF CreationInv, Resting
<1> QED
  BY <1>1, <1>2, <1>3 DEF CreationInv

(* The chain's own steps.                                                  *)
Onchain == (\E k \in DOMAIN db.rows : Mine(k) \/ Age(k)) \/ Deepen \/ Spike \/ Pass \/ Reorg

LEMMA OnchainIs ==
    ASSUME TypeInv, Onchain
    PROVE  /\ ChainTyped' /\ Fewer
           /\ db' = db /\ procs' = procs /\ agents' = agents /\ owner' = owner
<1>1. ChainTyped
  BY DEF TypeInv
<1>0. chain' = chain => ChainTyped'
  BY <1>1 DEF ChainTyped
<1> DEFINE new == [soft |-> chain'.soft, deep |-> chain'.deep, time |-> chain'.time,
                   base |-> chain'.base, lost |-> chain'.lost]
<1>2. ASSUME NEW k \in DOMAIN db.rows, Mine(k)
      PROVE  ChainTyped' /\ Fewer /\ UNCHANGED <<db, procs, agents, owner>>
  <2> DEFINE b == Block(k)
             soft == chain.soft \cup {b}
  <2>1. chain' = [chain EXCEPT !.soft = soft]
    BY <1>2 DEF Mine
  <2>2. IsFiniteSet(soft)
    BY <1>1, FS_AddElement DEF ChainTyped
  <2> HIDE DEF soft
  <2>3. ChainTyped'
    BY <1>1, <2>1, <2>2 DEF ChainTyped
  <2> QED
    BY <1>2, <2>3 DEF Mine, Fewer
<1>3. ASSUME Deepen
      PROVE  ChainTyped' /\ Fewer /\ UNCHANGED <<db, procs, agents, owner>>
  <2> DEFINE deep == chain.deep \cup chain.soft
  <2>1. chain' = [chain EXCEPT !.deep = deep, !.soft = {}]
    BY <1>3 DEF Deepen
  <2>2. IsFiniteSet(deep) /\ IsFiniteSet({})
    BY <1>1, FS_Union, FS_EmptySet DEF ChainTyped
  <2> HIDE DEF deep
  <2>3. ChainTyped'
    BY <1>1, <2>1, <2>2 DEF ChainTyped
  <2> QED
    BY <1>3, <2>3 DEF Deepen, Fewer
<1>4. ASSUME Spike
      PROVE  ChainTyped' /\ Fewer /\ UNCHANGED <<db, procs, agents, owner>>
  <2> DEFINE base == chain.base + 1
  <2>1. chain' = [chain EXCEPT !.base = base]
    BY <1>4 DEF Spike
  <2>2. base \in Nat \ {0}
    BY <1>1 DEF ChainTyped
  <2> HIDE DEF base
  <2>3. ChainTyped'
    BY <1>1, <2>1, <2>2 DEF ChainTyped
  <2>4. Fewer
    BY <1>4, FaultFewer DEF Spike
  <2> QED
    BY <1>4, <2>3, <2>4 DEF Spike
<1>5. ASSUME Pass
      PROVE  ChainTyped' /\ Fewer /\ UNCHANGED <<db, procs, agents, owner>>
  <2> DEFINE t == chain.time + 1
  <2>1. chain' = [chain EXCEPT !.time = t]
    BY <1>5 DEF Pass
  <2> HIDE DEF t
  <2>3. ChainTyped'
    BY <1>1, <2>1 DEF ChainTyped
  <2> QED
    BY <1>5, <2>3 DEF Pass, Fewer
<1>6. ASSUME Reorg
      PROVE  ChainTyped' /\ Fewer /\ UNCHANGED <<db, procs, agents, owner>>
  <2>1. PICK kept \in SUBSET chain.soft, lost \in BOOLEAN, t \in 0..chain.time :
          chain' = [chain EXCEPT !.soft = kept, !.lost = lost, !.time = t]
    BY <1>6 DEF Reorg
  <2>2. IsFiniteSet(kept)
    BY <1>1, FS_Subset DEF ChainTyped
  <2>3. ChainTyped'
    BY <1>1, <2>1, <2>2 DEF ChainTyped
  <2>4. Fewer
    BY <1>6, FaultFewer DEF Reorg
  <2> QED
    BY <1>6, <2>3, <2>4 DEF Reorg
<1>7. ASSUME NEW k \in DOMAIN db.rows, Age(k)
      PROVE  ChainTyped' /\ Fewer /\ UNCHANGED <<db, procs, agents, owner>>
  BY <1>0, <1>7 DEF Age, Fewer
<1> QED
  BY <1>2, <1>3, <1>4, <1>5, <1>6, <1>7 DEF Onchain

Base == TypeInv /\ CreationInv

LEMMA OnchainKeepsBase ==
    ASSUME Base, Onchain PROVE Base'
<1>1. /\ ChainTyped' /\ Fewer
      /\ db' = db /\ procs' = procs /\ agents' = agents /\ owner' = owner
  BY OnchainIs DEF Base
<1>2. TypeInv'
  <2>1. DbTyped' /\ AgentsTyped' /\ owner' \in Procs /\ procs' = [o \in Procs |-> procs'[o]]
        /\ \A o \in Procs : IsProcess(procs'[o])
    BY <1>1 DEF Base, TypeInv, DbTyped, AgentsTyped
  <2> QED
    BY <1>1, <2>1, TypedNext DEF Base
<1>3. CreationInv'
  BY <1>1, CreationStays DEF Base
<1> QED
  BY <1>2, <1>3 DEF Base

(* A step of set-up past the creation.                                     *)
LEMMA PastKeepsBase ==
    ASSUME Base, NEW p \in Procs, procs[p].pc \notin Creating \cup Resting \/ db.run = "preparing",
           DbTyped', chain' = chain, Moved(p), IsProcess(procs'[p]), procs'[p].pc \notin Creating,
           AgentsTyped', \A q \in Parties : agents'[q].late = agents[q].late,
           owner' = owner, Fewer,
           db'.run # db.run => db'.run \notin {"creating", "refused"}
    PROVE  Base'
<1>1. TypeInv'
  BY TypedMoved DEF Base
<1>2. db.run \notin {"creating", "refused"}
  BY DEF Base, CreationInv
<1>3. CreationInv'
  BY <1>2, CreationPast DEF Base, Moved
<1> QED
  BY <1>1, <1>3 DEF Base

SetupStep(p) ==
    \/ PreSetup(p) \/ Mint(p) \/ Send(p) \/ Approval(p) \/ Ask(p) \/ SubmitPresigned(p)
    \/ SetNonce(p) \/ RecordSession(p) \/ CreateSession(p) \/ ApproveSession(p)
    \/ PostSetup(p) \/ SetupDone(p) \/ SetupStops(p)

(* Its guard.                                                              *)
LEMMA SetupStepAt ==
    ASSUME NEW p \in Procs, SetupStep(p)
    PROVE  procs[p].pc \notin Creating \cup Resting
BY DEF SetupStep, PreSetup, Mint, Send, Approval, Ask, SubmitPresigned, SetNonce,
       RecordSession, CreateSession, ApproveSession, PostSetup, SetupDone, SetupStops,
       At, Creating, Resting

LEMMA AgentsSame ==
    ASSUME TypeInv, agents' = agents
    PROVE  AgentsTyped' /\ \A q \in Parties : agents'[q].late = agents[q].late
BY DEF TypeInv, AgentsTyped

LEMMA SetupStepKeepsBase ==
    ASSUME Base, NEW p \in Procs, SetupStep(p) PROVE Base'
<1>0. TypeInv /\ procs[p].pc \notin Creating \cup Resting
  BY SetupStepAt DEF Base
<1> DEFINE Effect ==
        /\ DbTyped' /\ chain' = chain /\ Moved(p) /\ IsProcess(procs'[p])
        /\ procs'[p].pc \notin Creating
        /\ AgentsTyped' /\ \A q \in Parties : agents'[q].late = agents[q].late
        /\ owner' = owner /\ Fewer
        /\ db'.run # db.run => db'.run \notin {"creating", "refused"}
<1> DEFINE Still == chain' = chain /\ owner' = owner /\ agents' = agents /\ faults' = faults
<1>1. ASSUME Still PROVE AgentsTyped' /\ Fewer /\ \A q \in Parties : agents'[q].late = agents[q].late
  BY <1>0, <1>1, AgentsSame DEF Fewer
<1>2. ASSUME PreSetup(p) PROVE Effect
  <2>1. Still
    BY <1>2 DEF PreSetup
  <2> QED
    BY <1>0, <1>1, <1>2, <2>1, PreSetupIs DEF Onward
<1>3. ASSUME Mint(p) PROVE Effect
  <2>1. Still
    BY <1>3 DEF Mint
  <2>2. \E r, x : Persisted(p, r, x)
    BY <1>0, <1>3, MintIs
  <2> QED
    BY <1>0, <1>1, <2>1, <2>2 DEF Persisted, Onward
<1>4. ASSUME Send(p) PROVE Effect
  <2>1. Still
    BY <1>4 DEF Send
  <2>2. procs[p].then \notin Creating
    BY <1>0 DEF TypeInv, IsProcess, Afterwards, Creating
  <2> QED
    BY <1>0, <1>1, <1>4, <2>1, <2>2, SendIs DEF Creating
<1>5. ASSUME Approval(p) PROVE Effect
  <2>1. Still
    BY <1>5 DEF Approval
  <2>2. CASE ApprovalFunds(p)
    <3>1. \E r, x : Persisted(p, r, x)
      BY <2>2 DEF ApprovalFunds
    <3> QED
      BY <1>0, <1>1, <2>1, <3>1 DEF Persisted, Onward
  <2>3. CASE ApprovalHandled(p) \/ ApprovalAsks(p)
    <3>1. db' = db /\ Onward(p)
      BY <2>3 DEF ApprovalHandled, ApprovalAsks
    <3>2. DbTyped' /\ db'.run = db.run
      BY <1>0, <3>1, DbSame DEF TypeInv
    <3> QED
      BY <1>0, <1>1, <2>1, <3>1, <3>2 DEF Onward
  <2> QED
    BY <1>0, <1>5, <2>2, <2>3, ApprovalIs
<1>6. ASSUME Ask(p) PROVE Effect
  <2>1. chain' = chain /\ owner' = owner
    BY <1>6 DEF Ask
  <2>2. db' = db /\ Onward(p) /\ AgentChanged(Party(p)) /\ Fewer
    BY <1>0, <1>6, AskIs DEF Fewer
  <2>3. DbTyped' /\ db'.run = db.run
    BY <1>0, <2>2, DbSame DEF TypeInv
  <2> QED
    BY <2>1, <2>2, <2>3 DEF Onward, AgentChanged
<1>7. ASSUME SubmitPresigned(p) PROVE Effect
  <2>1. Still
    BY <1>7 DEF SubmitPresigned
  <2>2. (\E r, x : Persisted(p, r, x)) \/ (db' = db /\ Onward(p))
    BY <1>0, <1>7, SubmitIs
  <2>3. CASE \E r, x : Persisted(p, r, x)
    BY <1>0, <1>1, <2>1, <2>3 DEF Persisted, Onward
  <2>4. CASE db' = db /\ Onward(p)
    <3>1. DbTyped' /\ db'.run = db.run
      BY <1>0, <2>4, DbSame DEF TypeInv
    <3> QED
      BY <1>0, <1>1, <2>1, <2>4, <3>1 DEF Onward
  <2> QED
    BY <2>2, <2>3, <2>4
<1>8. ASSUME SetNonce(p) PROVE Effect
  <2>1. Still
    BY <1>8 DEF SetNonce
  <2> QED
    BY <1>0, <1>1, <1>8, <2>1, SetNonceIs DEF Onward
<1>9. ASSUME RecordSession(p) PROVE Effect
  <2>1. Still
    BY <1>9 DEF RecordSession
  <2> QED
    BY <1>0, <1>1, <1>9, <2>1, RecordIs DEF Onward
<1>10. ASSUME CreateSession(p) PROVE Effect
  <2>1. Still
    BY <1>10 DEF CreateSession
  <2>2. \E r, x : Persisted(p, r, x)
    BY <1>0, <1>10, CreateIs
  <2> QED
    BY <1>0, <1>1, <2>1, <2>2 DEF Persisted, Onward
<1>11. ASSUME ApproveSession(p) PROVE Effect
  <2>1. chain' = chain /\ owner' = owner
    BY <1>11 DEF ApproveSession
  <2>2. /\ DbTyped' /\ Onward(p) /\ AgentChanged(Party(p)) /\ Fewer
        /\ db'.run # db.run => db'.run \in {"recovery", "ending"}
    BY <1>0, <1>11, ApproveIs DEF Fewer
  <2> QED
    BY <2>1, <2>2 DEF Onward, AgentChanged
<1>12. ASSUME PostSetup(p) PROVE Effect
  <2>1. Still
    BY <1>12 DEF PostSetup
  <2> QED
    BY <1>0, <1>1, <1>12, <2>1, PostIs DEF Onward
<1>13. ASSUME SetupDone(p) \/ SetupStops(p) PROVE Effect
  <2>1. Still
    BY <1>13 DEF SetupDone, SetupStops
  <2>2. /\ DbTyped' /\ Onward(p) /\ (db'.run # db.run => db'.run \in {"recovery", "running"})
    BY <1>0, <1>13, EndsIs
  <2> QED
    BY <1>1, <2>1, <2>2 DEF Onward
<1>14. Effect
  BY <1>2, <1>3, <1>4, <1>5, <1>6, <1>7, <1>8, <1>9, <1>10, <1>11, <1>12, <1>13 DEF SetupStep
<1> QED
  BY <1>0, <1>14, PastKeepsBase

(* The driver's and the operator's steps around set-up.                    *)
LEMMA TickKeepsBase ==
    ASSUME Base, NEW p \in Procs, Tick(p) PROVE Base'
<1>0. TypeInv
  BY DEF Base
<1>1. /\ DbTyped' /\ Moved(p) /\ IsProcess(procs'[p]) /\ ChainTyped'
      /\ db'.run \in {"preparing", "failed"} /\ procs'[p].pc \notin Creating
  BY <1>0, TickIs DEF Polling, Creating
<1>2. /\ agents' = agents /\ owner' = owner /\ faults' = faults /\ db.run = "preparing"
  BY DEF Tick
<1>3. AgentsTyped' /\ \A q \in Parties : agents'[q].late = agents[q].late
  BY <1>0, <1>2, AgentsSame
<1>4. Fewer /\ owner' \in Procs
  BY <1>0, <1>2 DEF Fewer, TypeInv
<1>5. procs' = [o \in Procs |-> procs'[o]] /\ \A o \in Procs : IsProcess(procs'[o])
  BY <1>0, <1>1, MovedTyped
<1>6. TypeInv'
  BY <1>0, <1>1, <1>3, <1>4, <1>5, TypedNext
<1>7. CreationInv'
  BY <1>1, <1>2, <1>3, CreationPast DEF Base, Moved
<1> QED
  BY <1>6, <1>7 DEF Base

(* What the operator's actions and a process's recovery do.                *)
LEMMA ProcessedMoves ==
    ASSUME TypeInv, NEW p \in Procs, NEW pc \in Resting, Then(p, Process(pc, Cold))
    PROVE  Moved(p) /\ IsProcess(procs'[p]) /\ procs'[p].pc = pc
<1>1. IsPerParty(Cold)
  BY DEF IsPerParty, Cold
<1>2. pc \in Counters /\ pc # "mint"
  BY DEF Counters, Resting
<1>3. IsProcess(Process(pc, Cold)) /\ Process(pc, Cold).pc = pc
  BY <1>1, <1>2, ProcessNew
<1> QED
  BY <1>3, ThenMoves

LEMMA ResumeIs ==
    ASSUME TypeInv, NEW p \in Procs, Resume(p)
    PROVE  /\ DbTyped' /\ RowsSent /\ db'.run = "preparing" /\ db.run = "recovery"
           /\ Moved(p) /\ IsProcess(procs'[p]) /\ procs'[p].pc = "idle"
<1>1. DbTyped
  BY DEF TypeInv
<1> DEFINE d == Broadcast(db, Unsent(db))
<1>2. PICK rs : d = [db EXCEPT !.rows = rs] /\ Sending(db.rows, rs)
  BY <1>1, BroadcastIs
<1>3. db' = [d EXCEPT !.run = "preparing"]
  BY DEF Resume
<1> HIDE DEF d
<1>4. DbIs(db)
  BY <1>1 DEF DbTyped, DbIs
<1>5. d = [rows |-> rs, session |-> db.session, nonce |-> db.nonce, base |-> db.base,
           event |-> db.event, run |-> db.run, fresh |-> db.fresh, post |-> db.post]
  BY <1>2, <1>4 DEF DbIs
<1>6. db' = [rows |-> rs, session |-> db.session, nonce |-> db.nonce, base |-> db.base,
             event |-> db.event, run |-> "preparing", fresh |-> db.fresh, post |-> db.post]
  BY <1>3, <1>5
<1>7. RowsTyped(rs)
  BY <1>2 DEF Sending, Restated
<1>8. DbTyped'
  BY <1>1, <1>6, <1>7 DEF DbTyped
<1>9. RowsSent
  BY <1>2, <1>6 DEF RowsSent, SameBut
<1>10. Moved(p) /\ IsProcess(procs'[p]) /\ procs'[p].pc = "idle"
  BY ProcessedMoves DEF Resume, Resting
<1> QED
  BY <1>6, <1>8, <1>9, <1>10 DEF Resume

LEMMA RecoverIs ==
    ASSUME TypeInv, NEW p \in Procs, Recover(p)
    PROVE  /\ DbTyped' /\ RowsSent /\ db'.run = db.run
           /\ Moved(p) /\ IsProcess(procs'[p]) /\ procs'[p].pc = "idle"
           /\ procs[p].pc \in Resting /\ owner' = p /\ Fewer
           /\ owner' # owner => db.run = "preparing" /\ "stall" \in FaultKinds
<1>1. DbTyped
  BY DEF TypeInv
<1>2. db' = Broadcast(db, Unsent(db))
  BY DEF Recover
<1>3. DbTyped' /\ RowsSent /\ db'.run = db.run
  BY <1>1, <1>2, SentChanged
<1>4. Moved(p) /\ IsProcess(procs'[p]) /\ procs'[p].pc = "idle"
  BY ProcessedMoves DEF Recover, Resting
<1>5. Fewer
  BY FaultFewer DEF Recover, Fewer
<1> QED
  BY <1>3, <1>4, <1>5 DEF Recover, At, Resting, Fault

LEMMA CrashIs ==
    ASSUME TypeInv, NEW p \in Procs, Crash(p)
    PROVE  /\ Moved(p) /\ IsProcess(procs'[p]) /\ procs'[p].pc = "down" /\ Fewer
<1>1. Moved(p) /\ IsProcess(procs'[p]) /\ procs'[p].pc = "down"
  BY ProcessedMoves DEF Crash, Resting
<1> QED
  BY <1>1, FaultFewer DEF Crash

(* validate() and start().                                                 *)
LEMMA OperatedIs ==
    ASSUME TypeInv, NEW p \in Procs, Validate(p) \/ Start(p)
    PROVE  /\ DbTyped' /\ SameBut(db') /\ db'.rows = db.rows /\ Fewer
           /\ db.run \in {"draft", "validated"}
           /\ db'.run \in {"draft", "validated", "preparing"}
<1>1. DbTyped
  BY DEF TypeInv
<1>2. \E v \in {"draft", "validated", "preparing"} : db' = [db EXCEPT !.run = v]
  BY DEF Validate, Start
<1>3. DbTyped' /\ SameBut(db') /\ db'.rows = db.rows
      /\ db'.run \in {"draft", "validated", "preparing"}
  BY <1>1, <1>2, RunChanged
<1>4. Fewer
  BY FaultFewer DEF Validate, Start, Fewer
<1> QED
  BY <1>3, <1>4 DEF Validate, Start

LEMMA OperatedKeepsBase ==
    ASSUME Base, NEW p \in Procs, Validate(p) \/ Start(p) PROVE Base'
<1>0. TypeInv
  BY DEF Base
<1>1. /\ DbTyped' /\ Fewer /\ db.run \in {"draft", "validated"}
      /\ db'.run \in {"draft", "validated", "preparing"}
  BY <1>0, OperatedIs
<1>2. chain' = chain /\ agents' = agents /\ procs' = procs /\ owner' = owner
  BY DEF Validate, Start
<1>3. AgentsTyped' /\ \A q \in Parties : agents'[q].late = agents[q].late
  BY <1>0, <1>2, AgentsSame
<1>4. /\ ChainTyped' /\ owner' \in Procs /\ procs' = [o \in Procs |-> procs'[o]]
      /\ \A o \in Procs : IsProcess(procs'[o])
  BY <1>0, <1>2 DEF TypeInv, ChainTyped
<1>5. TypeInv'
  BY <1>0, <1>1, <1>3, <1>4, TypedNext
<1>6. CreationInv'
  BY <1>1, <1>2, <1>3, CreationPast DEF Base
<1> QED
  BY <1>5, <1>6 DEF Base

LEMMA ResumeKeepsBase ==
    ASSUME Base, NEW p \in Procs, Resume(p) PROVE Base'
<1>0. TypeInv
  BY DEF Base
<1>1. /\ DbTyped' /\ db'.run = "preparing" /\ db.run = "recovery"
      /\ Moved(p) /\ IsProcess(procs'[p]) /\ procs'[p].pc \notin Creating
  BY <1>0, ResumeIs DEF Creating
<1>2. chain' = chain /\ agents' = agents /\ owner' = owner /\ Fewer
  BY DEF Resume, Fewer
<1>3. AgentsTyped' /\ \A q \in Parties : agents'[q].late = agents[q].late
  BY <1>0, <1>2, AgentsSame
<1>4. TypeInv'
  BY <1>0, <1>1, <1>2, <1>3, TypedMoved
<1>5. CreationInv'
  BY <1>1, <1>3, CreationPast DEF Base, Moved
<1> QED
  BY <1>4, <1>5 DEF Base

LEMMA CrashKeepsBase ==
    ASSUME Base, NEW p \in Procs, Crash(p) PROVE Base'
<1>0. TypeInv
  BY DEF Base
<1>1. Moved(p) /\ IsProcess(procs'[p]) /\ procs'[p].pc = "down" /\ Fewer
  BY <1>0, CrashIs
<1>2. chain' = chain /\ agents' = agents /\ owner' = owner /\ db' = db
  BY DEF Crash
<1>3. AgentsTyped' /\ DbTyped' /\ db'.run = db.run
  BY <1>0, <1>2, AgentsSame, DbSame DEF TypeInv
<1>4. TypeInv'
  BY <1>0, <1>1, <1>2, <1>3, TypedMoved
<1>5. CreationInv'
  BY <1>1, <1>2, <1>3, CreationStays DEF Base, Moved, Resting
<1> QED
  BY <1>4, <1>5 DEF Base

LEMMA RecoverKeepsBase ==
    ASSUME Base, NEW p \in Procs, Recover(p) PROVE Base'
<1>0. TypeInv
  BY DEF Base
<1>1. /\ DbTyped' /\ db'.run = db.run
      /\ Moved(p) /\ IsProcess(procs'[p]) /\ procs'[p].pc = "idle"
      /\ owner' = p /\ Fewer /\ (owner' # owner => db.run = "preparing")
  BY <1>0, RecoverIs
<1>2. chain' = chain /\ agents' = agents
  BY DEF Recover
<1>3. AgentsTyped' /\ \A q \in Parties : agents'[q].late = agents[q].late
  BY <1>0, <1>2, AgentsSame
<1>4. procs' = [o \in Procs |-> procs'[o]] /\ \A o \in Procs : IsProcess(procs'[o])
  BY <1>0, <1>1, MovedTyped
<1>5. ChainTyped' /\ owner' \in Procs
  BY <1>0, <1>1, <1>2 DEF TypeInv, ChainTyped
<1>6. TypeInv'
  BY <1>0, <1>1, <1>3, <1>4, <1>5, TypedNext
<1>7. CASE owner' = owner
  <2>1. CreationInv'
    BY <1>1, <1>2, <1>7, CreationStays DEF Base, Moved, Resting
  <2> QED
    BY <1>6, <2>1 DEF Base
<1>8. CASE owner' # owner
  <2>1. CreationInv'
    BY <1>1, <1>3, <1>8, CreationPast DEF Base, Moved, Creating
  <2> QED
    BY <1>6, <2>1 DEF Base
<1> QED
  BY <1>7, <1>8

(* The agents' own steps.                                                  *)
LEMMA LateKeepsBase ==
    ASSUME Base, NEW q \in Parties, Late(q) PROVE Base'
<1>0. TypeInv /\ CreationInv
  BY DEF Base
<1> DEFINE a == Provisioned(agents[q])
           b == [a EXCEPT !.late = FALSE]
<1>1. agents' = [agents EXCEPT ![q] = b] /\ agents[q].late
  BY Zenon DEF Late
<1>2. /\ db' = db /\ chain' = chain /\ procs' = procs /\ owner' = owner /\ faults' = faults
  BY DEF Late
<1>3. IsAgent(a) /\ (agents[q].entry.state # "unprovisioned" => a.entry = agents[q].entry)
  BY <1>0, ProvisionedIs
<1>00. b = [a EXCEPT !.late = FALSE]
  OBVIOUS
<1> HIDE DEF a, b
<1>4. b = [entry |-> a.entry, late |-> FALSE]
  BY <1>3, <1>00 DEF IsAgent
<1>5. /\ agents' = [o \in Parties |-> agents'[o]] /\ agents'[q] = b
      /\ \A o \in Parties : o # q => agents'[o] = agents[o]
  BY <1>0, <1>1 DEF TypeInv
<1>6. AgentsTyped'
  <2>1. IsAgent(b)
    BY <1>4 DEF IsAgent
  <2> QED
    BY <1>0, <1>5, <2>1 DEF AgentsTyped, TypeInv
<1>7. TypeInv'
  <2>1. /\ DbTyped' /\ ChainTyped' /\ owner' \in Procs /\ procs' = [o \in Procs |-> procs'[o]]
        /\ \A o \in Procs : IsProcess(procs'[o])
    BY <1>0, <1>2 DEF TypeInv, ChainTyped, DbTyped
  <2>2. Fewer
    BY <1>2 DEF Fewer
  <2> QED
    BY <1>0, <1>6, <2>1, <2>2, TypedNext
<1>8. ~Untouched(q) /\ \A o \in Parties : Untouched(o) => Untouched(o)'
  BY <1>1, <1>5 DEF Untouched
<1>9. \A o \in Procs : procs[o].pc \notin {"provision", "commit"}
  BY <1>0, <1>1 DEF CreationInv
<1>10. \A o \in Procs : CreationOf(o)'
  <2>1. ASSUME NEW o \in Procs PROVE CreationOf(o)'
    <3>1. CreationOf(o) /\ procs[o].pc # "provision"
      BY <1>0, <1>9 DEF CreationInv
    <3>2. \A j \in (procs[o].i + 1)..2 : procs[o].pc = "undo" => Order[j] \in Parties
      <4>1. procs[o].i \in 0..2
        BY <1>0 DEF TypeInv, IsProcess
      <4> QED
        BY <4>1, OrderIs DEF Parties
    <3> QED
      BY <1>2, <1>8, <3>1, <3>2 DEF CreationOf, At
  <2> QED
    BY <2>1
<1>11. CreationInv'
  <2>1. ASSUME NEW o \in Parties, Untouched(o) \/ agents[o].entry.state = "released"
        PROVE  Untouched(o)' \/ agents'[o].entry.state = "released"
    <3>1. CASE o = q
      BY <1>3, <1>4, <1>5, <1>8, <2>1, <3>1
    <3>2. CASE o # q
      BY <1>5, <1>8, <2>1, <3>2
    <3> QED
      BY <3>1, <3>2
  <2>2. ASSUME NEW o \in Parties, agents'[o].late
        PROVE  agents[o].late
    BY <1>4, <1>5, <2>2
  <2>3. db'.run = "refused" =>
           /\ faults' < MaxFaults
           /\ faults' = MaxFaults - 1 =>
                \A o \in Parties : Untouched(o)' \/ agents'[o].entry.state = "released"
    BY <1>0, <1>2, <2>1 DEF CreationInv
  <2>4. \A o \in Procs :
           /\ procs'[o].pc \in Creating => o = owner' /\ db'.run = "creating"
           /\ procs'[o].pc \notin Creating \cup Resting => db'.run \notin {"creating", "refused"}
    BY <1>0, <1>2 DEF CreationInv
  <2>5. \A o \in Parties : agents'[o].late =>
           /\ db'.run \in {"creating", "refused"}
           /\ \A p \in Procs : procs'[p].pc \notin {"provision", "commit"}
    BY <1>0, <1>2, <2>2 DEF CreationInv
  <2> QED
    BY <1>10, <2>3, <2>4, <2>5 DEF CreationInv
<1> QED
  BY <1>7, <1>11 DEF Base

LEMMA AgentRestartKeepsBase ==
    ASSUME Base, NEW q \in Parties, AgentRestart(q) PROVE Base'
<1>0. TypeInv /\ CreationInv
  BY DEF Base
<1> DEFINE b == [entry |-> Entry("unprovisioned"), late |-> FALSE]
<1>1. agents' = [agents EXCEPT ![q] = b]
  BY Zenon DEF AgentRestart
<1>2. /\ db' = db /\ chain' = chain /\ procs' = procs /\ owner' = owner
      /\ Fewer /\ faults' = faults - 1
  BY FaultFewer DEF AgentRestart
<1>3. b.late = FALSE /\ b.entry.state = "unprovisioned" /\ IsAgent(b)
  BY DEF IsAgent, Entry
<1> HIDE DEF b
<1>5. /\ agents' = [o \in Parties |-> agents'[o]] /\ agents'[q] = b
      /\ \A o \in Parties : o # q => agents'[o] = agents[o]
  BY <1>0, <1>1 DEF TypeInv
<1>6. AgentsTyped'
  BY <1>0, <1>3, <1>5 DEF AgentsTyped, TypeInv
<1>7. TypeInv'
  <2>1. /\ DbTyped' /\ ChainTyped' /\ owner' \in Procs /\ procs' = [o \in Procs |-> procs'[o]]
        /\ \A o \in Procs : IsProcess(procs'[o])
    BY <1>0, <1>2 DEF TypeInv, ChainTyped, DbTyped
  <2> QED
    BY <1>0, <1>2, <1>6, <2>1, TypedNext
<1>8. faults \in 0..MaxFaults /\ MaxFaults \in Nat
  BY <1>0, SetupAssumption DEF TypeInv
<1>9. \A o \in Procs : CreationOf(o)'
  <2>1. ASSUME NEW o \in Procs PROVE CreationOf(o)'
    <3>1. CreationOf(o)
      BY <1>0 DEF CreationInv
    <3> QED
      BY <1>2, <1>8, <3>1 DEF CreationOf, At
  <2> QED
    BY <2>1
<1>10. \A o \in Parties : agents'[o].late => agents[o].late
  BY <1>3, <1>5
<1>11. CreationInv'
  BY <1>0, <1>2, <1>8, <1>9, <1>10 DEF CreationInv
<1> QED
  BY <1>7, <1>11 DEF Base

(* The creation itself.                                                    *)
LEMMA OthersRest ==
    ASSUME CreationInv, NEW p \in Procs, procs[p].pc \in Creating
    PROVE  /\ db.run = "creating" /\ p = owner
           /\ \A o \in Procs : o # p => procs[o].pc \in Resting
BY DEF CreationInv

LEMMA CommitKeepsBase ==
    ASSUME Base, NEW p \in Procs, Commit(p) PROVE Base'
<1>0. TypeInv /\ CreationInv /\ procs[p].pc = "commit"
  BY DEF Base, Commit, At
<1>1. db' = [db EXCEPT !.run = "draft"] /\ Then(p, Yielded(p))
  BY DEF Commit
<1>2. DbTyped' /\ db'.run = "draft"
  BY <1>0, <1>1, RunChanged DEF TypeInv
<1>3. Onward(p) /\ procs'[p].pc = "idle"
  BY <1>0, <1>1, YieldMoves
<1>4. chain' = chain /\ agents' = agents /\ owner' = owner /\ Fewer
  BY DEF Commit, Fewer
<1>5. AgentsTyped' /\ \A q \in Parties : agents'[q].late = agents[q].late
  BY <1>0, <1>4, AgentsSame
<1>6. TypeInv'
  BY <1>0, <1>2, <1>3, <1>4, <1>5, TypedMoved DEF Onward
<1>7. \A o \in Procs : procs'[o].pc \in Resting
  BY <1>0, <1>3, OthersRest DEF Onward, Moved, Resting, Creating
<1>8. \A q \in Parties : ~agents'[q].late
  BY <1>0, <1>5 DEF CreationInv
<1>9. \A o \in Procs : CreationOf(o)'
  BY <1>7 DEF CreationOf, At, Resting
<1>10. CreationInv'
  BY <1>2, <1>7, <1>8, <1>9 DEF CreationInv, Creating, Resting
<1> QED
  BY <1>6, <1>10 DEF Base

LEMMA ProvisionAgentKeepsBase ==
    ASSUME Base, NEW p \in Procs, ProvisionAgent(p) PROVE Base'
<1> DEFINE y == procs[p]
           q == Party(p)
           commit == [y EXCEPT !.pc = "commit"]
           next == [y EXCEPT !.i = y.i + 1]
<1>0. TypeInv /\ CreationInv /\ IsProcess(y) /\ y.pc = "provision" /\ y.i \in 1..2 /\ q \in Parties
  <2>1. TypeInv /\ CreationInv /\ IsProcess(y) /\ y.pc = "provision"
    BY DEF Base, TypeInv, ProvisionAgent, At
  <2>2. y.i \in 1..2 /\ q \in Parties
    BY <2>1, PartyIs
  <2> QED
    BY <2>1, <2>2
<1>1. db' = db /\ chain' = chain /\ owner' = owner /\ DbTyped' /\ db'.run = "creating"
  BY <1>0, DbSame, OthersRest DEF ProvisionAgent, TypeInv, Creating
<1>2. \A o \in Procs : o # p => procs[o].pc \in Resting
  BY <1>0, OthersRest DEF Creating
<1>3. \A o \in Parties : ~agents[o].late
  BY <1>0 DEF CreationInv
<1>4. /\ p = owner
      /\ faults = MaxFaults => \A j \in y.i..2 : Untouched(Order[j])
  BY <1>0 DEF CreationInv, CreationOf, At, Creating
<1>5. faults \in 0..MaxFaults /\ MaxFaults \in Nat
  BY <1>0, SetupAssumption DEF TypeInv
<1>6. \A j \in 1..2 : j > y.i => Order[j] # q /\ Order[j] \in Parties
  BY <1>0, OrderIs DEF Party, Parties
<1>7. CASE ProvisionNext(p, q)
  <2>1. agents' = [agents EXCEPT ![q] = Provisioned(agents[q])] /\ faults' = faults
    BY <1>7 DEF ProvisionNext
  <2>2. AgentChanged(q)
    BY <1>0, <2>1, ProvisionedIs, AgentUpdated
  <2>3. (Then(p, commit) /\ y.i = 2) \/ (Then(p, next) /\ y.i = 1)
    <3>1. y.i = 2 => Then(p, commit)
      BY <1>7, OrderIs DEF ProvisionNext, Then
    <3>2. y.i = 1 => Then(p, next)
      BY <1>7, OrderIs DEF ProvisionNext, Then
    <3>3. y.i = 1 \/ y.i = 2
      BY <1>0
    <3> HIDE DEF commit, next, y
    <3> QED
      BY <3>1, <3>2, <3>3
  <2>4. ASSUME Then(p, commit), y.i = 2
        PROVE  Moved(p) /\ IsProcess(procs'[p]) /\ procs'[p].pc = "commit"
    <3>0. commit = [y EXCEPT !.pc = "commit"]
      OBVIOUS
    <3> HIDE DEF commit, y
    <3>1. commit = [pc |-> "commit", i |-> y.i, busy |-> y.busy, st |-> y.st, ask |-> y.ask,
                    session |-> y.session, terms |-> y.terms, row |-> y.row, then |-> y.then]
      BY <1>0, <3>0 DEF IsProcess
    <3>2. IsProcess(commit)
      BY <1>0, <3>1 DEF IsProcess, Counters, Creating
    <3> QED
      BY <1>0, <2>4, <3>1, <3>2, ThenMoves
  <2>5. ASSUME Then(p, next), y.i = 1
        PROVE  Moved(p) /\ IsProcess(procs'[p]) /\ procs'[p].pc = "provision" /\ procs'[p].i = 2
    <3> DEFINE x == [y EXCEPT !.i = 2]
    <3>1. y.i + 1 = 2
      BY <2>5
    <3>2. Then(p, x)
      BY Zenon, <2>5, <3>1
    <3>3. x = [y EXCEPT !.i = 2]
      OBVIOUS
    <3> HIDE DEF x, y
    <3>4. x = [pc |-> "provision", i |-> 2, busy |-> y.busy, st |-> y.st, ask |-> y.ask,
               session |-> y.session, terms |-> y.terms, row |-> y.row, then |-> y.then]
      BY <1>0, <3>3 DEF IsProcess
    <3>5. IsProcess(x)
      BY <1>0, <3>4 DEF IsProcess, Counters, Creating
    <3> QED
      BY <1>0, <3>2, <3>4, <3>5, ThenMoves
  <2>6. Moved(p) /\ IsProcess(procs'[p]) /\ procs'[p].pc \in {"provision", "commit"}
        /\ (procs'[p].pc = "provision" => procs'[p].i = 2 /\ y.i = 1)
    BY <2>3, <2>4, <2>5
  <2>7. TypeInv'
    BY <1>0, <1>1, <2>1, <2>2, <2>6, TypedMoved DEF AgentChanged, Fewer, ProvisionAgent
  <2>8. CreationOf(p)'
    <3> SUFFICES ASSUME procs'[p].pc = "provision", faults' = MaxFaults,
                        NEW j \in procs'[p].i..2
                 PROVE  Untouched(Order[j])'
      BY <2>6 DEF CreationOf, At
    <3>1. j = 2 /\ y.i = 1
      BY <2>6
    <3>2. Untouched(Order[j]) /\ Order[j] # q /\ Order[j] \in Parties
      BY <1>4, <1>6, <2>1, <3>1
    <3> QED
      BY <2>2, <3>2 DEF AgentChanged, Untouched
  <2>9. \A o \in Procs : o # p => procs'[o].pc \in Resting
    BY <1>2, <2>6 DEF Moved
  <2>10. \A o \in Procs : CreationOf(o)'
    BY <2>8, <2>9 DEF CreationOf, At, Resting
  <2>11. \A o \in Parties : ~agents'[o].late
    BY <1>3, <2>2 DEF AgentChanged
  <2>12. CreationInv'
    BY <1>1, <1>4, <2>6, <2>9, <2>10, <2>11 DEF CreationInv, Creating, Resting
  <2> QED
    BY <2>7, <2>12 DEF Base
<1>8. CASE ProvisionFails(p, q)
  <2> DEFINE a(handled) == CASE handled = "now" -> Provisioned(agents[q])
                             [] handled = "late" -> [agents[q] EXCEPT !.late = TRUE]
                             [] OTHER -> agents[q]
  <2>1. PICK unavailable \in BOOLEAN, handled \in {"now", "late", "never"} :
          /\ ~unavailable => handled = "never"
          /\ Fewer /\ faults' = faults - 1
          /\ agents' = [agents EXCEPT ![q] = a(handled)]
          /\ Then(p, [y EXCEPT !.pc = "undo", !.i = ToRelease(y.i, unavailable)])
    BY <1>8, FaultFewer DEF ProvisionFails
  <2> DEFINE n == ToRelease(y.i, unavailable)
             x == [y EXCEPT !.pc = "undo", !.i = n]
  <2>2. n \in 0..2 /\ (unavailable => n = y.i) /\ (~unavailable => n = y.i - 1)
    BY <1>0, <2>1 DEF ToRelease
  <2>3. Then(p, x) /\ x = [y EXCEPT !.pc = "undo", !.i = n]
    BY <2>1
  <2> HIDE DEF n, x
  <2>4. Moved(p) /\ IsProcess(procs'[p]) /\ procs'[p].pc = "undo" /\ procs'[p].i = n
    <3> HIDE DEF y
    <3>1. x = [pc |-> "undo", i |-> n, busy |-> y.busy, st |-> y.st, ask |-> y.ask,
               session |-> y.session, terms |-> y.terms, row |-> y.row, then |-> y.then]
      BY <1>0, <2>3 DEF IsProcess
    <3>2. IsProcess(x)
      BY <1>0, <2>2, <3>1 DEF IsProcess, Counters, Creating
    <3>3. Moved(p) /\ procs'[p] = x
      BY <1>0, <2>3, ThenMoves
    <3> QED
      BY <3>1, <3>2, <3>3
  <2>5. IsAgent(a(handled)) /\ (handled = "never" => a(handled) = agents[q])
    <3>1. CASE handled = "now"
      BY <1>0, <3>1, ProvisionedIs
    <3>2. CASE handled = "late"
      <4> DEFINE b == agents[q]
                 c == [b EXCEPT !.late = TRUE]
      <4>0. IsAgent(b) /\ c = [b EXCEPT !.late = TRUE] /\ a(handled) = c
        BY <1>0, <3>2 DEF TypeInv
      <4> HIDE DEF b, c
      <4>1. c = [entry |-> b.entry, late |-> TRUE]
        BY <4>0 DEF IsAgent
      <4> QED
        BY <3>2, <4>0, <4>1 DEF IsAgent
    <3>3. CASE handled = "never"
      BY <1>0, <3>3 DEF TypeInv
    <3> QED
      BY <3>1, <3>2, <3>3
  <2> HIDE DEF a
  <2>6. /\ agents' = [o \in Parties |-> agents'[o]] /\ agents'[q] = a(handled)
        /\ \A o \in Parties : o # q => agents'[o] = agents[o]
    BY <1>0, <2>1 DEF TypeInv
  <2>7. AgentsTyped'
    BY <1>0, <2>5, <2>6 DEF AgentsTyped, TypeInv
  <2>8. TypeInv'
    BY <1>0, <1>1, <2>1, <2>4, <2>7, TypedMoved
  <2>9. CreationOf(p)'
    <3>1. faults' < MaxFaults
      BY <1>5, <2>1 DEF Fewer
    <3>2. ASSUME faults' = MaxFaults - 1, NEW j \in (procs'[p].i + 1)..2
          PROVE  Untouched(Order[j])'
      <4>1. faults = MaxFaults
        BY <1>5, <2>1, <3>2
      <4>2. CASE unavailable
        <5>1. j \in 1..2 /\ j > y.i
          BY <1>0, <2>2, <2>4, <3>2, <4>2
        <5>2. Untouched(Order[j]) /\ Order[j] # q /\ Order[j] \in Parties
          BY <1>0, <1>4, <1>6, <4>1, <5>1
        <5> QED
          BY <2>6, <5>2 DEF Untouched
      <4>3. CASE ~unavailable
        <5>1. j \in y.i..2
          BY <1>0, <2>2, <2>4, <3>2, <4>3
        <5>2. Untouched(Order[j]) /\ Order[j] \in Parties
          BY <1>0, <1>4, <4>1, <5>1, OrderIs DEF Parties
        <5>3. agents'[Order[j]] = agents[Order[j]]
          BY <2>1, <2>5, <2>6, <4>3, <5>2
        <5> QED
          BY <5>2, <5>3 DEF Untouched
      <4> QED
        BY <4>2, <4>3
    <3> QED
      BY <2>4, <3>1, <3>2 DEF CreationOf, At
  <2>10. \A o \in Procs : o # p => procs'[o].pc \in Resting
    BY <1>2, <2>4 DEF Moved
  <2>11. \A o \in Procs : CreationOf(o)'
    BY <2>9, <2>10 DEF CreationOf, At, Resting
  <2>12. \A o \in Procs : procs'[o].pc \notin {"provision", "commit"}
    BY <2>4, <2>10 DEF Resting
  <2>13. CreationInv'
    BY <1>1, <1>4, <2>4, <2>10, <2>11, <2>12 DEF CreationInv, Creating, Resting
  <2> QED
    BY <2>8, <2>13 DEF Base
<1> QED
  BY <1>7, <1>8 DEF ProvisionAgent

LEMMA ToldAll ==
    ASSUME NEW n \in 0..2, NEW told \in SUBSET {Order[j] : j \in 1..n}, Cardinality(told) = n
    PROVE  \A j \in 1..n : Order[j] \in told
<1> DEFINE S == {Order[j] : j \in 1..n}
<1>1. IsFiniteSet(S) /\ Cardinality(S) = n
  <2>1. CASE n = 0
    <3>1. S = {}
      BY <2>1
    <3> QED
      BY <2>1, <3>1, FS_EmptySet
  <2>2. CASE n = 1
    <3>1. S = {"buyer"}
      BY <2>2, OrderIs
    <3> QED
      BY <2>2, <3>1, FS_Singleton
  <2>3. CASE n = 2
    <3>1. \A j \in 1..2 : j = 1 \/ j = 2
      OBVIOUS
    <3>2. S = {"buyer"} \cup {"seller"}
      BY <2>3, <3>1, OrderIs
    <3>3. IsFiniteSet({"buyer"}) /\ Cardinality({"buyer"}) = 1 /\ "seller" \notin {"buyer"}
      BY FS_Singleton
    <3> HIDE DEF S
    <3> QED
      BY <2>3, <3>2, <3>3, FS_AddElement
  <2> QED
    BY <2>1, <2>2, <2>3
<1>2. told \subseteq S
  OBVIOUS
<1>3. told = S
  BY <1>1, <1>2, FS_Subset
<1> QED
  BY <1>3

LEMMA UndoKeepsBase ==
    ASSUME Base, NEW p \in Procs, Undo(p) PROVE Base'
<1> DEFINE y == procs[p]
<1>0. TypeInv /\ CreationInv /\ IsProcess(y) /\ y.pc = "undo" /\ y.i \in 0..2
  BY DEF Base, TypeInv, Undo, At, IsProcess
<1>1. db' = [db EXCEPT !.run = "refused"] /\ Then(p, Yielded(p))
  BY DEF Undo
<1>2. PICK told \in SUBSET {Order[j] : j \in 1..y.i} :
        /\ agents' = [q \in Parties |-> IF q \in told THEN Released(agents[q]) ELSE agents[q]]
        /\ IF Cardinality(told) = y.i THEN UNCHANGED faults ELSE Fault("unavailable")
  BY DEF Undo
<1>3. DbTyped' /\ db'.run = "refused"
  BY <1>0, <1>1, RunChanged DEF TypeInv
<1>4. Onward(p) /\ procs'[p].pc = "idle"
  BY <1>0, <1>1, YieldMoves
<1>5. chain' = chain /\ owner' = owner
  BY DEF Undo
<1>6. /\ faults' = faults => Fewer
      /\ faults' # faults => Fewer /\ faults' = faults - 1
      /\ faults' = faults - 1 \/ (faults' = faults /\ Cardinality(told) = y.i)
  <2>1. CASE Cardinality(told) = y.i
    BY <1>2, <2>1 DEF Fewer
  <2>2. CASE Cardinality(told) # y.i
    BY <1>2, <2>2, FaultFewer
  <2> QED
    BY <2>1, <2>2
<1>7. ASSUME NEW q \in Parties
      PROVE  /\ IsAgent(agents'[q]) /\ agents'[q].late = agents[q].late
             /\ q \in told => agents'[q].entry.state = "released"
             /\ q \notin told => agents'[q] = agents[q]
  <2> DEFINE a == agents[q]
             e == Entry("released")
  <2>1. IsAgent(a)
    BY <1>0 DEF TypeInv
  <2>2. Released(a) = [a EXCEPT !.entry = e] /\ e.state = "released"
    BY DEF Released, Entry
  <2>3. agents'[q] = IF q \in told THEN Released(a) ELSE a
    BY <1>2
  <2> HIDE DEF a, e
  <2>4. Released(a) = [entry |-> e, late |-> a.late] /\ a.late \in BOOLEAN
    BY <2>1, <2>2 DEF IsAgent
  <2>5. IsAgent(Released(a))
    BY <2>4 DEF IsAgent
  <2> QED
    BY <2>1, <2>2, <2>3, <2>4, <2>5 DEF a
<1>8. AgentsTyped'
  BY <1>2, <1>7 DEF AgentsTyped
<1>9. TypeInv'
  BY <1>0, <1>3, <1>4, <1>5, <1>6, <1>8, TypedMoved DEF Onward
<1>10. faults \in 0..MaxFaults /\ MaxFaults \in Nat
  BY <1>0, SetupAssumption DEF TypeInv
<1>11. CreationOf(p)
  BY <1>0 DEF CreationInv
<1>12. faults < MaxFaults
  BY <1>0, <1>11 DEF CreationOf, At
<1>13. \A o \in Procs : procs'[o].pc \in Resting
  BY <1>0, <1>4, OthersRest DEF Onward, Moved, Resting, Creating
<1>14. ASSUME faults' = MaxFaults - 1, NEW q \in Parties
       PROVE  Untouched(q)' \/ agents'[q].entry.state = "released"
  <2>1. faults = MaxFaults - 1 /\ Cardinality(told) = y.i
    BY <1>6, <1>10, <1>12, <1>14
  <2>2. PICK j \in 1..2 : q = Order[j]
    BY PartiesAre
  <2>3. CASE j <= y.i
    <3>1. Order[j] \in told
      BY <1>0, <2>1, <2>3, ToldAll
    <3> QED
      BY <1>7, <2>2, <3>1
  <2>4. CASE ~(j <= y.i)
    <3>1. j \in (y.i + 1)..2
      BY <1>0, <2>4
    <3>2. Untouched(q)
      BY <1>0, <1>11, <2>1, <2>2, <3>1 DEF CreationOf, At
    <3> QED
      BY <1>7, <3>2 DEF Untouched
  <2> QED
    BY <2>3, <2>4
<1>15. \A o \in Procs : CreationOf(o)'
  BY <1>13 DEF CreationOf, At, Resting
<1>16. faults' < MaxFaults
  BY <1>6, <1>10, <1>12
<1>17. CreationInv'
  BY <1>3, <1>13, <1>14, <1>15, <1>16 DEF CreationInv, Creating, Resting
<1> QED
  BY <1>9, <1>17 DEF Base

LEMMA InitBase ==
    ASSUME Init PROVE Base
<1>1. /\ IsListed(<<>>) /\ DOMAIN <<>> = {} /\ IsPerParty(Cold)
  BY DEF IsListed, IsPerParty, Cold
<1>2. DbTyped
  BY <1>1 DEF Init, DbTyped, RowsTyped
<1>3. ChainTyped
  BY FS_EmptySet DEF Init, ChainTyped
<1>4. procs = [p \in Procs |-> procs[p]]
  BY Zenon DEF Init
<1>5. ASSUME NEW p \in Procs
      PROVE  /\ IsProcess(procs[p]) /\ procs[p].pc \in {"provision", "idle"}
             /\ procs[p].pc = "provision" <=> p = owner
  <2> DEFINE pc == IF p = owner THEN "provision" ELSE "idle"
  <2>1. procs[p] = Process(pc, Cold)
    BY DEF Init
  <2>2. pc \in Counters /\ pc # "mint" /\ (pc = "provision" <=> p = owner)
        /\ pc \in {"provision", "idle"}
    BY DEF Counters, Creating, Resting
  <2> HIDE DEF pc
  <2>3. IsProcess(Process(pc, Cold)) /\ Process(pc, Cold).pc = pc
    BY <1>1, <2>2, ProcessNew
  <2> QED
    BY <2>1, <2>2, <2>3
<1>6. /\ agents = [q \in Parties |-> agents[q]]
      /\ \A q \in Parties : IsAgent(agents[q]) /\ Untouched(q) /\ ~agents[q].late
  BY DEF Init, IsAgent, Entry, Untouched
<1>7. owner \in Procs /\ faults = MaxFaults /\ faults \in 0..MaxFaults /\ db.run = "creating"
  BY SetupAssumption DEF Init
<1>8. TypeInv
  BY <1>2, <1>3, <1>4, <1>5, <1>6, <1>7 DEF TypeInv
<1>9. ASSUME NEW p \in Procs
      PROVE  CreationOf(p)
  <2>1. procs[p].i \in 1..2 \/ ~At(p, "provision")
    <3>1. IsProcess(procs[p]) /\ procs[p].pc # "undo"
      BY <1>5
    <3>2. procs[p].i \in 0..2 /\ procs[p].i # 0
      BY <3>1 DEF IsProcess
    <3> QED
      BY <3>2
  <2>2. \A j \in 1..2 : Order[j] \in Parties
    BY OrderIs DEF Parties
  <2>3. procs[p].pc # "undo"
    BY <1>5
  <2>4. procs[p].i \in 1..2 => \A j \in procs[p].i..2 : j \in 1..2
    OBVIOUS
  <2> QED
    BY <1>6, <2>1, <2>2, <2>3, <2>4 DEF CreationOf, At
<1>10. CreationInv
  BY <1>5, <1>6, <1>7, <1>9 DEF CreationInv, Creating, Resting
<1> QED
  BY <1>8, <1>10 DEF Base

LEMMA BaseStep ==
    ASSUME Base, [Next]_vars PROVE Base'
<1>1. ASSUME NEW p \in Procs, Step(p)
      PROVE  Base'
  <2>1. ProvisionAgent(p) \/ Undo(p) \/ Commit(p) \/ Tick(p) \/ SetupStep(p)
    BY <1>1 DEF Step, SetupStep
  <2> QED
    BY <2>1, ProvisionAgentKeepsBase, UndoKeepsBase, CommitKeepsBase, TickKeepsBase,
       SetupStepKeepsBase
<1>2. ASSUME NEW p \in Procs, Validate(p) \/ Start(p) \/ Resume(p) \/ Crash(p) \/ Recover(p)
      PROVE  Base'
  BY <1>2, OperatedKeepsBase, ResumeKeepsBase, CrashKeepsBase, RecoverKeepsBase
<1>3. ASSUME NEW q \in Parties, Late(q) \/ AgentRestart(q)
      PROVE  Base'
  BY <1>3, LateKeepsBase, AgentRestartKeepsBase
<1>4. ASSUME Onchain
      PROVE  Base'
  BY <1>4, OnchainKeepsBase
<1>5. ASSUME UNCHANGED vars
      PROVE  Base'
  BY <1>5 DEF vars, Base, TypeInv, DbTyped, ChainTyped, CreationInv, CreationOf, At, Untouched
<1> QED
  BY <1>1, <1>2, <1>3, <1>4, <1>5 DEF Next, Onchain

(* The run's rows, the chain, the agents and every process keep their      *)
(* types, and what create_run left behind is what its requests were told.  *)
THEOREM SetupTyped == Spec => []Base
<1>1. Init => Base
  BY InitBase
<1>2. Base /\ [Next]_vars => Base'
  BY BaseStep
<1> QED
  BY <1>1, <1>2, PTL DEF Spec

(* ADR-039 (create_run and its undo): when a run could not be created and  *)
(* nothing else went wrong, no agent holds a signer for it, whichever      *)
(* request failed and however late the agent handled it.                   *)
THEOREM NothingIsLeft == Spec => []NothingLeftProvisioned
<1>1. Base => NothingLeftProvisioned
  <2> SUFFICES ASSUME Base, db.run = "refused", faults = MaxFaults - 1, NEW q \in Parties
               PROVE  agents[q].entry.state # "provisioned"
    BY DEF NothingLeftProvisioned
  <2>1. Untouched(q) \/ agents[q].entry.state = "released"
    BY DEF Base, CreationInv
  <2> QED
    BY <2>1 DEF Untouched
<1> QED
  BY <1>1, SetupTyped, PTL

-----------------------------------------------------------------------------
(* The rows and the chain: every step keeps DataInv, while one process sets*)
(* the run up.                                                             *)

ChainSame == chain'.soft = chain.soft /\ chain'.deep = chain.deep

LEMMA ChainSameIs ==
    ASSUME ChainSame
    PROVE  /\ Blocks' = Blocks /\ Opened' = Opened
           /\ \A kind, q : Did(kind, q)' = Did(kind, q)
           /\ \A k : InDeep(k)' <=> InDeep(k)
<1>1. Blocks' = Blocks
  BY DEF ChainSame, Blocks
<1> QED
  BY <1>1 DEF ChainSame, Opened, Did, InDeep

(* Rows of which nothing changes but that they are broadcast.              *)
LEMMA SentRows ==
    ASSUME NEW rs, NEW new, Sending(rs, new)
    PROVE  /\ \A kind, q : RowsOf(new, kind, q) = RowsOf(rs, kind, q)
           /\ \A kind, q : LiveOf(new, kind, q) = LiveOf(rs, kind, q)
           /\ Outlasting(rs) => Outlasting(new)
           /\ Unnumbered(rs) => Unnumbered(new)
<1>1. \A kind, q : RowsOf(new, kind, q) = RowsOf(rs, kind, q)
  BY DEF Sending, Restated, RowsOf
<1>2. \A k \in DOMAIN rs : new[k].status \in Gone <=> rs[k].status \in Gone
  BY DEF Sending, Gone
<1>3. ASSUME NEW kind, NEW q
      PROVE  LiveOf(new, kind, q) = LiveOf(rs, kind, q)
  <2>1. \A k \in RowsOf(rs, kind, q) : k \in DOMAIN rs
    BY DEF RowsOf
  <2> QED
    BY <1>1, <1>2, <2>1 DEF LiveOf
<1>4. Outlasting(rs) => Outlasting(new)
  <2> SUFFICES ASSUME Outlasting(rs) PROVE Outlasting(new)
    OBVIOUS
  <2>1. ASSUME NEW k \in DOMAIN new
        PROVE  /\ new[k].status = "dropped" => new[k].kind = "approve"
               /\ new[k].status = "reverted" => new[k].kind = "create_session"
    BY DEF Sending, Restated, Outlasting
  <2>2. \A q \in Parties : RowsOf(new, "approve", q) # {} => LiveOf(new, "approve", q) # {}
    BY <1>1, <1>3 DEF Outlasting
  <2> QED
    BY <2>1, <2>2 DEF Outlasting
<1>5. Unnumbered(rs) => Unnumbered(new)
  BY DEF Sending, Restated, Unnumbered
<1> QED
  BY <1>1, <1>3, <1>4, <1>5

LEMMA DataSent ==
    ASSUME TypeInv, DataInv, RowsSent, ChainSame
    PROVE  DataInv'
<1> DEFINE rs == db.rows
           new == db'.rows
<1>1. Sending(rs, new) /\ SameBut(db')
  BY DEF RowsSent
<1>2. /\ \A kind, q : RowsOf(new, kind, q) = RowsOf(rs, kind, q)
      /\ Outlasting(new) /\ Unnumbered(new)
  BY <1>1, SentRows DEF DataInv
<1>3. /\ DOMAIN new = DOMAIN rs
      /\ \A k \in DOMAIN rs :
           /\ new[k].kind = rs[k].kind /\ new[k].party = rs[k].party
           /\ new[k].session = rs[k].session
           /\ new[k].status = "confirmed" => rs[k].status = "confirmed"
  BY <1>1 DEF Sending, Restated
<1>4. /\ Blocks' = Blocks /\ Opened' = Opened
      /\ \A kind, q : Did(kind, q)' = Did(kind, q)
      /\ \A k : InDeep(k)' <=> InDeep(k)
  BY ChainSameIs
<1> HIDE DEF rs, new
<1>5. MintedOnce'
  BY <1>2 DEF DataInv, MintedOnce, rs, new
<1>6. BlocksOfRows'
  BY <1>3, <1>4 DEF DataInv, BlocksOfRows, rs, new
<1>7. OneOfEach'
  BY <1>4 DEF DataInv, OneOfEach
<1>8. ConfirmedInDeep(db.rows)'
  BY <1>3, <1>4 DEF DataInv, ConfirmedInDeep, rs, new
<1>9. NonceAfterRow(db.nonce, db.rows)'
  BY <1>1, <1>2 DEF DataInv, NonceAfterRow, SameBut, rs, new
<1>10. SessionRows'
  <2>1. Creates' = Creates
    BY <1>3 DEF Creates, rs, new
  <2>2. \A k \in Creates : k \in DOMAIN rs
    BY DEF Creates, rs
  <2> QED
    BY <1>1, <1>3, <2>1, <2>2 DEF DataInv, SessionRows, SameBut, rs, new
<1> QED
  BY <1>2, <1>5, <1>6, <1>7, <1>8, <1>9, <1>10 DEF DataInv, new

LEMMA SameIsSent ==
    ASSUME TypeInv, SameBut(db'), db'.rows = db.rows
    PROVE  RowsSent
BY DEF RowsSent, Sending, Restated, TypeInv, DbTyped

LEMMA DataSame ==
    ASSUME TypeInv, DataInv, SameBut(db'), db'.rows = db.rows, ChainSame
    PROVE  DataInv'
BY SameIsSent, DataSent

(* A row is added: for a mint, the party's first; for a session, the run's.*)
LEMMA DataAdded ==
    ASSUME TypeInv, DataInv, NEW r, RowAdded(r), ChainSame, r.nonce = 0,
           r.kind = "mint" => RowsOf(db.rows, "mint", r.party) = {},
           r.kind = "create_session" => r.session = db.session /\ db.session # NoSession
    PROVE  DataInv'
<1> DEFINE rs == db.rows
           new == db'.rows
           n == Len(db.rows) + 1
<1>1. new = Append(rs, r) /\ SameBut(db') /\ r.kind \in Kinds /\ r.status = "pending"
  BY DEF RowAdded
<1>2. /\ DOMAIN new = DOMAIN rs \cup {n} /\ n \notin DOMAIN rs /\ new[n] = r
      /\ \A k \in DOMAIN rs : new[k] = rs[k]
  BY AppendingRow DEF RowAdded, TypeInv, DbTyped
<1>3. /\ Blocks' = Blocks /\ Opened' = Opened
      /\ \A kind, q : Did(kind, q)' = Did(kind, q)
      /\ \A k : InDeep(k)' <=> InDeep(k)
  BY ChainSameIs
<1> HIDE DEF rs, new, n
<1>4. ASSUME NEW kind, NEW q
      PROVE  /\ RowsOf(rs, kind, q) \subseteq RowsOf(new, kind, q)
             /\ RowsOf(new, kind, q) \subseteq RowsOf(rs, kind, q) \cup {n}
             /\ n \in RowsOf(new, kind, q) <=> r.kind = kind /\ r.party = q
             /\ LiveOf(rs, kind, q) \subseteq LiveOf(new, kind, q)
             /\ n \in RowsOf(new, kind, q) => n \in LiveOf(new, kind, q)
  BY <1>1, <1>2 DEF RowsOf, LiveOf, Gone
<1>5. Outlasting(new)
  <2>1. ASSUME NEW k \in DOMAIN new
        PROVE  /\ new[k].status = "dropped" => new[k].kind = "approve"
               /\ new[k].status = "reverted" => new[k].kind = "create_session"
    BY <1>1, <1>2 DEF DataInv, Outlasting, rs
  <2>2. ASSUME NEW q \in Parties, RowsOf(new, "approve", q) # {}
        PROVE  LiveOf(new, "approve", q) # {}
    <3>1. CASE n \in RowsOf(new, "approve", q)
      BY <1>4, <3>1
    <3>2. CASE n \notin RowsOf(new, "approve", q)
      <4>1. RowsOf(rs, "approve", q) # {}
        BY <1>4, <2>2, <3>2
      <4>2. LiveOf(rs, "approve", q) # {}
        BY <4>1 DEF DataInv, Outlasting, rs
      <4> QED
        BY <1>4, <4>2
    <3> QED
      BY <3>1, <3>2
  <2> QED
    BY <2>1, <2>2 DEF Outlasting
<1>6. Unnumbered(new)
  BY <1>2 DEF DataInv, Unnumbered, rs
<1>7. MintedOnce'
  <2> SUFFICES ASSUME NEW q \in Parties, NEW k \in RowsOf(new, "mint", q),
                      NEW l \in RowsOf(new, "mint", q)
               PROVE  k = l
    BY DEF MintedOnce, new
  <2>1. CASE r.kind = "mint" /\ r.party = q
    <3>1. RowsOf(rs, "mint", q) = {}
      BY <2>1 DEF rs
    <3> QED
      BY <1>4, <3>1
  <2>2. CASE ~(r.kind = "mint" /\ r.party = q)
    <3>1. k \in RowsOf(rs, "mint", q) /\ l \in RowsOf(rs, "mint", q)
      BY <1>4, <2>2
    <3> QED
      BY <3>1 DEF DataInv, MintedOnce, rs
  <2> QED
    BY <2>1, <2>2
<1>8. BlocksOfRows'
  BY <1>2, <1>3 DEF DataInv, BlocksOfRows, rs, new
<1>9. OneOfEach'
  BY <1>3 DEF DataInv, OneOfEach
<1>10. ConfirmedInDeep(db.rows)'
  BY <1>1, <1>2, <1>3 DEF DataInv, ConfirmedInDeep, rs, new
<1>11. NonceAfterRow(db.nonce, db.rows)'
  <2> SUFFICES ASSUME NEW q \in Parties, db'.nonce[q] # 0
               PROVE  RowsOf(new, "approve", q) # {}
    BY DEF NonceAfterRow, new
  <2>1. RowsOf(rs, "approve", q) # {}
    BY <1>1 DEF DataInv, NonceAfterRow, SameBut, rs
  <2> QED
    BY <1>4, <2>1
<1>12. SessionRows'
  <2>1. Creates \subseteq Creates' /\ Creates' \subseteq Creates \cup {n}
    BY <1>2 DEF Creates, rs, new
  <2>2. n \in Creates' => r.kind = "create_session"
    BY <1>2 DEF Creates, new
  <2>3. \A k \in Creates : new[k] = rs[k]
    BY <1>2 DEF Creates, rs
  <2>4. db'.session = db.session /\ db'.event = db.event
    BY <1>1 DEF SameBut
  <2>5. ASSUME NEW k \in Creates'
        PROVE  new[k].session = db.session /\ db.session # NoSession
    <3>1. CASE k \in Creates
      BY <2>3, <3>1 DEF DataInv, SessionRows, rs
    <3>2. CASE k = n
      BY <1>2, <2>2, <2>5, <3>2
    <3> QED
      BY <2>1, <2>5, <3>1, <3>2
  <2> QED
    BY <2>1, <2>4, <2>5 DEF DataInv, SessionRows, new
<1> QED
  BY <1>5, <1>6, <1>7, <1>8, <1>9, <1>10, <1>11, <1>12 DEF DataInv, new

(* The poll.                                                               *)
LEMMA StatusGiven ==
    ASSUME TypeInv, DataInv, Polling, NEW k \in DOMAIN db.rows
    PROVE  LET new == db'.rows[k].status
           IN  /\ new = "reverted" => db.rows[k].kind = "create_session"
               /\ new = "dropped" => db.rows[k].kind = "approve"
               /\ new = "confirmed" => InDeep(k)
               /\ (\E b \in Blocks : b.row = k /\ b.ok) => new \notin Gone
               /\ new \in Gone /\ db.rows[k].status \notin Gone /\ db.rows[k].kind = "approve" =>
                    \E b \in Did("approve", db.rows[k].party) : TRUE
<1> DEFINE new == db'.rows[k].status
           old == db.rows[k].status
           kind == db.rows[k].kind
           at == BlocksAt(k)
<1>0. BlocksOfRows /\ Outlasting(db.rows) /\ ConfirmedInDeep(db.rows)
  BY DEF DataInv
<1>1. Given(k, new)
  BY DEF Polling
<1>2. \/ new = "reverted" /\ \E b \in at : ~b.ok
      \/ new = "confirmed" /\ at # {} /\ at \subseteq chain.deep
      \/ new = "included"
      \/ new = "dropped" /\ at = {} /\ RivalsOf(k) # {}
      \/ new = "submitted"
      \/ new = old /\ (at = {} \/ ~(at \subseteq chain.deep \/ at \subseteq chain.soft))
  BY <1>1 DEF Given
<1>3. \A b \in at : b \in Blocks /\ b.row = k /\ b.kind = kind
  BY <1>0 DEF BlocksAt, BlocksOfRows
<1>4. ASSUME NEW b \in at PROVE at = {b}
  BY <1>0, <1>3, <1>4 DEF BlocksOfRows
<1>5. at = {} \/ at \subseteq chain.deep \/ at \subseteq chain.soft
  <2> SUFFICES ASSUME NEW b \in at PROVE at \subseteq chain.deep \/ at \subseteq chain.soft
    OBVIOUS
  <2>1. at = {b} /\ b \in Blocks
    BY <1>3, <1>4
  <2> HIDE DEF at
  <2> QED
    BY <2>1 DEF Blocks
<1>6. RivalsOf(k) # {} => kind = "approve" /\ \E b \in Did("approve", db.rows[k].party) : TRUE
  BY DEF RivalsOf
<1>7. (\E b \in at : ~b.ok) => kind = "create_session"
  BY <1>0, <1>3 DEF BlocksOfRows
<1>8. at # {} /\ at \subseteq chain.deep => InDeep(k)
  BY <1>3 DEF InDeep
<1>9. /\ old = "dropped" => kind = "approve"
      /\ old = "reverted" => kind = "create_session"
      /\ old = "confirmed" => InDeep(k)
  BY <1>0 DEF Outlasting, ConfirmedInDeep
<1>10. (\E b \in Blocks : b.row = k /\ b.ok) => at # {} /\ \A b \in at : b.ok
  <2> SUFFICES ASSUME NEW b \in Blocks, b.row = k, b.ok
               PROVE  at # {} /\ \A c \in at : c.ok
    OBVIOUS
  <2>1. b \in at
    BY DEF BlocksAt
  <2> QED
    BY <1>4, <2>1
<1> HIDE DEF new, old, kind, at
<1>11. /\ new = "reverted" => kind = "create_session"
       /\ new = "dropped" => kind = "approve"
       /\ new = "confirmed" => InDeep(k)
       /\ (\E b \in Blocks : b.row = k /\ b.ok) => new \notin Gone
       /\ new \in Gone /\ old \notin Gone /\ kind = "approve" =>
            \E b \in Did("approve", db.rows[k].party) : TRUE
  <2>1. new = "reverted" => kind = "create_session"
    BY <1>2, <1>7, <1>9
  <2>2. new = "dropped" => kind = "approve"
    BY <1>2, <1>6, <1>9
  <2>3. new = "confirmed" => InDeep(k)
    BY <1>2, <1>8, <1>9
  <2>4. (\E b \in Blocks : b.row = k /\ b.ok) => new \notin Gone
    BY <1>2, <1>5, <1>10 DEF Gone
  <2>5. ASSUME new \in Gone, old \notin Gone, kind = "approve"
        PROVE  \E b \in Did("approve", db.rows[k].party) : TRUE
    BY <1>2, <1>6, <1>7, <2>5 DEF Gone
  <2> QED
    BY <2>1, <2>2, <2>3, <2>4, <2>5
<1> QED
  BY <1>11 DEF new, old, kind

LEMMA IndexedIs ==
    ASSUME TypeInv, DataInv, Indexed # NoEvent
    PROVE  Creates # {} /\ Indexed.opened.id = db.session.id
<1> DEFINE mine == {b \in Opened : db.rows[b.row].session.id = db.session.id}
           b == CHOOSE c \in mine : TRUE
           deep == b \in chain.deep
           opened == [id |-> db.session.id, time |-> b.time, expires |-> db.rows[b.row].session.expires]
<1>1. mine # {} /\ Indexed = [row |-> b.row, deep |-> deep, opened |-> opened]
  BY DEF Indexed
<1>2. opened.id = db.session.id
  BY SMTT(30)
<1>3. PICK c \in mine : TRUE
  BY <1>1
<1>4. c \in Blocks /\ c.kind = "create_session"
  BY <1>3 DEF Opened
<1>5. c.row \in Creates
  BY <1>4 DEF DataInv, BlocksOfRows, Creates
<1> HIDE DEF opened, deep, b
<1> QED
  BY SMTT(30), <1>1, <1>2, <1>5

LEMMA DataPolled ==
    ASSUME TypeInv, DataInv, Polling, ChainSame
    PROVE  DataInv'
<1> DEFINE rs == db.rows
           new == db'.rows
<1>1. /\ DOMAIN new = DOMAIN rs
      /\ \A k \in DOMAIN rs :
           /\ new[k].kind = rs[k].kind /\ new[k].party = rs[k].party
           /\ new[k].session = rs[k].session /\ new[k].nonce = rs[k].nonce
  BY DEF Polling, Restated
<1>2. /\ db'.session = db.session /\ db'.nonce = db.nonce /\ db'.event = Indexed
  BY DEF Polling
<1>3. /\ Blocks' = Blocks /\ Opened' = Opened
      /\ \A kind, q : Did(kind, q)' = Did(kind, q)
      /\ \A k : InDeep(k)' <=> InDeep(k)
  BY ChainSameIs
<1>4. ASSUME NEW k \in DOMAIN rs
      PROVE  /\ new[k].status = "reverted" => rs[k].kind = "create_session"
             /\ new[k].status = "dropped" => rs[k].kind = "approve"
             /\ new[k].status = "confirmed" => InDeep(k)
             /\ (\E b \in Blocks : b.row = k /\ b.ok) => new[k].status \notin Gone
             /\ new[k].status \in Gone /\ rs[k].status \notin Gone /\ rs[k].kind = "approve" =>
                    \E b \in Did("approve", rs[k].party) : TRUE
  BY StatusGiven
<1> HIDE DEF rs, new
<1>5. \A kind, q : RowsOf(new, kind, q) = RowsOf(rs, kind, q)
  BY <1>1 DEF RowsOf
<1>6. Outlasting(new)
  <2>1. ASSUME NEW k \in DOMAIN new
        PROVE  /\ new[k].status = "dropped" => new[k].kind = "approve"
               /\ new[k].status = "reverted" => new[k].kind = "create_session"
    BY <1>1, <1>4
  <2>2. ASSUME NEW q \in Parties, RowsOf(new, "approve", q) # {}
        PROVE  LiveOf(new, "approve", q) # {}
    <3>1. LiveOf(rs, "approve", q) # {}
      BY <1>5, <2>2 DEF DataInv, Outlasting, rs
    <3>2. PICK k \in LiveOf(rs, "approve", q) : TRUE
      BY <3>1
    <3>3. k \in RowsOf(rs, "approve", q) /\ rs[k].status \notin Gone
      BY <3>2 DEF LiveOf
    <3>4. k \in DOMAIN rs /\ rs[k].kind = "approve" /\ rs[k].party = q
      BY <3>3 DEF RowsOf
    <3>5. CASE new[k].status \notin Gone
      BY <1>5, <3>3, <3>5 DEF LiveOf
    <3>6. CASE new[k].status \in Gone
      <4>1. PICK b \in Did("approve", q) : TRUE
        BY <1>4, <3>3, <3>4, <3>6
      <4>2. b \in Blocks /\ b.ok /\ b.kind = "approve" /\ b.party = q
        BY <4>1 DEF Did
      <4>3. b.row \in DOMAIN rs /\ rs[b.row].kind = "approve" /\ rs[b.row].party = q
        BY <4>2 DEF DataInv, BlocksOfRows, rs
      <4>4. new[b.row].status \notin Gone
        BY <1>4, <4>2, <4>3
      <4> QED
        BY <1>5, <4>3, <4>4 DEF LiveOf, RowsOf
    <3> QED
      BY <3>5, <3>6
  <2> QED
    BY <2>1, <2>2 DEF Outlasting
<1>7. Unnumbered(new)
  BY <1>1 DEF DataInv, Unnumbered, rs
<1>8. MintedOnce'
  BY <1>5 DEF DataInv, MintedOnce, rs, new
<1>9. BlocksOfRows'
  BY <1>1, <1>3 DEF DataInv, BlocksOfRows, rs, new
<1>10. OneOfEach'
  BY <1>3 DEF DataInv, OneOfEach
<1>11. ConfirmedInDeep(db.rows)'
  BY <1>1, <1>3, <1>4 DEF ConfirmedInDeep, new
<1>12. NonceAfterRow(db.nonce, db.rows)'
  BY <1>2, <1>5 DEF DataInv, NonceAfterRow, rs, new
<1>13. SessionRows'
  <2>1. Creates' = Creates
    BY <1>1 DEF Creates, rs, new
  <2>2. \A k \in Creates : k \in DOMAIN rs
    BY DEF Creates, rs
  <2>3. db'.event # NoEvent => Creates # {} /\ db'.event.opened.id = db.session.id
    BY <1>2, IndexedIs
  <2> QED
    BY <1>1, <1>2, <2>1, <2>2, <2>3 DEF DataInv, SessionRows, rs, new
<1> QED
  BY <1>6, <1>7, <1>8, <1>9, <1>10, <1>11, <1>12, <1>13 DEF DataInv, new

(* The session is recorded, and a nonce.                                   *)
LEMMA DataRecorded ==
    ASSUME TypeInv, DataInv, ChainSame, db.session = NoSession,
           db'.rows = db.rows, db'.nonce = db.nonce, db'.event = db.event
    PROVE  DataInv'
<1>1. /\ Blocks' = Blocks /\ Opened' = Opened
      /\ \A kind, q : Did(kind, q)' = Did(kind, q)
      /\ \A k : InDeep(k)' <=> InDeep(k)
  BY ChainSameIs
<1>2. SessionRows'
  BY DEF DataInv, SessionRows, Creates
<1>3. BlocksOfRows'
  BY <1>1 DEF DataInv, BlocksOfRows
<1>4. OneOfEach'
  BY <1>1 DEF DataInv, OneOfEach
<1>5. ConfirmedInDeep(db.rows)'
  BY <1>1 DEF DataInv, ConfirmedInDeep
<1>6. MintedOnce' /\ Outlasting(db'.rows) /\ Unnumbered(db'.rows)
      /\ NonceAfterRow(db'.nonce, db'.rows)
  BY DEF DataInv, MintedOnce
<1> QED
  BY <1>2, <1>3, <1>4, <1>5, <1>6 DEF DataInv

LEMMA DataNonce ==
    ASSUME TypeInv, DataInv, ChainSame, NEW q \in Parties, RowsOf(db.rows, "approve", q) # {},
           db'.rows = db.rows, db'.session = db.session, db'.event = db.event,
           \A o \in Parties : o # q => db'.nonce[o] = db.nonce[o]
    PROVE  DataInv'
<1>1. /\ Blocks' = Blocks /\ Opened' = Opened
      /\ \A kind, o : Did(kind, o)' = Did(kind, o)
      /\ \A k : InDeep(k)' <=> InDeep(k)
  BY ChainSameIs
<1>2. SessionRows'
  BY DEF DataInv, SessionRows, Creates
<1>3. BlocksOfRows'
  BY <1>1 DEF DataInv, BlocksOfRows
<1>4. OneOfEach'
  BY <1>1 DEF DataInv, OneOfEach
<1>5. ConfirmedInDeep(db.rows)'
  BY <1>1 DEF DataInv, ConfirmedInDeep
<1>6. MintedOnce' /\ Outlasting(db'.rows) /\ Unnumbered(db'.rows)
  BY DEF DataInv, MintedOnce
<1>7. NonceAfterRow(db'.nonce, db'.rows)
  BY DEF DataInv, NonceAfterRow
<1> QED
  BY <1>2, <1>3, <1>4, <1>5, <1>6, <1>7 DEF DataInv

(* The chain's own steps: what is in it deep stays, no row has two blocks, *)
(* and the rows are left alone.                                            *)
LEMMA DataChain ==
    ASSUME TypeInv, DataInv, db' = db, chain.deep \subseteq chain'.deep,
           BlocksOfRows', OneOfEach'
    PROVE  DataInv'
<1>1. ConfirmedInDeep(db.rows)'
  BY DEF DataInv, ConfirmedInDeep, InDeep
<1>2. SessionRows' /\ MintedOnce'
  BY DEF DataInv, SessionRows, Creates, MintedOnce
<1>3. Outlasting(db'.rows) /\ Unnumbered(db'.rows) /\ NonceAfterRow(db'.nonce, db'.rows)
  BY DEF DataInv
<1> QED
  BY <1>1, <1>2, <1>3 DEF DataInv

LEMMA DidFinite ==
    ASSUME TypeInv, NEW kind, NEW q
    PROVE  IsFiniteSet(Did(kind, q))
<1>1. IsFiniteSet(Blocks)
  BY FS_Union DEF TypeInv, ChainTyped, Blocks
<1>2. Did(kind, q) \subseteq Blocks
  BY DEF Did
<1> QED
  BY <1>1, <1>2, FS_Subset

LEMMA DataMined ==
    ASSUME TypeInv, DataInv, NEW k \in DOMAIN db.rows, Mine(k)
    PROVE  DataInv' /\ chain.deep \subseteq chain'.deep
<1> DEFINE b == Block(k)
           r == db.rows[k]
           fits == /\ chain.time < r.session.expires
                   /\ \A c \in Opened : db.rows[c.row].session.id # r.session.id
           okay == r.kind = "create_session" => fits
           soft == chain.soft \cup {b}
           wei == IF r.kind = "approve" THEN chain.base ELSE r.fee
<1>0. db' = db /\ k \notin Mined /\ Unnumbered(db.rows) /\ BlocksOfRows /\ OneOfEach
  BY DEF DataInv, Mine, Includable
<1>1. /\ chain' = [chain EXCEPT !.soft = soft]
      /\ chain = [soft |-> chain.soft, deep |-> chain.deep, time |-> chain.time,
                  base |-> chain.base, lost |-> chain.lost]
  BY DEF Mine, TypeInv, ChainTyped
<1>2. b = [row |-> k, kind |-> r.kind, party |-> r.party, nonce |-> r.nonce,
           time |-> chain.time, wei |-> wei, ok |-> okay]
  BY Zenon DEF Block
<1>3. okay \in BOOLEAN /\ (r.kind # "create_session" => okay)
  OBVIOUS
<1>4. r.kind = "create_session" /\ okay => \A c \in Opened : db.rows[c.row].session.id # r.session.id
  OBVIOUS
<1>5. r.kind = "approve" => r.nonce = Cardinality(Did("approve", r.party))
  BY DEF Mine, Includable
<1> HIDE DEF okay, soft, wei
<1>6. chain'.soft = soft /\ chain'.deep = chain.deep
  BY <1>1
<1>7. /\ b.row = k /\ b.kind = r.kind /\ b.party = r.party /\ b.nonce = 0
      /\ b.ok \in BOOLEAN /\ (b.ok <=> okay) /\ (~b.ok => b.kind = "create_session")
  BY <1>0, <1>2, <1>3 DEF Unnumbered
<1> HIDE DEF b
<1>8. Blocks' = Blocks \cup {b}
  BY <1>6 DEF Blocks, soft
<1>9. \A c \in Blocks : c.row # k
  BY <1>0 DEF Mined
<1>10. BlocksOfRows'
  <2>1. ASSUME NEW c \in Blocks \cup {b}
        PROVE  /\ c.row \in DOMAIN db.rows
               /\ c.kind = db.rows[c.row].kind /\ c.party = db.rows[c.row].party
               /\ c.nonce = 0 /\ c.ok \in BOOLEAN
               /\ ~c.ok => c.kind = "create_session"
    BY <1>0, <1>7 DEF BlocksOfRows
  <2>2. ASSUME NEW c \in Blocks \cup {b}, NEW e \in Blocks \cup {b}, c.row = e.row
        PROVE  c = e
    BY <1>0, <1>7, <1>9, <2>2 DEF BlocksOfRows
  <2> QED
    BY <1>0, <1>8, <2>1, <2>2 DEF BlocksOfRows
<1>11. ASSUME NEW q \in Parties, NEW c \in Did("approve", q)', NEW e \in Did("approve", q)'
       PROVE  c = e
  <2>1. /\ c \in Blocks \cup {b} /\ c.ok /\ c.kind = "approve" /\ c.party = q
        /\ e \in Blocks \cup {b} /\ e.ok /\ e.kind = "approve" /\ e.party = q
    BY <1>8 DEF Did
  <2>2. CASE b.kind = "approve" /\ b.party = q
    <3>1. Cardinality(Did("approve", q)) = 0
      BY <1>0, <1>5, <1>7, <2>2 DEF Unnumbered
    <3>2. Did("approve", q) = {}
      BY <3>1, DidFinite, FS_EmptySet
    <3> QED
      BY <2>1, <3>2 DEF Did
  <2>3. CASE ~(b.kind = "approve" /\ b.party = q)
    <3>1. c \in Did("approve", q) /\ e \in Did("approve", q)
      BY <2>1, <2>3 DEF Did
    <3> QED
      BY <1>0, <3>1 DEF OneOfEach
  <2> QED
    BY <2>2, <2>3
<1>12. ASSUME NEW c \in Opened', NEW e \in Opened'
       PROVE  c = e
  <2>1. /\ c \in Blocks \cup {b} /\ c.ok /\ c.kind = "create_session"
        /\ e \in Blocks \cup {b} /\ e.ok /\ e.kind = "create_session"
    BY <1>8 DEF Opened
  <2>2. CASE b.kind = "create_session" /\ b.ok
    <3>1. ASSUME NEW o \in Opened PROVE FALSE
      <4>1. o \in Blocks /\ o.kind = "create_session"
        BY <3>1 DEF Opened
      <4>2. o.row \in Creates
        BY <1>0, <4>1 DEF BlocksOfRows, Creates
      <4>3. k \in Creates
        BY <1>7, <2>2 DEF Creates
      <4>4. db.rows[o.row].session = db.session /\ r.session = db.session
        BY <4>2, <4>3 DEF DataInv, SessionRows
      <4>5. db.rows[o.row].session.id # r.session.id
        BY <1>4, <1>7, <2>2
      <4> QED
        BY <4>4, <4>5
    <3>2. c \notin Blocks /\ e \notin Blocks
      BY <2>1, <3>1 DEF Opened
    <3> QED
      BY <2>1, <3>2
  <2>3. CASE ~(b.kind = "create_session" /\ b.ok)
    <3>1. c \in Opened /\ e \in Opened
      BY <2>1, <2>3 DEF Opened
    <3> QED
      BY <1>0, <3>1 DEF OneOfEach
  <2> QED
    BY <2>2, <2>3
<1>13. OneOfEach'
  BY <1>11, <1>12 DEF OneOfEach
<1> QED
  BY <1>0, <1>6, <1>10, <1>13, DataChain

(* Blocks sink, or are taken back.                                         *)
LEMMA DataFewer ==
    ASSUME TypeInv, DataInv, db' = db, chain.deep \subseteq chain'.deep, Blocks' \subseteq Blocks
    PROVE  DataInv'
<1>1. BlocksOfRows /\ OneOfEach
  BY DEF DataInv
<1>2. BlocksOfRows'
  BY <1>1 DEF BlocksOfRows
<1>3. /\ \A q \in Parties : Did("approve", q)' \subseteq Did("approve", q)
      /\ Opened' \subseteq Opened
  BY DEF Did, Opened
<1>4. OneOfEach'
  BY <1>1, <1>3 DEF OneOfEach
<1> QED
  BY <1>2, <1>4, DataChain

LEMMA DataOnchain ==
    ASSUME TypeInv, DataInv, Onchain
    PROVE  DataInv' /\ chain.deep \subseteq chain'.deep
<1>0. /\ chain = [soft |-> chain.soft, deep |-> chain.deep, time |-> chain.time,
                  base |-> chain.base, lost |-> chain.lost]
      /\ db' = db
  BY OnchainIs DEF TypeInv, ChainTyped
<1>1. CASE \E k \in DOMAIN db.rows : Mine(k)
  BY <1>1, DataMined
<1>2. CASE Deepen
  <2> DEFINE deep == chain.deep \cup chain.soft
  <2>1. chain' = [chain EXCEPT !.deep = deep, !.soft = {}]
    BY <1>2 DEF Deepen
  <2> HIDE DEF deep
  <2>2. chain'.deep = deep /\ chain'.soft = {}
    BY <1>0, <2>1
  <2>3. Blocks' \subseteq Blocks /\ chain.deep \subseteq chain'.deep
    BY <2>2 DEF Blocks, deep
  <2> QED
    BY <1>0, <2>3, DataFewer
<1>3. CASE Reorg
  <2>1. PICK kept \in SUBSET chain.soft, lost \in BOOLEAN, t \in 0..chain.time :
          chain' = [chain EXCEPT !.soft = kept, !.lost = lost, !.time = t]
    BY <1>3 DEF Reorg
  <2>2. chain'.deep = chain.deep /\ chain'.soft = kept
    BY <1>0, <2>1
  <2>3. Blocks' \subseteq Blocks /\ chain.deep \subseteq chain'.deep
    BY <2>2 DEF Blocks
  <2> QED
    BY <1>0, <2>3, DataFewer
<1>4. CASE Spike \/ Pass \/ \E k \in DOMAIN db.rows : Age(k)
  <2>1. chain'.deep = chain.deep /\ chain'.soft = chain.soft
    BY <1>0, <1>4 DEF Spike, Pass, Age
  <2>2. Blocks' \subseteq Blocks /\ chain.deep \subseteq chain'.deep
    BY <2>1 DEF Blocks
  <2> QED
    BY <1>0, <2>2, DataFewer
<1> QED
  BY <1>1, <1>2, <1>3, <1>4 DEF Onchain

-----------------------------------------------------------------------------
(* What a process knows, and what stays true of it.                        *)

RowsGrow ==
    /\ DOMAIN db.rows \subseteq DOMAIN db'.rows
    /\ \A k \in DOMAIN db.rows :
         /\ db'.rows[k].kind = db.rows[k].kind /\ db'.rows[k].party = db.rows[k].party
         /\ db'.rows[k].session = db.rows[k].session

LEMMA RowsGrowing ==
    ASSUME TypeInv, RowsSent \/ db'.rows = db.rows \/ \E r : RowAdded(r)
    PROVE  RowsGrow
<1>1. CASE RowsSent
  BY <1>1 DEF RowsSent, Sending, Restated, RowsGrow
<1>2. CASE db'.rows = db.rows
  BY <1>2 DEF RowsGrow
<1>3. ASSUME NEW r, RowAdded(r)
      PROVE  RowsGrow
  <2>1. /\ DOMAIN db'.rows = DOMAIN db.rows \cup {Len(db.rows) + 1}
        /\ \A k \in DOMAIN db.rows : db'.rows[k] = db.rows[k]
    <3>1. RowsTyped(db.rows)
      BY DEF TypeInv, DbTyped
    <3>2. /\ db'.rows = Append(db.rows, r) /\ IsRow(r) /\ r.kind \in Kinds
          /\ r.party \in Parties \cup {"both"} /\ r.status = "pending"
      BY <1>3 DEF RowAdded
    <3> QED
      BY SMTT(40), <3>1, <3>2, AppendingRow
  <2> QED
    BY <2>1 DEF RowsGrow
<1> QED
  BY <1>1, <1>2, <1>3

(* What is read of the run by a process does not change under it.          *)
Lasting ==
    /\ RowsGrow /\ db'.session = db.session /\ db'.event = db.event
    /\ chain.deep \subseteq chain'.deep

LEMMA SnapshotKept ==
    ASSUME Lasting, NEW p \in Procs, SnapshotInv(procs[p].st), procs'[p].st = procs[p].st
    PROVE  SnapshotInv(procs[p].st)'
<1> DEFINE s == procs[p].st
<1>1. /\ RowsTyped(s.rows) /\ SameRows(db.rows, s.rows)
      /\ Outlasting(s.rows) /\ Unnumbered(s.rows) /\ ConfirmedInDeep(s.rows)
      /\ NonceAfterRow(s.nonce, s.rows) /\ s.session = db.session /\ s.event = db.event
  BY DEF SnapshotInv
<1>2. SameRows(db'.rows, s.rows)
  BY <1>1 DEF SameRows, Lasting, RowsGrow
<1>3. \A k : InDeep(k) => InDeep(k)'
  BY DEF InDeep, Lasting
<1>4. \A k \in DOMAIN s.rows : s.rows[k].status = "confirmed" => InDeep(k)'
  BY <1>1, <1>3 DEF ConfirmedInDeep
<1> HIDE DEF s
<1>5. s' = s
  BY DEF s
<1>6. ConfirmedInDeep(s.rows)'
  BY <1>4, <1>5 DEF ConfirmedInDeep
<1>7. SnapshotInv(s)'
  BY <1>1, <1>2, <1>5, <1>6 DEF SnapshotInv, Lasting
<1> QED
  BY <1>7 DEF s

LEMMA DoneWhen ==
    ASSUME DataInv, NEW kind \in {"mint", "approve"}, NEW q \in Parties, NEW b \in chain.deep,
           b.ok, b.kind = kind, b.party = q
    PROVE  Done(kind, q)
<1>1. b \in Blocks /\ b \in Did(kind, q)
  BY DEF Blocks, Did
<1>2. ASSUME NEW c \in Did(kind, q) PROVE c = b
  <2>1. CASE kind = "approve"
    BY <1>1, <1>2, <2>1 DEF DataInv, OneOfEach
  <2>2. CASE kind = "mint"
    <3>1. c \in Blocks /\ c.kind = "mint" /\ c.party = q
      BY <2>2 DEF Did
    <3>2. c.row \in RowsOf(db.rows, "mint", q) /\ b.row \in RowsOf(db.rows, "mint", q)
      BY <1>1, <2>2, <3>1 DEF DataInv, BlocksOfRows, RowsOf
    <3>3. c.row = b.row
      BY <3>2 DEF DataInv, MintedOnce
    <3> QED
      BY <1>1, <3>1, <3>3 DEF DataInv, BlocksOfRows
  <2> QED
    BY <2>1, <2>2
<1> QED
  BY <1>1, <1>2 DEF Done

LEMMA DoneKept ==
    ASSUME DataInv', chain.deep \subseteq chain'.deep, NEW kind \in {"mint", "approve"},
           NEW q \in Parties, Done(kind, q)
    PROVE  Done(kind, q)'
<1>0. PICK b \in Did(kind, q) : b \in chain'.deep /\ b.ok /\ b.kind = kind /\ b.party = q
  BY DEF Done, Did
<1>1. b \in Blocks' /\ b \in Did(kind, q)'
  BY <1>0 DEF Blocks, Did
<1>2. ASSUME NEW c \in Did(kind, q)' PROVE c = b
  <2>1. CASE kind = "approve"
    BY <1>1, <1>2, <2>1 DEF DataInv, OneOfEach
  <2>2. CASE kind = "mint"
    <3>1. c \in Blocks' /\ c.kind = "mint" /\ c.party = q
      BY <2>2 DEF Did
    <3>2. c.row \in RowsOf(db'.rows, "mint", q) /\ b.row \in RowsOf(db'.rows, "mint", q)
      BY <1>0, <1>1, <2>2, <3>1 DEF DataInv, BlocksOfRows, RowsOf
    <3>3. c.row = b.row
      BY <3>2 DEF DataInv, MintedOnce
    <3> QED
      BY <1>1, <3>1, <3>3 DEF DataInv, BlocksOfRows
  <2> QED
    BY <2>1, <2>2
<1> QED
  BY <1>0, <1>1, <1>2 DEF Done

LEMMA OpeningKept ==
    ASSUME DataInv', chain.deep \subseteq chain'.deep, db'.event = db.event, Opening
    PROVE  Opening'
<1>1. \A q \in Parties : Done("mint", q)' /\ Done("approve", q)'
  BY DoneKept DEF Opening
<1> QED
  BY <1>1 DEF Opening, SessionConfirmed

(* An agent that is bound stays so, or restarts.                           *)
AgentsKept ==
    \A q \in Parties :
        \/ agents'[q] = agents[q]
        \/ agents'[q].entry.state = "unprovisioned"
        \/ agents'[q].entry = [state |-> "approved", opened |-> db.event.opened]

LEMMA BoundKept ==
    ASSUME AgentsKept, db'.event = db.event, NEW q \in Parties, Bound(q)
    PROVE  Bound(q)'
BY DEF AgentsKept, Bound

SamePlace(p) ==
    /\ Doing(procs'[p]) = Doing(procs[p]) /\ procs'[p].i = procs[p].i
    /\ procs'[p].busy = procs[p].busy /\ procs'[p].st = procs[p].st
    /\ procs'[p].ask = procs[p].ask /\ procs'[p].session = procs[p].session

LEMMA PlaceKept ==
    ASSUME TypeInv, NEW p \in Procs, PlaceInv(procs[p]), SamePlace(p), DataInv', Lasting, AgentsKept,
           procs[p].i \in 1..2,
           \A kind, q : RowsOf(db'.rows, kind, q) = RowsOf(db.rows, kind, q)
    PROVE  PlaceInv(procs[p])'
<1> DEFINE x == procs[p]
           y == procs'[p]
<1>0. /\ Doing(y) = Doing(x) /\ y.i = x.i /\ y.busy = x.busy /\ y.st = x.st /\ y.ask = x.ask
      /\ y.session = x.session /\ db'.session = db.session /\ db'.event = db.event
  BY DEF SamePlace, Lasting
<1>1. Left(y) = Left(x)
  BY <1>0, LeftSame
<1>2. Doing(x) \in Reading => SnapshotInv(procs[p].st)'
  BY <1>0, SnapshotKept DEF PlaceInv
<1>3. Opening => Opening'
  BY <1>0, OpeningKept DEF Lasting
<1>4. \A q \in Parties : Bound(q) => Bound(q)'
  BY <1>0, BoundKept
<1>5. \A j \in 1..(x.i - 1) : Order[j] \in Parties
  BY OrderIs DEF Parties
<1> HIDE DEF x, y
<1>6. /\ Doing(y) = "mint" => \A k \in Left(y) : RowsOf(db'.rows, "mint", Order[k]) = {}
      /\ Doing(y) \in Reading \ {"mint"} =>
           /\ Unminted(y.st) = {}
           /\ y.busy = 0 => \A j \in 1..(y.i - 1) : Sent(y.st, "approve", Order[j])
      /\ Doing(y) \in {"ask", "submit", "nonce"} => y.ask.nonce = 0
      /\ Doing(y) = "nonce" => RowsOf(db'.rows, "approve", Order[y.i]) # {}
      /\ Doing(y) = "record" => db'.session = NoSession
      /\ Doing(y) = "create" => db'.session # NoSession /\ y.session = db'.session
  BY <1>0, <1>1 DEF PlaceInv, x
<1>7. /\ Doing(y) \in {"approve", "post", "done"} => Opening'
      /\ Doing(y) = "approve" => \A j \in 1..(y.i - 1) : Bound(Order[j])'
      /\ Doing(y) \in {"post", "done"} => \A q \in Parties : Bound(q)'
  BY <1>0, <1>3, <1>4, <1>5 DEF PlaceInv, x
<1> QED
  BY <1>0, <1>2, <1>6, <1>7 DEF PlaceInv, x, y

(* A step after which a process has nothing of the run in hand.            *)
Empty == {"idle", "down", "stop", "pre"} \cup Creating

LEMMA EmptyPlace ==
    ASSUME NEW p \in Procs, Doing(procs'[p]) \in Empty
    PROVE  PlaceInv(procs[p])'
<1>1. Doing(procs[p])' = Doing(procs'[p])
  BY DEF Doing
<1> QED
  BY <1>1 DEF PlaceInv, Empty, Creating, Reading

LEMMA RestingPlace ==
    ASSUME NEW p \in Procs, procs'[p].pc \in Empty
    PROVE  PlaceInv(procs[p])'
<1>1. Doing(procs'[p]) \in Empty
  BY DEF Doing, Empty, Creating
<1> QED
  BY <1>1, EmptyPlace

(* The process that holds the run moved, and the others rest.              *)
LEMMA OwnerMoved ==
    ASSUME ProcsInv, NEW p \in Procs, procs[p].pc \notin Resting, Moved(p), owner' = owner,
           procs'[p].pc \notin Creating \cup Resting => db'.run = "preparing",
           PlaceInv(procs[p])'
    PROVE  ProcsInv'
<1>1. p = owner /\ \A o \in Procs : o # p => procs'[o].pc \in Resting
  BY DEF ProcsInv, Moved
<1>2. \A o \in Procs : o # p => PlaceInv(procs[o])'
  BY <1>1, RestingPlace DEF Resting, Empty
<1> QED
  BY <1>1, <1>2 DEF ProcsInv

LEMMA SentMeans ==
    ASSUME DataInv, NEW s, SnapshotInv(s), NEW kind \in {"mint", "approve"}, NEW q \in Parties,
           Sent(s, kind, q), SetupConfirmed(s)
    PROVE  Done(kind, q)
<1>1. PICK k \in DOMAIN s.rows : /\ s.rows[k].kind = kind /\ s.rows[k].party = q
                                 /\ s.rows[k].status \notin Gone
  BY DEF Sent, Live, Rows
<1>2. s.rows[k].status = "confirmed"
  BY <1>1 DEF SetupConfirmed, SetupKinds, Settled
<1>3. PICK b \in chain.deep : b.row = k
  BY <1>2 DEF SnapshotInv, ConfirmedInDeep, InDeep
<1>4. b \in Blocks
  BY DEF Blocks
<1>5. db.rows[k].kind = kind /\ db.rows[k].party = q
  BY <1>1 DEF SnapshotInv, SameRows
<1>6. b.kind = kind /\ b.party = q /\ b.ok
  BY <1>3, <1>4, <1>5 DEF DataInv, BlocksOfRows
<1> QED
  BY <1>6, DoneWhen

(* What the snapshot says of set-up is what the process may go on from.    *)
InHand(p) ==
    /\ SnapshotInv(procs[p].st) /\ Unminted(procs[p].st) = {} /\ procs[p].i \in 1..2
    /\ procs[p].busy = 0 => \A j \in 1..(procs[p].i - 1) : Sent(procs[p].st, "approve", Order[j])

LEMMA OpeningReached ==
    ASSUME DataInv, NEW p \in Procs, InHand(p), procs[p].i = 2, procs[p].busy = 0,
           Sent(procs[p].st, "approve", Party(p)),
           SetupConfirmed(procs[p].st), SessionConfirmed(procs[p].st)
    PROVE  Opening
<1> DEFINE s == procs[p].st
<1>1. SnapshotInv(s) /\ Unminted(s) = {} /\ SetupConfirmed(s) /\ SessionConfirmed(s)
  BY DEF InHand
<1>2. Sent(s, "approve", Order[1]) /\ Sent(s, "approve", Order[2])
  BY DEF InHand, Party
<1>3. Sent(s, "mint", Order[1]) /\ Sent(s, "mint", Order[2])
  <2>1. \A j \in 1..2 : Sent(s, "mint", Order[j])
    BY <1>1, OrderIs DEF Unminted
  <2> QED
    BY <2>1
<1> HIDE DEF s
<1>4. ASSUME NEW q \in Parties PROVE Done("mint", q) /\ Done("approve", q)
  <2>1. Sent(s, "mint", q) /\ Sent(s, "approve", q)
    BY <1>2, <1>3, OrderIs DEF Parties
  <2> QED
    BY <1>1, <2>1, SentMeans
<1>5. SessionConfirmed(db)
  BY <1>1 DEF SnapshotInv, SessionConfirmed
<1> QED
  BY <1>4, <1>5 DEF Opening

-----------------------------------------------------------------------------
(* Where a party's result leaves its process.                              *)
Goes(p, result) ==
    \E h : /\ HandledAs(p, result, h)
           /\ h.pc \in {"approvals", "idle", "stop", "record", "create", "approve"}
           /\ Doing(procs'[p]) = h.pc /\ procs'[p].i = h.i /\ procs'[p].busy = h.busy
           /\ procs'[p].st = h.st /\ procs'[p].session = h.session

LEMMA InHandIs ==
    ASSUME TypeInv, ProcsInv, NEW p \in Procs,
           procs[p].pc \in {"approvals", "ask", "submit", "nonce"}
    PROVE  InHand(p) /\ Party(p) \in Parties
<1>1. Doing(procs[p]) = procs[p].pc
  BY DEF Doing
<1>2. PlaceInv(procs[p])
  BY DEF ProcsInv
<1>3. procs[p].i \in 1..2 /\ Party(p) \in Parties
  BY PartyIs
<1> QED
  BY <1>1, <1>2, <1>3 DEF InHand, PlaceInv, Reading

LEMMA GoesTo ==
    ASSUME TypeInv, DataInv, DataInv', Lasting, NEW p \in Procs, InHand(p),
           NEW result \in 0..2, result = 0 => Sent(procs[p].st, "approve", Party(p)),
           Goes(p, result)
    PROVE  PlaceInv(procs[p])'
<1> DEFINE s == procs[p].st
           y == procs'[p]
<1>1. PICK h : /\ HandledAs(p, result, h)
               /\ h.pc \in {"approvals", "idle", "stop", "record", "create", "approve"}
               /\ Doing(y) = h.pc /\ y.i = h.i /\ y.busy = h.busy
               /\ y.st = h.st /\ y.session = h.session
  BY DEF Goes
<1>2. IsProcess(procs[p])
  BY DEF TypeInv
<1>3. procs[p].busy \in 0..2
  BY <1>2 DEF IsProcess
<1>4. db'.session = db.session /\ s.session = db.session
  BY DEF Lasting, InHand, SnapshotInv
<1>5. CASE h.pc \in {"idle", "stop"}
  <2>1. Doing(y) \in Empty
    BY <1>1, <1>5 DEF Empty
  <2> QED
    BY <2>1, EmptyPlace
<1>6. CASE procs[p].i = 1 /\ h.pc = "approvals" /\ h.i = 2 /\ h.st = procs[p].st
           /\ h.busy = Max({procs[p].busy, result})
  <2>1. SnapshotInv(procs[p].st)'
    BY <1>1, <1>6, SnapshotKept DEF InHand
  <2>2. Unminted(y.st) = {}
    BY <1>1, <1>6 DEF InHand
  <2>3. y.busy = 0 => result = 0
    BY <1>1, <1>3, <1>6, MaxOfTwo
  <2>4. y.busy = 0 => \A j \in 1..(y.i - 1) : Sent(y.st, "approve", Order[j])
    <3> SUFFICES ASSUME y.busy = 0, NEW j \in 1..(y.i - 1)
                 PROVE  Sent(y.st, "approve", Order[j])
      OBVIOUS
    <3>1. j = 1
      BY <1>1, <1>6
    <3> QED
      BY <1>1, <1>6, <2>3, <3>1 DEF Party
  <2>5. Doing(y) = "approvals"
    BY <1>1, <1>6
  <2> HIDE DEF y
  <2> QED
    BY <2>1, <2>2, <2>4, <2>5 DEF PlaceInv, Reading, y
<1>7. CASE procs[p].i = 2 /\ procs[p].busy = 0 /\ result = 0 /\ h = AfterApprovals(p)
  <2>1. /\ h.pc \in {"idle", "record", "create", "approve"}
        /\ h.pc \in {"record", "create", "approve"} => SetupConfirmed(s)
        /\ h.pc = "record" => s.session = NoSession
        /\ h.pc = "create" => s.session # NoSession /\ h.session = s.session
        /\ h.pc = "approve" => SessionConfirmed(s) /\ h.i = 1
    BY <1>7, AfterApprovalsIs
  <2>2. h.pc = "approve" => Opening
    BY <1>7, <2>1, OpeningReached
  <2>3. h.pc = "approve" => Opening'
    BY <2>2, OpeningKept DEF Lasting
  <2>4. /\ Doing(y) \in {"idle", "record", "create", "approve"}
        /\ Doing(y) = "record" => db'.session = NoSession
        /\ Doing(y) = "create" => db'.session # NoSession /\ y.session = db'.session
        /\ Doing(y) = "approve" => Opening' /\ y.i = 1
    BY <1>1, <1>4, <2>1, <2>3
  <2>5. Doing(y) = "approve" => \A j \in 1..(y.i - 1) : Bound(Order[j])'
    BY <2>4
  <2> HIDE DEF y
  <2> QED
    BY <2>4, <2>5 DEF PlaceInv, Reading, y
<1> QED
  BY <1>1, <1>5, <1>6, <1>7 DEF HandledAs

LEMMA FollowsGoes ==
    ASSUME NEW p \in Procs, NEW result, Follows(p, result, procs'[p])
    PROVE  Goes(p, result)
<1>1. procs'[p].pc # "send"
  BY DEF Follows
<1>2. Doing(procs'[p]) = procs'[p].pc
  BY <1>1 DEF Doing
<1> QED
  BY <1>2 DEF Follows, Goes

LEMMA PersistedGoes ==
    ASSUME NEW p \in Procs, NEW result, NEW r, NEW x, Follows(p, result, x), Persisted(p, r, x)
    PROVE  Goes(p, result)
<1>1. Doing(procs'[p]) = x.pc
  BY DEF Doing, Persisted
<1> QED
  BY <1>1 DEF Follows, Goes, Persisted

-----------------------------------------------------------------------------
(* Set-up's steps keep it, while one process sets the run up.              *)
Full == Base /\ SetupInv

LEMMA LastingWhen ==
    ASSUME TypeInv, chain' = chain, SameBut(db'),
           RowsSent \/ db'.rows = db.rows \/ \E r : RowAdded(r)
    PROVE  Lasting /\ ChainSame
<1>1. RowsGrow
  BY RowsGrowing
<1> QED
  BY <1>1 DEF Lasting, SameBut, ChainSame

LEMMA StepKeeps ==
    ASSUME Full, NEW p \in Procs, procs[p].pc \notin Creating \cup Resting, Moved(p),
           owner' = owner, procs'[p].pc = "idle" \/ db'.run = db.run,
           DataInv', PlaceInv(procs[p])', db'.run = "running" => RunInv'
    PROVE  SetupInv'
<1>1. ProcsInv /\ db.run = "preparing" /\ procs[p].pc \notin Resting
  BY DEF Full, SetupInv, ProcsInv
<1>2. procs'[p].pc \notin Creating \cup Resting => db'.run = "preparing"
  BY <1>1 DEF Resting
<1>3. ProcsInv'
  BY <1>1, <1>2, OwnerMoved
<1>4. RunInv'
  BY DEF RunInv
<1> QED
  BY <1>3, <1>4 DEF SetupInv

(* A step that leaves the run as it is.                                    *)
LEMMA StepStays ==
    ASSUME Full, NEW p \in Procs, procs[p].pc \notin Creating \cup Resting, Moved(p),
           owner' = owner, db'.run = db.run, DataInv', PlaceInv(procs[p])'
    PROVE  SetupInv'
<1>1. db.run = "preparing"
  BY DEF Full, SetupInv, ProcsInv
<1>2. db'.run = "running" => RunInv'
  BY <1>1
<1> QED
  BY <1>2, StepKeeps

LEMMA PreSetupKeeps ==
    ASSUME Full, NEW p \in Procs, PreSetup(p) PROVE SetupInv'
<1>1. /\ SameBut(db') /\ db'.rows = db.rows /\ db'.run = db.run /\ Moved(p)
      /\ procs'[p].pc = "idle"
  BY PreSetupIs DEF Full, Base, Onward
<1>2. chain' = chain /\ owner' = owner /\ procs[p].pc \notin Creating \cup Resting
  BY SetupStepAt DEF PreSetup, SetupStep
<1>3. DataInv'
  BY <1>1, <1>2, DataSame DEF Full, Base, SetupInv, ChainSame
<1>4. PlaceInv(procs[p])'
  BY <1>1, RestingPlace DEF Empty
<1> QED
  BY <1>1, <1>2, <1>3, <1>4, StepStays

LEMMA SendKeeps ==
    ASSUME Full, NEW p \in Procs, Send(p) PROVE SetupInv'
<1>0. TypeInv /\ DataInv /\ PlaceInv(procs[p])
  BY DEF Full, Base, SetupInv, ProcsInv
<1>1. RowsSent /\ db'.run = db.run /\ Moved(p)
  BY <1>0, SendIs
<1>2. /\ chain' = chain /\ owner' = owner /\ agents' = agents /\ procs[p].pc = "send"
      /\ procs[p].pc \notin Creating \cup Resting
  BY SetupStepAt DEF Send, SetupStep, At
<1>3. Lasting /\ ChainSame
  BY <1>0, <1>1, <1>2, LastingWhen DEF RowsSent
<1>4. DataInv'
  BY <1>0, <1>1, <1>3, DataSent
<1>5. CASE procs'[p].pc = "idle"
  <2>1. PlaceInv(procs[p])'
    BY <1>5, RestingPlace DEF Empty
  <2> QED
    BY <1>1, <1>2, <1>4, <2>1, StepStays
<1>6. CASE /\ procs'[p].pc = procs[p].then /\ procs[p].then # "idle"
           /\ procs'[p].i = procs[p].i /\ procs'[p].busy = procs[p].busy
           /\ procs'[p].st = procs[p].st /\ procs'[p].ask = procs[p].ask
           /\ procs'[p].session = procs[p].session
  <2>1. IsProcess(procs[p])
    BY <1>0 DEF TypeInv
  <2>2. procs[p].then # "send"
    BY <2>1 DEF IsProcess, Afterwards
  <2>3. Doing(procs'[p]) = Doing(procs[p])
    BY <1>2, <1>6, <2>2 DEF Doing
  <2>4. SamePlace(p)
    BY <1>6, <2>3 DEF SamePlace
  <2>5. procs[p].i \in 1..2
    BY <1>0, <1>2, PartyIs
  <2>6. \A kind, q : RowsOf(db'.rows, kind, q) = RowsOf(db.rows, kind, q)
    BY <1>1, SentRows DEF RowsSent
  <2>7. AgentsKept
    BY <1>2 DEF AgentsKept
  <2>8. PlaceInv(procs[p])'
    BY <1>0, <1>3, <1>4, <2>4, <2>5, <2>6, <2>7, PlaceKept
  <2> QED
    BY <1>1, <1>2, <1>4, <2>8, StepStays
<1> QED
  BY <1>0, <1>5, <1>6, SendIs

LEMMA MintKeeps ==
    ASSUME Full, NEW p \in Procs, Mint(p) PROVE SetupInv'
<1>0. TypeInv /\ DataInv /\ PlaceInv(procs[p])
  BY DEF Full, Base, SetupInv, ProcsInv
<1>1. PICK j \in Left(procs[p]) : \E x :
             /\ \A k \in Left(procs[p]) : j <= k
             /\ Persisted(p, Row("mint", Order[j]), x)
             /\ \/ x.pc = "idle"
                \/ /\ x.pc = "mint" /\ x.i = j + 1 /\ x.st = procs[p].st
                   /\ \E k \in Left(procs[p]) : k > j
  BY <1>0, MintIs
<1>2. PICK x : /\ \A k \in Left(procs[p]) : j <= k
               /\ Persisted(p, Row("mint", Order[j]), x)
               /\ \/ x.pc = "idle"
                  \/ x.pc = "mint" /\ x.i = j + 1 /\ x.st = procs[p].st
  BY <1>1
<1> DEFINE r == Row("mint", Order[j])
           y == procs'[p]
<1>3. /\ RowAdded(r) /\ db'.run = db.run /\ Moved(p) /\ Doing(y) = x.pc
      /\ y.i = x.i /\ y.st = x.st
  BY <1>2 DEF Persisted, Onward, Doing
<1>4. /\ chain' = chain /\ owner' = owner /\ agents' = agents /\ procs[p].pc = "mint"
      /\ procs[p].pc \notin Creating \cup Resting
  BY SetupStepAt DEF Mint, SetupStep, At
<1>5. r.kind = "mint" /\ r.party = Order[j] /\ r.nonce = 0
  BY RowIs
<1>6. Doing(procs[p]) = "mint"
  BY <1>4 DEF Doing
<1>7. \A k \in Left(procs[p]) : RowsOf(db.rows, "mint", Order[k]) = {}
  BY <1>0, <1>6 DEF PlaceInv
<1>8. Lasting /\ ChainSame
  BY <1>0, <1>3, <1>4, LastingWhen DEF RowAdded
<1> HIDE DEF r
<1>9. DataInv'
  BY <1>0, <1>3, <1>5, <1>7, <1>8, DataAdded
<1>10. CASE x.pc = "idle"
  <2>1. PlaceInv(procs[p])'
    BY <1>3, <1>10, EmptyPlace DEF Empty
  <2> QED
    BY <1>3, <1>4, <1>9, <2>1, StepStays
<1>11. CASE x.pc = "mint" /\ x.i = j + 1 /\ x.st = procs[p].st
  <2>0. IsProcess(procs[p]) /\ procs[p].i \in 1..2
    BY <1>0, <1>4, PartyIs DEF TypeInv
  <2>1. SnapshotInv(procs[p].st)'
    BY <1>0, <1>3, <1>6, <1>8, <1>11, SnapshotKept DEF PlaceInv, Reading
  <2>2. ASSUME NEW k \in Left(y)
        PROVE  RowsOf(db'.rows, "mint", Order[k]) = {}
    <3>1. k \in Unminted(procs[p].st) /\ k >= j + 1
      BY <1>3, <1>11 DEF Left
    <3>2. j \in 1..2 /\ j >= procs[p].i /\ k \in 1..2
      BY <3>1, UnmintedIs DEF Left
    <3>3. k \in Left(procs[p]) /\ k # j
      BY <2>0, <3>1, <3>2 DEF Left
    <3>4. Order[k] # Order[j]
      BY <3>2, <3>3, OrderIs
    <3>5. /\ DOMAIN db'.rows = DOMAIN db.rows \cup {Len(db.rows) + 1}
          /\ db'.rows[Len(db.rows) + 1] = r
          /\ \A l \in DOMAIN db.rows : db'.rows[l] = db.rows[l]
      BY <1>0, <1>3, AppendingRow DEF RowAdded, TypeInv, DbTyped
    <3>6. RowsOf(db'.rows, "mint", Order[k]) \subseteq RowsOf(db.rows, "mint", Order[k])
      BY <1>5, <3>4, <3>5 DEF RowsOf
    <3> QED
      BY <1>7, <3>3, <3>6
  <2>3. Doing(y) = "mint"
    BY <1>3, <1>11
  <2> HIDE DEF y
  <2>4. PlaceInv(procs[p])'
    BY <2>1, <2>2, <2>3 DEF PlaceInv, Reading, y
  <2> QED
    BY <1>3, <1>4, <1>9, <2>4, StepStays
<1> QED
  BY <1>2, <1>10, <1>11

(* The newest of an account's approvals: an account's first transaction.   *)
LEMMA GreatestIs ==
    ASSUME NEW n \in Nat, NEW S \in SUBSET (1..n), S # {}
    PROVE  Max(S) \in S
<1> DEFINE T == {n - k : k \in S}
           Below == OpToRel(<, Nat)
<1>1. T \in SUBSET Nat /\ T # {}
  <2>1. \A k \in S : n - k \in Nat
    OBVIOUS
  <2>2. \A t \in T : t \in Nat
    BY <2>1
  <2>3. PICK k \in S : TRUE
    OBVIOUS
  <2>4. n - k \in T
    OBVIOUS
  <2> HIDE DEF T
  <2> QED
    BY <2>2, <2>4
<1>2. IsWellFoundedOn(Below, Nat)
  BY NatLessThanWellFounded
<1>3. \A k, m \in Nat : ~(<<k, m>> \in Below) => m <= k
  BY DEF OpToRel
<1> HIDE DEF Below, T
<1>4. PICK m \in T : \A k \in T : ~(<<k, m>> \in Below)
  BY <1>1, <1>2, WFMin
<1>5. \A k \in T : m <= k
  BY <1>1, <1>3, <1>4
<1>6. PICK g \in S : m = n - g
  BY <1>4 DEF T
<1>7. ASSUME NEW k \in S PROVE g >= k
  <2>1. n - k \in T
    BY DEF T
  <2>2. n - g <= n - k /\ g \in Int /\ k \in Int
    BY <1>5, <1>6, <2>1
  <2> QED
    BY <2>2
<1> QED
  BY <1>7 DEF Max

LEMMA NonceForIs ==
    ASSUME NEW s, SnapshotInv(s), NEW q \in Parties
    PROVE  NonceFor(s, q) = 0
<1>1. RowsTyped(s.rows) /\ Outlasting(s.rows) /\ Unnumbered(s.rows) /\ NonceAfterRow(s.nonce, s.rows)
  BY DEF SnapshotInv
<1>2. Live(s, "approve", q) = LiveOf(s.rows, "approve", q)
  BY DEF Live, LiveOf, Rows, RowsOf
<1>3. Live(s, "approve", q) \subseteq DOMAIN s.rows
  BY DEF Live, Rows
<1>4. Len(s.rows) \in Nat /\ DOMAIN s.rows = 1..Len(s.rows)
  BY <1>1, ListedIs DEF RowsTyped
<1>5. CASE Sent(s, "approve", q)
  <2>1. Live(s, "approve", q) # {}
    BY <1>5 DEF Sent
  <2>2. Newest(s, q) \in Live(s, "approve", q)
    BY <1>3, <1>4, <2>1, GreatestIs DEF Newest
  <2>3. s.rows[Newest(s, q)].nonce = 0
    BY <1>1, <1>3, <2>2 DEF Unnumbered
  <2> QED
    BY <1>5, <2>3 DEF NonceFor
<1>6. CASE ~Sent(s, "approve", q)
  <2>1. RowsOf(s.rows, "approve", q) = {}
    BY <1>1, <1>2, <1>6 DEF Sent, Outlasting
  <2>2. s.nonce[q] = 0
    BY <1>1, <2>1 DEF NonceAfterRow
  <2> QED
    BY <1>6, <2>2 DEF NonceFor
<1> QED
  BY <1>5, <1>6

(* A party's approval, from its terms to its row.                          *)
Asking(p) ==
    /\ procs'[p].i = procs[p].i /\ procs'[p].busy = procs[p].busy
    /\ procs'[p].st = procs[p].st /\ procs'[p].ask.nonce = 0

LEMMA AskingPlace ==
    ASSUME NEW p \in Procs, InHand(p), Lasting, Asking(p),
           Doing(procs'[p]) \in {"ask", "submit", "nonce"},
           Doing(procs'[p]) = "nonce" => RowsOf(db'.rows, "approve", Party(p)) # {}
    PROVE  PlaceInv(procs[p])'
<1> DEFINE y == procs'[p]
<1>1. /\ Doing(y) \in {"ask", "submit", "nonce"} /\ y.i = procs[p].i
      /\ y.busy = procs[p].busy /\ y.st = procs[p].st /\ y.ask.nonce = 0
  BY DEF Asking
<1>2. SnapshotInv(procs[p].st)'
  BY <1>1, SnapshotKept DEF InHand
<1>3. /\ Unminted(y.st) = {}
      /\ y.busy = 0 => \A j \in 1..(y.i - 1) : Sent(y.st, "approve", Order[j])
      /\ Doing(y) = "nonce" => RowsOf(db'.rows, "approve", Order[y.i]) # {}
  BY <1>1 DEF InHand, Party
<1> HIDE DEF y
<1> QED
  BY <1>1, <1>2, <1>3 DEF PlaceInv, Reading, y

LEMMA ApprovalKeeps ==
    ASSUME Full, NEW p \in Procs, Approval(p) PROVE SetupInv'
<1>0. TypeInv /\ DataInv /\ ProcsInv
  BY DEF Full, Base, SetupInv
<1>1. /\ chain' = chain /\ owner' = owner /\ agents' = agents /\ procs[p].pc = "approvals"
      /\ procs[p].pc \notin Creating \cup Resting
  BY SetupStepAt DEF Approval, SetupStep, At
<1>2. InHand(p) /\ Party(p) \in Parties
  BY <1>0, <1>1, InHandIs
<1>3. CASE ApprovalFunds(p)
  <2>1. PICK r, x : /\ r.kind = "fund_eth" /\ r.party = Party(p) /\ r.nonce = 0
                    /\ Follows(p, 1, x) /\ Persisted(p, r, x)
    BY <1>3 DEF ApprovalFunds
  <2>2. RowAdded(r) /\ db'.run = db.run /\ Moved(p)
    BY <2>1 DEF Persisted, Onward
  <2>3. Lasting /\ ChainSame
    BY <1>0, <1>1, <2>2, LastingWhen DEF RowAdded
  <2>4. DataInv'
    BY <1>0, <2>1, <2>2, <2>3, DataAdded
  <2>5. Goes(p, 1)
    BY <2>1, PersistedGoes
  <2>6. PlaceInv(procs[p])'
    BY <1>0, <1>2, <2>3, <2>4, <2>5, GoesTo
  <2> QED
    BY <1>1, <2>2, <2>4, <2>6, StepStays
<1>4. CASE db' = db /\ Onward(p)
  <2>1. SameBut(db') /\ db'.rows = db.rows /\ db'.run = db.run /\ Moved(p)
    BY <1>0, <1>4, DbSame DEF Onward, TypeInv
  <2>2. Lasting /\ ChainSame
    BY <1>0, <1>1, <2>1, LastingWhen
  <2>3. DataInv'
    BY <1>0, <2>1, <2>2, DataSame
  <2>4. CASE ApprovalHandled(p)
    <3>1. Goes(p, 1) \/ (Goes(p, 0) /\ Sent(procs[p].st, "approve", Party(p)))
      BY <2>4, FollowsGoes DEF ApprovalHandled
    <3>2. PlaceInv(procs[p])'
      BY <1>0, <1>2, <2>2, <2>3, <3>1, GoesTo
    <3> QED
      BY <1>1, <2>1, <2>3, <3>2, StepStays
  <2>5. CASE ApprovalAsks(p)
    <3>1. Asking(p) /\ Doing(procs'[p]) = "ask"
      BY <1>2, <2>5, NonceForIs DEF ApprovalAsks, Asking, Doing, InHand
    <3>2. PlaceInv(procs[p])'
      BY <1>2, <2>2, <3>1, AskingPlace
    <3> QED
      BY <1>1, <2>1, <2>3, <3>2, StepStays
  <2> QED
    BY <1>0, <1>3, <2>4, <2>5, ApprovalIs
<1> QED
  BY <1>0, <1>3, <1>4, ApprovalIs DEF ApprovalHandled, ApprovalAsks

LEMMA AskKeeps ==
    ASSUME Full, NEW p \in Procs, Ask(p) PROVE SetupInv'
<1>0. TypeInv /\ DataInv /\ ProcsInv /\ PlaceInv(procs[p])
  BY DEF Full, Base, SetupInv, ProcsInv
<1>1. /\ chain' = chain /\ owner' = owner /\ procs[p].pc = "ask"
      /\ procs[p].pc \notin Creating \cup Resting
  BY SetupStepAt DEF Ask, SetupStep, At
<1>2. InHand(p) /\ Party(p) \in Parties
  BY <1>0, <1>1, InHandIs
<1>3. procs[p].ask.nonce = 0
  BY <1>0, <1>1 DEF PlaceInv, Doing
<1>4. /\ db' = db /\ Onward(p)
      /\ \/ /\ procs'[p].pc = "submit" /\ procs'[p].i = procs[p].i
            /\ procs'[p].busy = procs[p].busy /\ procs'[p].st = procs[p].st
            /\ procs'[p].ask = procs[p].ask
         \/ Follows(p, 1, procs'[p]) \/ Follows(p, 2, procs'[p])
  BY <1>0, AskIs
<1>5. SameBut(db') /\ db'.rows = db.rows /\ db'.run = db.run /\ Moved(p)
  BY <1>0, <1>4, DbSame DEF Onward, TypeInv
<1>6. Lasting /\ ChainSame
  BY <1>0, <1>1, <1>5, LastingWhen
<1>7. DataInv'
  BY <1>0, <1>5, <1>6, DataSame
<1>8. CASE /\ procs'[p].pc = "submit" /\ procs'[p].i = procs[p].i
           /\ procs'[p].busy = procs[p].busy /\ procs'[p].st = procs[p].st
           /\ procs'[p].ask = procs[p].ask
  <2>1. Asking(p) /\ Doing(procs'[p]) = "submit"
    BY <1>3, <1>8 DEF Asking, Doing
  <2>2. PlaceInv(procs[p])'
    BY <1>2, <1>6, <2>1, AskingPlace
  <2> QED
    BY <1>1, <1>5, <1>7, <2>2, StepStays
<1>9. CASE Follows(p, 1, procs'[p]) \/ Follows(p, 2, procs'[p])
  <2>1. Goes(p, 1) \/ Goes(p, 2)
    BY <1>9, FollowsGoes
  <2>2. PlaceInv(procs[p])'
    BY <1>0, <1>2, <1>6, <1>7, <2>1, GoesTo
  <2> QED
    BY <1>1, <1>5, <1>7, <2>2, StepStays
<1> QED
  BY <1>4, <1>8, <1>9

LEMMA SubmitKeeps ==
    ASSUME Full, NEW p \in Procs, SubmitPresigned(p) PROVE SetupInv'
<1>0. TypeInv /\ DataInv /\ ProcsInv /\ PlaceInv(procs[p])
  BY DEF Full, Base, SetupInv, ProcsInv
<1>1. /\ chain' = chain /\ owner' = owner /\ procs[p].pc = "submit"
      /\ procs[p].pc \notin Creating \cup Resting
  BY SetupStepAt DEF SubmitPresigned, SetupStep, At
<1>2. InHand(p) /\ Party(p) \in Parties
  BY <1>0, <1>1, InHandIs
<1>3. procs[p].ask.nonce = 0
  BY <1>0, <1>1 DEF PlaceInv, Doing
<1>4. PICK r, x :
        /\ r.kind = "approve" /\ r.party = Party(p) /\ r.nonce = procs[p].ask.nonce
        /\ x.pc = "nonce" /\ x.i = procs[p].i /\ x.busy = procs[p].busy
        /\ x.st = procs[p].st /\ x.ask = procs[p].ask
        /\ \/ Persisted(p, r, x)
           \/ /\ db' = db /\ Onward(p) /\ Rows(db, "approve", Party(p)) # {}
              /\ procs'[p].pc = "send" /\ procs'[p].then = "nonce"
              /\ procs'[p].i = procs[p].i /\ procs'[p].busy = procs[p].busy
              /\ procs'[p].st = procs[p].st /\ procs'[p].ask = procs[p].ask
  BY <1>0, SubmitIs
<1>5. Asking(p) /\ Doing(procs'[p]) = "nonce"
  BY <1>3, <1>4 DEF Asking, Doing, Persisted
<1>6. CASE Persisted(p, r, x)
  <2>1. RowAdded(r) /\ db'.run = db.run /\ Moved(p)
    BY <1>6 DEF Persisted, Onward
  <2>2. Lasting /\ ChainSame
    BY <1>0, <1>1, <2>1, LastingWhen DEF RowAdded
  <2>3. DataInv'
    BY <1>0, <1>3, <1>4, <2>1, <2>2, DataAdded
  <2>4. /\ DOMAIN db'.rows = DOMAIN db.rows \cup {Len(db.rows) + 1}
        /\ db'.rows[Len(db.rows) + 1] = r
    BY <1>0, <2>1, AppendingRow DEF RowAdded, TypeInv, DbTyped
  <2>5. RowsOf(db'.rows, "approve", Party(p)) # {}
    <3>1. Len(db.rows) + 1 \in RowsOf(db'.rows, "approve", Party(p))
      BY <1>4, <2>4 DEF RowsOf
    <3> QED
      BY <3>1
  <2>6. PlaceInv(procs[p])'
    BY <1>2, <1>5, <2>2, <2>5, AskingPlace
  <2> QED
    BY <1>1, <2>1, <2>3, <2>6, StepStays
<1>7. CASE db' = db /\ Onward(p) /\ Rows(db, "approve", Party(p)) # {}
  <2>1. SameBut(db') /\ db'.rows = db.rows /\ db'.run = db.run /\ Moved(p)
    BY <1>0, <1>7, DbSame DEF Onward, TypeInv
  <2>2. Lasting /\ ChainSame
    BY <1>0, <1>1, <2>1, LastingWhen
  <2>3. DataInv'
    BY <1>0, <2>1, <2>2, DataSame
  <2>4. RowsOf(db'.rows, "approve", Party(p)) # {}
    BY <1>7, <2>1 DEF Rows, RowsOf
  <2>5. PlaceInv(procs[p])'
    BY <1>2, <1>5, <2>2, <2>4, AskingPlace
  <2> QED
    BY <1>1, <2>1, <2>3, <2>5, StepStays
<1> QED
  BY SMTT(30), <1>4, <1>6, <1>7

LEMMA SetNonceKeeps ==
    ASSUME Full, NEW p \in Procs, SetNonce(p) PROVE SetupInv'
<1>0. TypeInv /\ DataInv /\ ProcsInv /\ PlaceInv(procs[p])
  BY DEF Full, Base, SetupInv, ProcsInv
<1>1. /\ chain' = chain /\ owner' = owner /\ procs[p].pc = "nonce"
      /\ procs[p].pc \notin Creating \cup Resting
  BY SetupStepAt DEF SetNonce, SetupStep, At
<1>2. InHand(p) /\ Party(p) \in Parties
  BY <1>0, <1>1, InHandIs
<1>3. RowsOf(db.rows, "approve", Party(p)) # {}
  BY <1>0, <1>1 DEF PlaceInv, Doing, Party
<1>4. /\ db'.rows = db.rows /\ db'.run = db.run
      /\ db'.session = db.session /\ db'.event = db.event
      /\ \A q \in Parties : q # Party(p) => db'.nonce[q] = db.nonce[q]
      /\ Moved(p) /\ Follows(p, 1, procs'[p])
  BY <1>0, SetNonceIs DEF Onward
<1>5. ChainSame /\ chain.deep \subseteq chain'.deep
  BY <1>1 DEF ChainSame
<1>6. Lasting
  BY <1>0, <1>4, <1>5, RowsGrowing DEF Lasting
<1>7. DataInv'
  BY <1>0, <1>2, <1>3, <1>4, <1>5, DataNonce
<1>8. PlaceInv(procs[p])'
  <2>1. Goes(p, 1)
    BY <1>4, FollowsGoes
  <2> QED
    BY <1>0, <1>2, <1>6, <1>7, <2>1, GoesTo
<1> QED
  BY <1>1, <1>4, <1>7, <1>8, StepStays

LEMMA RecordKeeps ==
    ASSUME Full, NEW p \in Procs, RecordSession(p) PROVE SetupInv'
<1>0. TypeInv /\ DataInv /\ PlaceInv(procs[p])
  BY DEF Full, Base, SetupInv, ProcsInv
<1>1. /\ chain' = chain /\ owner' = owner /\ procs[p].pc = "record"
      /\ procs[p].pc \notin Creating \cup Resting
  BY SetupStepAt DEF RecordSession, SetupStep, At
<1>2. db.session = NoSession
  BY <1>0, <1>1 DEF PlaceInv, Doing
<1>3. /\ db'.rows = db.rows /\ db'.run = db.run /\ db'.session = Fresh
      /\ db'.nonce = db.nonce /\ db'.event = db.event /\ Fresh # NoSession
      /\ Moved(p) /\ procs'[p].pc = "create" /\ procs'[p].session = Fresh
  BY <1>0, RecordIs DEF Onward
<1>4. DataInv'
  BY <1>0, <1>1, <1>2, <1>3, DataRecorded DEF ChainSame
<1> DEFINE y == procs'[p]
<1>5. Doing(y) = "create" /\ db'.session # NoSession /\ y.session = db'.session
  BY <1>3 DEF Doing
<1> HIDE DEF y
<1>6. PlaceInv(procs[p])'
  BY <1>5 DEF PlaceInv, Reading, y
<1> QED
  BY <1>1, <1>3, <1>4, <1>6, StepStays

LEMMA CreateKeeps ==
    ASSUME Full, NEW p \in Procs, CreateSession(p) PROVE SetupInv'
<1>0. TypeInv /\ DataInv /\ PlaceInv(procs[p])
  BY DEF Full, Base, SetupInv, ProcsInv
<1>1. /\ chain' = chain /\ owner' = owner /\ procs[p].pc = "create"
      /\ procs[p].pc \notin Creating \cup Resting
  BY SetupStepAt DEF CreateSession, SetupStep, At
<1>2. db.session # NoSession /\ procs[p].session = db.session
  BY <1>0, <1>1 DEF PlaceInv, Doing
<1>3. PICK r, x : /\ r.kind = "create_session" /\ r.nonce = 0
                  /\ r.session = procs[p].session /\ x.pc = "idle"
                  /\ Persisted(p, r, x)
  BY <1>0, CreateIs
<1>4. RowAdded(r) /\ db'.run = db.run /\ Moved(p) /\ Doing(procs'[p]) = "idle"
  BY <1>3 DEF Persisted, Onward, Doing
<1>5. DataInv'
  BY <1>0, <1>1, <1>2, <1>3, <1>4, DataAdded DEF ChainSame
<1>6. PlaceInv(procs[p])'
  BY <1>4, EmptyPlace DEF Empty
<1> QED
  BY <1>1, <1>4, <1>5, <1>6, StepStays

(* Both agents approve, and the run goes on or stops.                      *)
LEMMA ApproveKeeps ==
    ASSUME Full, NEW p \in Procs, ApproveSession(p) PROVE SetupInv'
<1>0. TypeInv /\ DataInv /\ PlaceInv(procs[p])
  BY DEF Full, Base, SetupInv, ProcsInv
<1>1. /\ chain' = chain /\ owner' = owner /\ procs[p].pc = "approve"
      /\ procs[p].pc \notin Creating \cup Resting /\ db.run = "preparing"
  BY SetupStepAt DEF ApproveSession, SetupStep, At, Full, SetupInv, ProcsInv
<1>2. Opening /\ \A j \in 1..(procs[p].i - 1) : Bound(Order[j])
  BY <1>0, <1>1 DEF PlaceInv, Doing
<1>3. /\ SameBut(db') /\ db'.rows = db.rows
      /\ Moved(p) /\ AgentChanged(Party(p)) /\ Party(p) \in Parties
      /\ db'.run # db.run => db'.run \in {"recovery", "ending"}
      /\ \/ /\ agents'[Party(p)].entry = [state |-> "approved", opened |-> db.event.opened]
            /\ db' = db /\ procs[p].i = 1 /\ procs'[p].pc = "approve" /\ procs'[p].i = 2
         \/ /\ agents'[Party(p)].entry = [state |-> "approved", opened |-> db.event.opened]
            /\ db' = db /\ procs[p].i = 2 /\ procs'[p].pc = "post"
         \/ procs'[p].pc = "idle"
  BY <1>0, ApproveIs DEF Onward
<1>4. DataInv'
  BY <1>0, <1>1, <1>3, DataSame DEF ChainSame
<1>5. db'.event = db.event /\ db'.run # "running"
  BY <1>1, <1>3 DEF SameBut
<1>6. Opening'
  BY <1>1, <1>2, <1>4, <1>5, OpeningKept
<1> DEFINE y == procs'[p]
<1>7. CASE y.pc = "idle"
  <2>1. PlaceInv(procs[p])'
    BY <1>7, RestingPlace DEF Empty
  <2> QED
    BY <1>1, <1>3, <1>4, <1>5, <1>7, <2>1, StepKeeps
<1>8. CASE /\ agents'[Party(p)].entry = [state |-> "approved", opened |-> db.event.opened]
           /\ db' = db /\ procs[p].i = 1 /\ y.pc = "approve" /\ y.i = 2
  <2>1. Bound(Order[1])'
    BY <1>5, <1>8 DEF Bound, Party
  <2>2. Doing(y) = "approve" /\ \A j \in 1..(y.i - 1) : Bound(Order[j])'
    <3>1. \A j \in 1..(y.i - 1) : j = 1
      BY <1>8
    <3> QED
      BY <1>8, <2>1, <3>1 DEF Doing
  <2> HIDE DEF y
  <2>3. PlaceInv(procs[p])'
    BY <1>6, <2>2 DEF PlaceInv, Reading, y
  <2> QED
    BY <1>1, <1>3, <1>4, <1>8, <2>3, StepStays
<1>9. CASE /\ agents'[Party(p)].entry = [state |-> "approved", opened |-> db.event.opened]
           /\ db' = db /\ procs[p].i = 2 /\ y.pc = "post"
  <2>1. Bound(Order[2])'
    BY <1>5, <1>9 DEF Bound, Party
  <2>2. Bound(Order[1])'
    <3>1. Bound(Order[1])
      BY <1>2, <1>9
    <3>2. agents'[Order[1]] = agents[Order[1]]
      BY <1>3, <1>9, OrderIs DEF AgentChanged, Party, Parties
    <3> QED
      BY <1>5, <3>1, <3>2 DEF Bound
  <2>3. Doing(y) = "post" /\ \A q \in Parties : Bound(q)'
    BY <1>9, <2>1, <2>2, OrderIs DEF Doing, Parties
  <2> HIDE DEF y
  <2>4. PlaceInv(procs[p])'
    BY <1>6, <2>3 DEF PlaceInv, Reading, y
  <2> QED
    BY <1>1, <1>3, <1>4, <1>9, <2>4, StepStays
<1> QED
  BY <1>3, <1>7, <1>8, <1>9

LEMMA PostKeeps ==
    ASSUME Full, NEW p \in Procs, PostSetup(p) PROVE SetupInv'
<1>0. TypeInv /\ DataInv /\ PlaceInv(procs[p])
  BY DEF Full, Base, SetupInv, ProcsInv
<1>1. /\ chain' = chain /\ owner' = owner /\ agents' = agents /\ procs[p].pc = "post"
      /\ procs[p].pc \notin Creating \cup Resting
  BY SetupStepAt DEF PostSetup, SetupStep, At
<1>2. Opening /\ \A q \in Parties : Bound(q)
  BY <1>0, <1>1 DEF PlaceInv, Doing
<1>3. /\ SameBut(db') /\ db'.rows = db.rows /\ db'.run = db.run
      /\ Moved(p) /\ procs'[p].pc = "done"
  BY <1>0, PostIs DEF Onward
<1>4. DataInv'
  BY <1>0, <1>1, <1>3, DataSame DEF ChainSame
<1>5. db'.event = db.event
  BY <1>3 DEF SameBut
<1>6. Opening' /\ \A q \in Parties : Bound(q)'
  BY <1>1, <1>2, <1>4, <1>5, OpeningKept, BoundKept DEF AgentsKept
<1> DEFINE y == procs'[p]
<1>7. Doing(y) = "done"
  BY <1>3 DEF Doing
<1> HIDE DEF y
<1>8. PlaceInv(procs[p])'
  BY <1>6, <1>7 DEF PlaceInv, Reading, y
<1> QED
  BY <1>1, <1>3, <1>4, <1>8, StepStays

LEMMA EndsKeeps ==
    ASSUME Full, NEW p \in Procs, SetupStops(p) \/ SetupDone(p) PROVE SetupInv'
<1>0. TypeInv /\ DataInv /\ PlaceInv(procs[p])
  BY DEF Full, Base, SetupInv, ProcsInv
<1>1. /\ chain' = chain /\ owner' = owner /\ agents' = agents
      /\ procs[p].pc \notin Creating \cup Resting /\ db.run = "preparing"
  BY SetupStepAt DEF SetupStops, SetupDone, SetupStep, Full, SetupInv, ProcsInv
<1>2. /\ SameBut(db') /\ db'.rows = db.rows
      /\ db'.run = "running" => db.run = "running" \/ At(p, "done")
      /\ Moved(p) /\ procs'[p].pc = "idle"
  BY <1>0, EndsIs DEF Onward
<1>3. DataInv'
  BY <1>0, <1>1, <1>2, DataSame DEF ChainSame
<1>4. PlaceInv(procs[p])'
  BY <1>2, RestingPlace DEF Empty
<1>5. db'.run = "running" => RunInv'
  <2> SUFFICES ASSUME db'.run = "running" PROVE RunInv'
    OBVIOUS
  <2>1. At(p, "done")
    BY <1>1, <1>2
  <2>2. Opening /\ \A q \in Parties : Bound(q)
    BY <1>0, <2>1 DEF PlaceInv, Doing, At
  <2>3. db'.event = db.event
    BY <1>2 DEF SameBut
  <2>4. Opening' /\ \A q \in Parties : Bound(q)'
    BY <1>1, <1>3, <2>2, <2>3, OpeningKept, BoundKept DEF AgentsKept
  <2> QED
    BY <2>4 DEF RunInv
<1> QED
  BY <1>1, <1>2, <1>3, <1>4, <1>5, StepKeeps

LEMMA SetupStepKeeps ==
    ASSUME Full, NEW p \in Procs, SetupStep(p) PROVE SetupInv'
BY PreSetupKeeps, MintKeeps, SendKeeps, ApprovalKeeps, AskKeeps, SubmitKeeps, SetNonceKeeps,
   RecordKeeps, CreateKeeps, ApproveKeeps, PostKeeps, EndsKeeps DEF SetupStep

(* The poll: a snapshot of the rows it has just brought up to date.        *)
LEMMA SnapshotTaken ==
    ASSUME DbTyped', DataInv', NEW p \in Procs, procs'[p].st = Snapshot(db')
    PROVE  SnapshotInv(procs[p].st)'
<1> DEFINE s == procs'[p].st
<1>1. s.rows = db'.rows /\ s.session = db'.session /\ s.nonce = db'.nonce /\ s.event = db'.event
  BY DEF Snapshot
<1>2. RowsTyped(s.rows) /\ SameRows(db'.rows, s.rows)
  BY <1>1 DEF DbTyped, SameRows
<1>3. Outlasting(s.rows) /\ Unnumbered(s.rows) /\ NonceAfterRow(s.nonce, s.rows)
  BY <1>1 DEF DataInv
<1>4. ConfirmedInDeep(procs[p].st.rows)'
  BY <1>1 DEF DataInv, ConfirmedInDeep
<1> HIDE DEF s
<1> QED
  BY <1>1, <1>2, <1>3, <1>4 DEF SnapshotInv, s

(* The process that holds the run acts, the others resting.                *)
LEMMA OwnerActed ==
    ASSUME ProcsInv, NEW p \in Procs, p = owner, owner' = owner, Moved(p),
           procs'[p].pc \notin Creating \cup Resting => db'.run = "preparing",
           PlaceInv(procs[p])'
    PROVE  ProcsInv'
<1>1. \A o \in Procs : o # p => procs'[o].pc \in Resting
  BY DEF ProcsInv, Moved
<1>2. \A o \in Procs : o # p => PlaceInv(procs[o])'
  BY <1>1, RestingPlace DEF Resting, Empty
<1> QED
  BY <1>1, <1>2 DEF ProcsInv

LEMMA TickKeeps ==
    ASSUME Full, NEW p \in Procs, Tick(p) PROVE SetupInv'
<1>0. TypeInv /\ DataInv /\ ProcsInv
  BY DEF Full, Base, SetupInv
<1>1. owner = p /\ owner' = owner
  BY DEF Tick
<1> DEFINE y == procs'[p]
<1>2. /\ Polling /\ Moved(p)
      /\ chain'.soft = chain.soft /\ chain'.deep = chain.deep
      /\ db'.run \in {"preparing", "failed"}
      /\ \/ y.pc = "idle"
         \/ /\ y.pc \in {"pre", "mint", "approvals"} /\ db'.run = "preparing"
            /\ y.i = 1 /\ y.busy = 0 /\ y.st = Snapshot(db')
            /\ y.pc = "approvals" => Unminted(y.st) = {}
  BY <1>0, TickIs
<1>3. DataInv'
  BY <1>0, <1>2, DataPolled DEF ChainSame
<1>4. PlaceInv(procs[p])'
  <2>1. CASE y.pc \in {"idle", "pre"}
    BY <2>1, RestingPlace DEF Empty
  <2>2. CASE /\ y.pc \in {"mint", "approvals"}
             /\ y.i = 1 /\ y.busy = 0 /\ y.st = Snapshot(db')
             /\ y.pc = "approvals" => Unminted(y.st) = {}
    <3>1. SnapshotInv(procs[p].st)'
      BY <1>2, <1>3, <2>2, SnapshotTaken DEF Polling
    <3>2. ASSUME NEW k \in Left(y)
          PROVE  RowsOf(db'.rows, "mint", Order[k]) = {}
      <4>1. ~Sent(y.st, "mint", Order[k]) /\ Order[k] \in Parties /\ y.st.rows = db'.rows
        <5>1. k \in Unminted(y.st)
          BY DEF Left
        <5>2. k \in 1..2
          BY <5>1, UnmintedIs
        <5>3. Order[k] \in Parties
          BY <5>2, OrderIs DEF Parties
        <5> QED
          BY <2>2, <5>1, <5>3 DEF Unminted, Snapshot
      <4>2. \A l \in RowsOf(db'.rows, "mint", Order[k]) :
              db'.rows[l].status \in Gone
        BY <4>1 DEF Sent, Live, Rows, RowsOf
      <4>3. \A l \in RowsOf(db'.rows, "mint", Order[k]) :
              l \in DOMAIN db'.rows /\ db'.rows[l].kind = "mint"
        BY DEF RowsOf
      <4>4. Outlasting(db'.rows)
        BY <1>3 DEF DataInv
      <4> QED
        BY <4>2, <4>3, <4>4 DEF Outlasting, Gone
    <3>3. /\ Doing(y) = y.pc
          /\ \A j \in 1..(y.i - 1) : Sent(y.st, "approve", Order[j])
      BY <2>2 DEF Doing
    <3> HIDE DEF y
    <3> QED
      BY <2>2, <3>1, <3>2, <3>3 DEF PlaceInv, Reading, y
  <2> QED
    BY <1>2, <2>1, <2>2
<1>5. ProcsInv'
  <2>1. y.pc \notin Creating \cup Resting => db'.run = "preparing"
    BY <1>2 DEF Resting
  <2> QED
    BY <1>0, <1>1, <1>2, <1>4, <2>1, OwnerActed
<1> QED
  BY <1>2, <1>3, <1>5 DEF SetupInv, RunInv

-----------------------------------------------------------------------------
(* The steps around set-up: a run nobody is setting up, and what leaves a  *)
(* process where it is.                                                    *)
LEMMA Outside ==
    ASSUME DataInv', db'.run # "running",
           \A o \in Procs : procs'[o].pc \in Resting \/ (procs'[o].pc \in Creating /\ o = owner')
    PROVE  SetupInv'
<1>1. \A o \in Procs : procs'[o].pc \in Empty
  BY DEF Empty, Resting
<1>2. \A o \in Procs : PlaceInv(procs[o])'
  BY <1>1, RestingPlace
<1>3. ProcsInv'
  BY <1>2 DEF ProcsInv
<1> QED
  BY <1>3 DEF SetupInv, RunInv

(* While the run is being created, or was not.                             *)
LEMMA CreationOutside ==
    ASSUME Base', DataInv', db'.run \in {"creating", "refused"}
    PROVE  SetupInv'
<1>1. \A o \in Procs : procs'[o].pc \in Resting \/ (procs'[o].pc \in Creating /\ o = owner')
  BY DEF Base, CreationInv
<1> QED
  BY <1>1, Outside

LEMMA PlaceStays ==
    ASSUME TypeInv, NEW p \in Procs, PlaceInv(procs[p]), procs'[p] = procs[p], DataInv', Lasting,
           AgentsKept, \A kind, q : RowsOf(db'.rows, kind, q) = RowsOf(db.rows, kind, q)
    PROVE  PlaceInv(procs[p])'
<1>1. CASE procs[p].pc = "undo"
  BY <1>1, RestingPlace DEF Empty, Creating
<1>2. CASE procs[p].pc # "undo"
  <2>1. procs[p].i \in 1..2
    BY <1>2, PartyIs
  <2>2. SamePlace(p)
    BY DEF SamePlace
  <2> QED
    BY <2>1, <2>2, PlaceKept
<1> QED
  BY <1>1, <1>2

LEMMA Undisturbed ==
    ASSUME Full, DataInv', Lasting, AgentsKept, owner' = owner, db'.run = db.run,
           \A kind, q : RowsOf(db'.rows, kind, q) = RowsOf(db.rows, kind, q),
           \A o \in Procs : procs'[o] = procs[o] \/ procs'[o].pc \in Resting
    PROVE  SetupInv'
<1>0. TypeInv /\ ProcsInv /\ RunInv
  BY DEF Full, Base, SetupInv
<1>1. ASSUME NEW o \in Procs
      PROVE  /\ procs'[o].pc \notin Resting => o = owner'
             /\ procs'[o].pc \notin Creating \cup Resting => db'.run = "preparing"
             /\ PlaceInv(procs[o])'
  <2>1. CASE procs'[o] = procs[o]
    <3>1. PlaceInv(procs[o])
      BY <1>0 DEF ProcsInv
    <3>2. PlaceInv(procs[o])'
      BY <1>0, <2>1, <3>1, PlaceStays
    <3> QED
      BY <1>0, <2>1, <3>2 DEF ProcsInv
  <2>2. CASE procs'[o].pc \in Resting
    BY <2>2, RestingPlace DEF Resting, Empty
  <2> QED
    BY <1>1, <2>1, <2>2
<1>2. ProcsInv'
  BY <1>1 DEF ProcsInv
<1>3. RunInv'
  <2> SUFFICES ASSUME db'.run = "running" PROVE Opening' /\ \A q \in Parties : Bound(q)'
    BY DEF RunInv
  <2>1. Opening /\ \A q \in Parties : Bound(q)
    BY <1>0 DEF RunInv
  <2>2. chain.deep \subseteq chain'.deep /\ db'.event = db.event
    BY DEF Lasting
  <2> QED
    BY <2>1, <2>2, OpeningKept, BoundKept
<1> QED
  BY <1>2, <1>3 DEF SetupInv

LEMMA CreationKeeps ==
    ASSUME Full, Base', NEW p \in Procs, ProvisionAgent(p) \/ Undo(p) \/ Commit(p)
    PROVE  SetupInv'
<1>0. TypeInv /\ DataInv /\ db.run = "creating" /\ \A o \in Procs : o # p => procs[o].pc \in Resting
  BY OthersRest DEF Full, Base, SetupInv, ProvisionAgent, Undo, Commit, At, Creating
<1>1. /\ SameBut(db') /\ db'.rows = db.rows /\ chain' = chain
      /\ \/ db'.run \in {"creating", "refused"}
         \/ Commit(p) /\ db'.run = "draft"
  <2>1. CASE ProvisionAgent(p)
    BY <1>0, <2>1, DbSame DEF ProvisionAgent, TypeInv
  <2>2. CASE Undo(p)
    BY <1>0, <2>2, RunChanged DEF Undo, TypeInv
  <2>3. CASE Commit(p)
    BY <1>0, <2>3, RunChanged DEF Commit, TypeInv
  <2> QED
    BY <2>1, <2>2, <2>3
<1>2. DataInv'
  BY <1>0, <1>1, DataSame DEF ChainSame
<1>3. CASE db'.run \in {"creating", "refused"}
  BY <1>2, <1>3, CreationOutside
<1>4. CASE Commit(p) /\ db'.run = "draft"
  <2>1. Moved(p) /\ procs'[p].pc = "idle"
    BY <1>0, <1>4, YieldMoves DEF Commit, Onward
  <2>2. \A o \in Procs : procs'[o].pc \in Resting
    BY <1>0, <2>1 DEF Moved, Resting
  <2> QED
    BY <1>2, <1>4, <2>2, Outside
<1> QED
  BY <1>1, <1>3, <1>4

LEMMA NobodySetsUp ==
    ASSUME Full, db.run \notin {"creating", "preparing"}, NEW o \in Procs
    PROVE  procs[o].pc \in Resting
BY DEF Full, Base, SetupInv, ProcsInv, CreationInv

LEMMA OperatedKeeps ==
    ASSUME Full, NEW p \in Procs, Validate(p) \/ Start(p) PROVE SetupInv'
<1>0. TypeInv /\ DataInv
  BY DEF Full, Base, SetupInv
<1>1. /\ SameBut(db') /\ db'.rows = db.rows /\ db.run \in {"draft", "validated"}
      /\ db'.run # "running"
  BY <1>0, OperatedIs
<1>2. chain' = chain /\ procs' = procs
  BY DEF Validate, Start
<1>3. DataInv'
  BY <1>0, <1>1, <1>2, DataSame DEF ChainSame
<1>4. \A o \in Procs : procs'[o].pc \in Resting
  BY <1>1, <1>2, NobodySetsUp
<1> QED
  BY <1>1, <1>3, <1>4, Outside

LEMMA ResumeKeeps ==
    ASSUME Full, NEW p \in Procs, Resume(p) PROVE SetupInv'
<1>0. TypeInv /\ DataInv
  BY DEF Full, Base, SetupInv
<1>1. /\ RowsSent /\ db'.run = "preparing" /\ db.run = "recovery"
      /\ Moved(p) /\ procs'[p].pc = "idle"
  BY <1>0, ResumeIs
<1>2. chain' = chain
  BY DEF Resume
<1>3. DataInv'
  BY <1>0, <1>1, <1>2, DataSent DEF ChainSame
<1>4. \A o \in Procs : procs'[o].pc \in Resting
  BY <1>1, NobodySetsUp DEF Moved, Resting
<1> QED
  BY <1>1, <1>3, <1>4, Outside

(* No other process takes the run over.                                    *)
LEMMA RecoverKeeps ==
    ASSUME Full, "stall" \notin FaultKinds, NEW p \in Procs, Recover(p) PROVE SetupInv'
<1>0. TypeInv /\ DataInv
  BY DEF Full, Base, SetupInv
<1>1. /\ RowsSent /\ db'.run = db.run /\ owner' = owner /\ Moved(p) /\ procs'[p].pc = "idle"
  BY <1>0, RecoverIs
<1>2. chain' = chain /\ agents' = agents
  BY DEF Recover
<1>3. Lasting /\ ChainSame
  BY <1>0, <1>1, <1>2, LastingWhen DEF RowsSent
<1>4. DataInv'
  BY <1>0, <1>1, <1>3, DataSent
<1>5. \A kind, q : RowsOf(db'.rows, kind, q) = RowsOf(db.rows, kind, q)
  BY <1>1, SentRows DEF RowsSent
<1>6. \A o \in Procs : procs'[o] = procs[o] \/ procs'[o].pc \in Resting
  BY <1>1 DEF Moved, Resting
<1> QED
  BY <1>1, <1>2, <1>3, <1>4, <1>5, <1>6, Undisturbed DEF AgentsKept

(* A step that leaves the run's rows alone.                                *)
LEMMA RowsLeftKeeps ==
    ASSUME Full, db' = db, DataInv', chain.deep \subseteq chain'.deep, owner' = owner, AgentsKept,
           \A o \in Procs : procs'[o] = procs[o] \/ procs'[o].pc \in Resting
    PROVE  SetupInv'
<1>1. Lasting
  BY DEF Lasting, RowsGrow
<1> QED
  BY <1>1, Undisturbed

LEMMA CrashKeeps ==
    ASSUME Full, NEW p \in Procs, Crash(p) PROVE SetupInv'
<1>0. TypeInv /\ DataInv
  BY DEF Full, Base, SetupInv
<1>1. db' = db /\ chain' = chain /\ owner' = owner /\ agents' = agents
  BY DEF Crash
<1>2. \A o \in Procs : procs'[o] = procs[o] \/ procs'[o].pc \in Resting
  BY <1>0, CrashIs DEF Moved, Resting
<1>3. DataInv'
  BY <1>0, <1>1, DataSame, DbSame DEF ChainSame, TypeInv
<1> QED
  BY <1>1, <1>2, <1>3, RowsLeftKeeps DEF AgentsKept

LEMMA AgentRestartKeeps ==
    ASSUME Full, NEW q \in Parties, AgentRestart(q) PROVE SetupInv'
<1>0. TypeInv /\ DataInv
  BY DEF Full, Base, SetupInv
<1>1. db' = db /\ chain' = chain /\ owner' = owner /\ procs' = procs
  BY DEF AgentRestart
<1>2. AgentsKept
  BY <1>0 DEF AgentRestart, AgentsKept, TypeInv, Entry
<1>3. DataInv'
  BY <1>0, <1>1, DataSame, DbSame DEF ChainSame, TypeInv
<1> QED
  BY <1>1, <1>2, <1>3, RowsLeftKeeps

LEMMA LateKeeps ==
    ASSUME Full, Base', NEW q \in Parties, Late(q) PROVE SetupInv'
<1>0. TypeInv /\ DataInv /\ CreationInv
  BY DEF Full, Base, SetupInv
<1>1. db' = db /\ chain' = chain /\ agents[q].late
  BY DEF Late
<1>2. db'.run \in {"creating", "refused"}
  BY <1>0, <1>1 DEF CreationInv
<1>3. DataInv'
  BY <1>0, <1>1, DataSame, DbSame DEF ChainSame, TypeInv
<1> QED
  BY <1>2, <1>3, CreationOutside

LEMMA OnchainKeeps ==
    ASSUME Full, Onchain PROVE SetupInv'
<1>0. TypeInv /\ DataInv
  BY DEF Full, Base, SetupInv
<1>1. db' = db /\ procs' = procs /\ agents' = agents /\ owner' = owner
  BY <1>0, OnchainIs
<1>2. DataInv' /\ chain.deep \subseteq chain'.deep
  BY <1>0, DataOnchain
<1> QED
  BY <1>1, <1>2, RowsLeftKeeps DEF AgentsKept

-----------------------------------------------------------------------------
(* Set-up, for any fees, durations and faults but a takeover.              *)
LEMMA InitFull ==
    ASSUME Init PROVE Full
<1>1. Base
  BY InitBase
<1>2. db.rows = <<>> /\ db.session = NoSession /\ db.nonce = Cold /\ db.event = NoEvent
      /\ db.run = "creating" /\ DOMAIN <<>> = {}
  BY DEF Init
<1>3. chain.soft = {} /\ chain.deep = {}
  BY DEF Init
<1>4. Blocks = {}
  BY <1>3 DEF Blocks
<1>5. DataInv
  BY <1>2, <1>4 DEF DataInv, Outlasting, Unnumbered, MintedOnce, BlocksOfRows, OneOfEach, Did,
     Opened, ConfirmedInDeep, NonceAfterRow, Cold, SessionRows, Creates, RowsOf
<1>6. ASSUME NEW o \in Procs
      PROVE  (procs[o].pc = "idle" \/ (procs[o].pc = "provision" /\ o = owner))
  BY DEF Init, Process
<1>7. \A o \in Procs : Doing(procs[o]) \in Empty
  BY <1>6 DEF Doing, Empty, Creating
<1>8. \A o \in Procs : PlaceInv(procs[o])
  BY <1>7 DEF PlaceInv, Empty, Creating, Reading
<1>9. ProcsInv
  BY <1>6, <1>8 DEF ProcsInv, Resting, Creating
<1> QED
  BY <1>1, <1>2, <1>5, <1>9 DEF Full, SetupInv, RunInv

LEMMA FullStep ==
    ASSUME Full, "stall" \notin FaultKinds, [Next]_vars PROVE Full'
<1>1. Base'
  BY BaseStep DEF Full
<1>2. ASSUME NEW p \in Procs, Step(p)
      PROVE  SetupInv'
  <2>1. (ProvisionAgent(p) \/ Undo(p) \/ Commit(p)) \/ Tick(p) \/ SetupStep(p)
    BY <1>2 DEF Step, SetupStep
  <2> QED
    BY <1>1, <2>1, CreationKeeps, TickKeeps, SetupStepKeeps
<1>3. ASSUME NEW p \in Procs, (Validate(p) \/ Start(p)) \/ Resume(p) \/ Crash(p) \/ Recover(p)
      PROVE  SetupInv'
  BY <1>3, OperatedKeeps, ResumeKeeps, CrashKeeps, RecoverKeeps
<1>4. ASSUME NEW q \in Parties, Late(q) \/ AgentRestart(q)
      PROVE  SetupInv'
  BY <1>1, <1>4, LateKeeps, AgentRestartKeeps
<1>5. ASSUME Onchain
      PROVE  SetupInv'
  BY <1>5, OnchainKeeps
<1>6. ASSUME UNCHANGED vars
      PROVE  SetupInv'
  <2>1. TypeInv /\ DataInv /\ db' = db /\ chain' = chain /\ owner' = owner
        /\ agents' = agents /\ procs' = procs
    BY <1>6 DEF vars, Full, Base, SetupInv
  <2>2. DataInv'
    BY <2>1, DataSame, DbSame DEF ChainSame, TypeInv
  <2> QED
    BY <2>1, <2>2, RowsLeftKeeps DEF AgentsKept
<1>7. SetupInv'
  BY <1>2, <1>3, <1>4, <1>5, <1>6 DEF Next, Onchain
<1> QED
  BY <1>1, <1>7 DEF Full

LEMMA SetupKept ==
    ASSUME "stall" \notin FaultKinds
    PROVE  Spec => []Full
<1>1. Init => Full
  BY InitFull
<1>2. Full /\ [Next]_vars => Full'
  BY FullStep
<1> QED
  BY <1>1, <1>2, PTL DEF Spec

LEMMA OneAtMost ==
    ASSUME NEW S, IsFiniteSet(S), \A a, b \in S : a = b
    PROVE  Cardinality(S) <= 1
<1>1. CASE S = {}
  BY <1>1, FS_EmptySet
<1>2. CASE S # {}
  <2>1. PICK a \in S : TRUE
    BY <1>2
  <2>2. S = {a}
    BY <2>1
  <2> QED
    BY <2>2, FS_Singleton
<1> QED
  BY <1>1, <1>2

(* ADR-063 (SessionSetup.advance carries on from the rows): whatever was   *)
(* lost between sending and recording, by crashes, by agents' answers that *)
(* never came or by blocks taken back, each party was minted for and       *)
(* approved at most once, and the run has at most one session on chain.    *)
THEOREM EffectsHappenOnce ==
    ASSUME "stall" \notin FaultKinds
    PROVE  Spec => []EffectsOnce
<1>1. Full => EffectsOnce
  <2> SUFFICES ASSUME Full PROVE EffectsOnce
    OBVIOUS
  <2>0. TypeInv /\ MintedOnce /\ BlocksOfRows /\ OneOfEach
    BY DEF Full, Base, SetupInv, DataInv
  <2>1. ASSUME NEW q \in Parties
        PROVE  Cardinality(Did("mint", q)) <= 1 /\ Cardinality(Did("approve", q)) <= 1
    <3>1. ASSUME NEW b \in Did("mint", q), NEW c \in Did("mint", q)
          PROVE  b = c
      <4>1. /\ b \in Blocks /\ b.kind = "mint" /\ b.party = q
            /\ c \in Blocks /\ c.kind = "mint" /\ c.party = q
        BY DEF Did
      <4>2. b.row \in RowsOf(db.rows, "mint", q) /\ c.row \in RowsOf(db.rows, "mint", q)
        BY <2>0, <4>1 DEF BlocksOfRows, RowsOf
      <4>3. b.row = c.row
        BY <2>0, <4>2 DEF MintedOnce
      <4> QED
        BY <2>0, <4>1, <4>3 DEF BlocksOfRows
    <3>2. \A b, c \in Did("approve", q) : b = c
      BY <2>0 DEF OneOfEach
    <3>3. IsFiniteSet(Did("mint", q)) /\ IsFiniteSet(Did("approve", q))
      BY <2>0, DidFinite
    <3> QED
      BY <3>1, <3>2, <3>3, OneAtMost
  <2>2. Cardinality(Opened) <= 1
    <3>1. IsFiniteSet(Blocks)
      BY <2>0, FS_Union DEF TypeInv, ChainTyped, Blocks
    <3>2. Opened \subseteq Blocks
      BY DEF Opened
    <3>3. IsFiniteSet(Opened)
      BY <3>1, <3>2, FS_Subset
    <3> QED
      BY <2>0, <3>3, OneAtMost DEF OneOfEach
  <2> QED
    BY <2>1, <2>2 DEF EffectsOnce
<1> QED
  BY <1>1, SetupKept, PTL

(* _config, _open_session (the session is recorded before it is sent): any *)
(* createSession that can still take effect carries the session the run's  *)
(* row names, so the event the indexer looks for is the one it will find.  *)
THEOREM SentIsRecorded ==
    ASSUME "stall" \notin FaultKinds
    PROVE  Spec => []SessionSentIsRecorded
<1>1. Full => SessionSentIsRecorded
  BY DEF Full, SetupInv, DataInv, SessionRows, Creates, SessionSentIsRecorded, Live, Rows
<1> QED
  BY <1>1, SetupKept, PTL

(* ADR-044, ADR-048 (advance, at set-up's end): a run goes on only with    *)
(* its one session confirmed, every mint and approval confirmed, and both  *)
(* agents bound to that session; and none of it is undone while it runs,   *)
(* but by an agent that restarts.                                          *)
THEOREM RunsWhenReady ==
    ASSUME "stall" \notin FaultKinds
    PROVE  Spec => []RunningIsReady
<1>1. Full => RunningIsReady
  <2> SUFFICES ASSUME Full, db.run = "running"
               PROVE  /\ SessionConfirmed(db) /\ db.event.opened.id = db.session.id
                      /\ \A q \in Parties :
                           /\ Done("mint", q) /\ Done("approve", q)
                           /\ Bound(q)
    BY DEF RunningIsReady, Done, Bound
  <2>1. Opening /\ \A q \in Parties : Bound(q)
    BY DEF Full, SetupInv, RunInv
  <2>2. db.event # NoEvent
    BY <2>1 DEF Opening, SessionConfirmed
  <2>3. db.event.opened.id = db.session.id
    BY <2>2 DEF Full, SetupInv, DataInv, SessionRows
  <2> QED
    BY <2>1, <2>3 DEF Opening
<1> QED
  BY <1>1, SetupKept, PTL
=============================================================================
