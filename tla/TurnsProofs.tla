----------------------------- MODULE TurnsProofs -----------------------------
(***************************************************************************)
(* Theorems about Turns, for any processes, any number of turns and faults,*)
(* any deadline and any kinds of answers.                                  *)
(***************************************************************************)
EXTENDS Turns, SequenceTheorems, FiniteSetTheorems, TLAPS

Stages == {"driving", "paused", "recovery", "over"}
Words == {"none", "observing", "deciding", "broadcasting", "confirming",
          "confirmed", "model_failed", "execution_failed",
          "signed", "submitted", "included", "reverted"}
Counters == {"idle", "release", "look", "stale", "begin", "add", "ask", "sent",
             "submit", "mark", "follow", "provision", "approve"}

Blocks == [id : Nat, ok : BOOLEAN, done : Seq(Nat)]
Rows == [party : Parties, seq : Nat, obs : Observations, state : Words,
         done : BOOLEAN, decided : BOOLEAN, action : Nat, status : Words]
Data == [turns : Seq(Rows), stage : Stages, cause : BOOLEAN]
Places == [pc : Counters, turn : Nat, obs : Observations, snap : Words,
           restored : BOOLEAN]
Entries == [state : AgentStates, released : BOOLEAN, life : Nat,
            turns : [1..MaxTurns -> Nat]]

TypeInv ==
    /\ chain \in [blocks : Seq(Blocks), deep : Nat, time : Nat]
    /\ view \in [blocks : Seq(Blocks), deep : Nat]
    /\ db \in Data /\ Len(db.turns) <= MaxTurns
    /\ owner \in Procs
    /\ procs \in [Procs -> Places]
    /\ reqs \subseteq Requests
    /\ agents \in [Parties -> Entries]
    /\ answered \in Seq(Answers)
    /\ faults \in [left : Nat, takeover : BOOLEAN]

-----------------------------------------------------------------------------
(* The history.  A sequence of actions is lawful when each was kept, by a  *)
(* turn whose sequence number is its place.                                *)

LawfulIn(d, h) ==
    \A k \in 1..Len(h) :
        \E t \in DOMAIN d.turns :
            h[k] # 0 /\ d.turns[t].action = h[k] /\ d.turns[t].seq = k
Lawful(h) == LawfulIn(db, h)

(* Every block's state, and what the backend saw of the chain, is lawful.  *)
BlocksLawful(bs) == \A i \in 1..Len(bs) : Lawful(bs[i].done)

Known(id, obs) == id \in 1..Len(answered) /\ answered[id].obs = obs

(* A turn was begun on a lawful history, and what it kept is an answer to  *)
(* its observation.                                                        *)
TurnFollows(t) ==
    /\ Lawful(db.turns[t].obs.hist)
    /\ db.turns[t].seq = Len(db.turns[t].obs.hist) + 1
    /\ db.turns[t].action # 0 => Known(db.turns[t].action, db.turns[t].obs)
TurnsFollow == \A t \in 1..Len(db.turns) : TurnFollows(t)

(* The keys of the signed actions: one turn each (UNIQUE run, sequence).   *)
KeysApart ==
    \A t, u \in 1..Len(db.turns) :
        (t # u /\ db.turns[t].action # 0 /\ db.turns[u].action # 0)
            => db.turns[t].seq # db.turns[u].seq

AtTurn == {"stale", "ask", "sent", "submit", "mark", "follow", "provision",
           "approve"}
Observing == {"stale", "ask", "sent", "provision", "approve"}

(* What a process carries between its awaits.                              *)
FollowsIn(d, l) ==
    /\ l.pc = "add" => LawfulIn(d, l.obs.hist)
    /\ l.pc \in AtTurn => l.turn \in 1..Len(d.turns)
    /\ l.pc \in Observing => l.obs = d.turns[l.turn].obs
ProcsFollow == \A p \in Procs : FollowsIn(db, procs[p])

AsksIn(d, r) ==
    /\ r.turn \in 1..Len(d.turns)
    /\ r.obs = d.turns[r.turn].obs
ReqsFollow ==
    \A r \in reqs : /\ AsksIn(db, r)
                    /\ r.phase = "answered" => Known(r.answer, r.obs)

CacheKnown ==
    \A q \in Parties : \A t \in 1..MaxTurns :
        agents[q].turns[t] # 0 => agents[q].turns[t] \in 1..Len(answered)

AnswersFit ==
    \A a \in 1..Len(answered) :
        answered[a].seq = Len(answered[a].obs.hist) + 1

HistoryInv ==
    /\ TypeInv
    /\ BlocksLawful(chain.blocks) /\ BlocksLawful(view.blocks)
    /\ TurnsFollow
    /\ KeysApart
    /\ ProcsFollow
    /\ ReqsFollow
    /\ CacheKnown
    /\ AnswersFit

OneDeciding ==
    \A r, s \in reqs :
        (r.party = s.party /\ r.phase = "deciding" /\ s.phase = "deciding")
            => r = s

(* Until a takeover only the holder of the lease is between two steps.     *)
Alone == ~faults.takeover => \A p \in Procs : p # owner => procs[p].pc = "idle"

Holds(h, id) == \E k \in 1..Len(h) : h[k] = id

(* A mined action that took effect is in the state of every later block.   *)
DoneCovers(bs) ==
    \A i, j \in 1..Len(bs) :
        (i <= j /\ bs[i].ok /\ bs[i].id # 0) => Holds(bs[j].done, bs[i].id)

(* What is recorded as confirmed is in the view of the chain.              *)
ConfirmedIn(d, h) ==
    \A t \in 1..Len(d.turns) :
        (d.turns[t].action # 0 /\ d.turns[t].status = "confirmed")
            => Holds(h, d.turns[t].action)
ConfirmedSeen == ConfirmedIn(db, Offers(view.blocks))

(* Between the check and the insertion of a turn, no action is open at or  *)
(* past the turn's sequence.                                               *)
ClearIn(d, n) ==
    \A t \in 1..Len(d.turns) : d.turns[t].action # 0 =>
        /\ d.turns[t].status \in Settled
        /\ d.turns[t].status = "confirmed" => d.turns[t].seq <= n
ClearAhead ==
    ~faults.takeover =>
        \A p \in Procs :
            procs[p].pc = "add" => ClearIn(db, Len(procs[p].obs.hist))

DecisionInv ==
    /\ HistoryInv
    /\ DoneCovers(chain.blocks) /\ DoneCovers(view.blocks)
    /\ Alone
    /\ ConfirmedSeen
    /\ ClearAhead

-----------------------------------------------------------------------------
(* Edits of the rows.                                                      *)

(* e has the same turns as d, begun on the same observations and with the  *)
(* same actions; Edited: and with the same status of each.                 *)
SameTurns(d, e) ==
    /\ e \in Data
    /\ Len(e.turns) = Len(d.turns)
    /\ \A t \in 1..Len(d.turns) : /\ e.turns[t].party = d.turns[t].party
                                  /\ e.turns[t].obs = d.turns[t].obs
                                  /\ e.turns[t].seq = d.turns[t].seq
                                  /\ e.turns[t].action = d.turns[t].action
SameStatus(d, e) ==
    \A t \in 1..Len(d.turns) : e.turns[t].status = d.turns[t].status
Edited(d, e) == SameTurns(d, e) /\ SameStatus(d, e)

LEMMA DataFields ==
    ASSUME NEW d \in Data
    PROVE  /\ d.turns \in Seq(Rows) /\ Len(d.turns) \in Nat
           /\ DOMAIN d.turns = 1..Len(d.turns)
           /\ \A t \in 1..Len(d.turns) : d.turns[t] \in Rows
           /\ d.stage \in Stages /\ d.cause \in BOOLEAN
BY DEF Data

(* One row of the run replaced.                                            *)
LEMMA RowBecomes ==
    ASSUME NEW d \in Data, NEW t \in 1..Len(d.turns), NEW row \in Rows
    PROVE  LET e == [d EXCEPT !.turns[t] = row]
           IN  /\ e \in Data /\ e.stage = d.stage /\ e.cause = d.cause
               /\ Len(e.turns) = Len(d.turns) /\ e.turns[t] = row
               /\ \A u \in 1..Len(d.turns) : u # t => e.turns[u] = d.turns[u]
<1> DEFINE e == [d EXCEPT !.turns[t] = row]
           s == [d.turns EXCEPT ![t] = row]
<1>1. e = [d EXCEPT !.turns = s]
  BY DEF Data
<1>2. /\ s \in Seq(Rows) /\ Len(s) = Len(d.turns) /\ s[t] = row
      /\ \A u \in 1..Len(d.turns) : u # t => s[u] = d.turns[u]
  BY DataFields, ExceptSeq
<1> HIDE DEF s
<1>3. /\ e \in Data /\ e.stage = d.stage /\ e.cause = d.cause /\ e.turns = s
  BY <1>1, <1>2 DEF Data
<1> QED
  BY <1>2, <1>3

LEMMA RowEdits ==
    ASSUME NEW row \in Rows, NEW w \in Words, NEW a \in Nat
    PROVE  /\ [row EXCEPT !.state = w, !.done = TRUE] \in Rows
           /\ [row EXCEPT !.state = w] \in Rows
           /\ [row EXCEPT !.status = w] \in Rows
           /\ [row EXCEPT !.decided = TRUE] \in Rows
           /\ [row EXCEPT !.action = a, !.status = "signed",
                          !.state = "broadcasting"] \in Rows
BY DEF Rows, Words

LEMMA EditedKeeps ==
    ASSUME NEW d \in Data
    PROVE  /\ Edited(d, d)
           /\ \A e, f : Edited(d, e) /\ Edited(e, f) => Edited(d, f)
           /\ \A e, f : SameTurns(d, e) /\ Edited(e, f) => SameTurns(d, f)
BY DEF Edited, SameTurns, SameStatus

LEMMA FinishEdits ==
    ASSUME NEW d \in Data, NEW t \in 1..Len(d.turns), NEW w \in Words
    PROVE  Edited(d, Finish(d, t, w))
<1> DEFINE row == [d.turns[t] EXCEPT !.state = w, !.done = TRUE]
           e == [d EXCEPT !.turns[t] = row]
<1>1. d.turns[t] \in Rows
  BY DataFields
<1>2. row \in Rows
  BY <1>1, RowEdits
<1>3. /\ row.party = d.turns[t].party /\ row.obs = d.turns[t].obs
      /\ row.seq = d.turns[t].seq /\ row.action = d.turns[t].action
      /\ row.status = d.turns[t].status
  BY <1>1 DEF Rows
<1>4. Finish(d, t, w) = e
  BY <1>1 DEF Finish, Data
<1> HIDE DEF row
<1>5. /\ e \in Data /\ Len(e.turns) = Len(d.turns) /\ e.turns[t] = row
      /\ \A u \in 1..Len(d.turns) : u # t => e.turns[u] = d.turns[u]
  BY <1>2, RowBecomes
<1> HIDE DEF e
<1>6. Edited(d, e)
  BY <1>3, <1>5 DEF Edited, SameTurns, SameStatus
<1> QED
  BY <1>4, <1>6

LEMMA StateEdits ==
    ASSUME NEW d \in Data, NEW t \in 1..Len(d.turns), NEW w \in Words
    PROVE  Edited(d, [d EXCEPT !.turns[t].state = w])
<1> DEFINE row == [d.turns[t] EXCEPT !.state = w]
           e == [d EXCEPT !.turns[t] = row]
<1>1. d.turns[t] \in Rows
  BY DataFields
<1>2. row \in Rows
  BY <1>1, RowEdits
<1>3. /\ row.party = d.turns[t].party /\ row.obs = d.turns[t].obs
      /\ row.seq = d.turns[t].seq /\ row.action = d.turns[t].action
      /\ row.status = d.turns[t].status
  BY <1>1 DEF Rows
<1>4. [d EXCEPT !.turns[t].state = w] = e
  BY <1>1 DEF Data
<1> HIDE DEF row
<1>5. /\ e \in Data /\ Len(e.turns) = Len(d.turns) /\ e.turns[t] = row
      /\ \A u \in 1..Len(d.turns) : u # t => e.turns[u] = d.turns[u]
  BY <1>2, RowBecomes
<1> HIDE DEF e
<1>6. Edited(d, e)
  BY <1>3, <1>5 DEF Edited, SameTurns, SameStatus
<1> QED
  BY <1>4, <1>6

LEMMA KeptEdits ==
    ASSUME NEW d \in Data, NEW t \in 1..Len(d.turns)
    PROVE  Edited(d, Kept(d, t))
<1> DEFINE row == [d.turns[t] EXCEPT !.decided = TRUE]
           e == [d EXCEPT !.turns[t] = row]
<1>1. d.turns[t] \in Rows
  BY ZenonT(60), DataFields
<1>2. row \in Rows
  BY <1>1, RowEdits DEF Words
<1>3. /\ row.party = d.turns[t].party /\ row.obs = d.turns[t].obs
      /\ row.seq = d.turns[t].seq /\ row.action = d.turns[t].action
      /\ row.status = d.turns[t].status
  BY <1>1 DEF Rows
<1>4. Kept(d, t) = e
  BY <1>1 DEF Kept, Data
<1> HIDE DEF row
<1>5. /\ e \in Data /\ Len(e.turns) = Len(d.turns) /\ e.turns[t] = row
      /\ \A u \in 1..Len(d.turns) : u # t => e.turns[u] = d.turns[u]
  BY <1>2, RowBecomes
<1> HIDE DEF e
<1>6. Edited(d, e)
  BY <1>3, <1>5 DEF Edited, SameTurns, SameStatus
<1> QED
  BY <1>4, <1>6

(* Edits that touch no row.                                                *)
LEMMA RunEdits ==
    ASSUME NEW d \in Data, NEW s \in Stages
    PROVE  /\ Edited(d, [d EXCEPT !.stage = s])
           /\ Edited(d, RequestTermination(d))
           /\ Edited(d, Recovery(d))
BY DEF Edited, SameTurns, SameStatus, RequestTermination, Recovery, Data, Stages

LEMMA OpenTurnExists ==
    ASSUME NEW d \in Data, OpenTurn(d) # 0
    PROVE  OpenTurn(d) \in 1..Len(d.turns)
BY DataFields DEF OpenTurn

LEMMA CloseEdits ==
    ASSUME NEW d \in Data
    PROVE  Edited(d, Close(d))
<1> DEFINE t == OpenTurn(d)
           w == CASE d.turns[t].status = "confirmed" -> "confirmed"
                  [] d.turns[t].status = "reverted" -> "execution_failed"
                  [] OTHER -> d.turns[t].state
<1>1. CASE t = 0
  BY <1>1, EditedKeeps DEF Close
<1>2. CASE t # 0
  <2>1. t \in 1..Len(d.turns)
    BY <1>2, OpenTurnExists
  <2>2. d.turns[t].state \in Words
    BY <2>1, DataFields DEF Rows
  <2>3. w \in Words
    BY <2>2 DEF Words
  <2>4. Close(d) = Finish(d, t, w)
    BY <1>2 DEF Close
  <2> HIDE DEF t, w
  <2> QED
    BY <2>1, <2>3, <2>4, FinishEdits
<1> QED
  BY <1>1, <1>2

(* The status of one row.                                                  *)
LEMMA StatusEdits ==
    ASSUME NEW d \in Data, NEW t \in 1..Len(d.turns), NEW w \in Words
    PROVE  LET e == [d EXCEPT !.turns[t].status = w]
           IN  /\ SameTurns(d, e) /\ e.turns[t].status = w
               /\ \A u \in 1..Len(d.turns) :
                     u # t => e.turns[u].status = d.turns[u].status
<1> DEFINE row == [d.turns[t] EXCEPT !.status = w]
           e == [d EXCEPT !.turns[t] = row]
<1>1. d.turns[t] \in Rows
  BY DataFields
<1>2. row \in Rows
  BY <1>1, RowEdits
<1>3. /\ row.party = d.turns[t].party /\ row.obs = d.turns[t].obs
      /\ row.seq = d.turns[t].seq /\ row.action = d.turns[t].action
      /\ row.status = w
  BY <1>1 DEF Rows
<1>4. [d EXCEPT !.turns[t].status = w] = e
  BY <1>1 DEF Data
<1> HIDE DEF row
<1>5. /\ e \in Data /\ Len(e.turns) = Len(d.turns) /\ e.turns[t] = row
      /\ \A u \in 1..Len(d.turns) : u # t => e.turns[u] = d.turns[u]
  BY <1>2, RowBecomes
<1> HIDE DEF e
<1> QED
  BY SMTT(40), <1>3, <1>4, <1>5 DEF SameTurns

(* The rows of a signed action.                                            *)
LEMMA SignedRows ==
    ASSUME NEW d \in Data, NEW t \in 1..Len(d.turns), NEW a \in Nat
    PROVE  LET e == Signed(d, t, a)
           IN  /\ e \in Data /\ Len(e.turns) = Len(d.turns)
               /\ e.turns[t].party = d.turns[t].party
               /\ e.turns[t].obs = d.turns[t].obs
               /\ e.turns[t].seq = d.turns[t].seq
               /\ e.turns[t].action = a /\ e.turns[t].status = "signed"
               /\ \A u \in 1..Len(d.turns) : u # t =>
                    /\ e.turns[u].party = d.turns[u].party
                    /\ e.turns[u].obs = d.turns[u].obs
                    /\ e.turns[u].seq = d.turns[u].seq
                    /\ e.turns[u].action = d.turns[u].action
                    /\ e.turns[u].status = d.turns[u].status
<1> DEFINE k == Kept(d, t)
           row == [k.turns[t] EXCEPT !.action = a, !.status = "signed",
                                     !.state = "broadcasting"]
           e == [k EXCEPT !.turns[t] = row]
<1>1. Edited(d, k) /\ k \in Data
  BY KeptEdits DEF Edited, SameTurns
<1>2. Len(k.turns) = Len(d.turns) /\ k.turns[t] \in Rows
  BY <1>1, DataFields DEF Edited, SameTurns
<1>3. row \in Rows
  BY <1>2, RowEdits DEF Words
<1>4. /\ row.party = k.turns[t].party /\ row.obs = k.turns[t].obs
      /\ row.seq = k.turns[t].seq /\ row.action = a
      /\ row.status = "signed"
  BY <1>2 DEF Rows
<1>5. Signed(d, t, a) = e
  BY DEF Signed
<1> HIDE DEF row, k
<1>6. /\ e \in Data /\ Len(e.turns) = Len(k.turns) /\ e.turns[t] = row
      /\ \A u \in 1..Len(k.turns) : u # t => e.turns[u] = k.turns[u]
  BY <1>1, <1>2, <1>3, RowBecomes
<1> HIDE DEF e
<1> QED
  BY ZenonT(60), <1>1, <1>2, <1>4, <1>5, <1>6 DEF Edited, SameTurns, SameStatus

-----------------------------------------------------------------------------
(* Steps that keep every turn's observation and action and every answer.   *)
(* Each part of the state must stay what the history allows.               *)

ChainFine ==
    /\ chain' \in [blocks : Seq(Blocks), deep : Nat, time : Nat]
    /\ \A i \in 1..Len(chain'.blocks) : Lawful(chain'.blocks[i].done)
ViewFine ==
    /\ view' \in [blocks : Seq(Blocks), deep : Nat]
    /\ \A i \in 1..Len(view'.blocks) : Lawful(view'.blocks[i].done)
ProcsFine ==
    /\ procs' \in [Procs -> Places]
    /\ \A p \in Procs : FollowsIn(db, procs'[p])
ReqsFine ==
    /\ reqs' \subseteq Requests
    /\ \A r \in reqs' : /\ AsksIn(db, r)
                        /\ r.phase = "answered" => Known(r.answer, r.obs)
AgentsFine ==
    /\ agents' \in [Parties -> Entries]
    /\ \A q \in Parties : \A t \in 1..MaxTurns :
          agents'[q].turns[t] # 0 => agents'[q].turns[t] \in 1..Len(answered)
RestFine ==
    /\ owner' \in Procs
    /\ faults' \in [left : Nat, takeover : BOOLEAN]
    /\ answered' = answered

LEMMA SameFine ==
    ASSUME HistoryInv
    PROVE  /\ chain' = chain => ChainFine
           /\ view' = view => ViewFine
           /\ db' = db => SameTurns(db, db')
           /\ procs' = procs => ProcsFine
           /\ reqs' = reqs => ReqsFine
           /\ agents' = agents => AgentsFine
           /\ UNCHANGED <<owner, faults, answered>> => RestFine
<1>1. chain' = chain => ChainFine
  BY DEF HistoryInv, TypeInv, BlocksLawful, ChainFine
<1>2. view' = view => ViewFine
  BY DEF HistoryInv, TypeInv, BlocksLawful, ViewFine
<1>3. db' = db => SameTurns(db, db')
  BY DEF HistoryInv, TypeInv, SameTurns
<1>4. procs' = procs => ProcsFine
  BY DEF HistoryInv, TypeInv, ProcsFollow, ProcsFine
<1>5. reqs' = reqs => ReqsFine
  BY DEF HistoryInv, TypeInv, ReqsFollow, ReqsFine
<1>6. agents' = agents => AgentsFine
  BY DEF HistoryInv, TypeInv, CacheKnown, AgentsFine
<1>7. UNCHANGED <<owner, faults, answered>> => RestFine
  BY DEF HistoryInv, TypeInv, RestFine
<1> QED
  BY <1>1, <1>2, <1>3, <1>4, <1>5, <1>6, <1>7

(* What is lawful, or follows from the rows, survives an edit of them.     *)
LEMMA EditsKeepLawful ==
    ASSUME NEW d \in Data, NEW e, SameTurns(d, e)
    PROVE  /\ \A h : LawfulIn(d, h) => LawfulIn(e, h)
           /\ \A l : FollowsIn(d, l) => FollowsIn(e, l)
           /\ \A r : AsksIn(d, r) => AsksIn(e, r)
<1>1. DOMAIN d.turns = 1..Len(d.turns) /\ DOMAIN e.turns = 1..Len(d.turns)
  BY DataFields DEF SameTurns
<1>2. \A h : LawfulIn(d, h) => LawfulIn(e, h)
  BY SMTT(40), <1>1 DEF LawfulIn, SameTurns
<1>3. ASSUME NEW l, FollowsIn(d, l) PROVE FollowsIn(e, l)
  <2>1. l.pc = "add" => LawfulIn(e, l.obs.hist)
    BY <1>2, <1>3 DEF FollowsIn
  <2>2. l.pc \in AtTurn => l.turn \in 1..Len(e.turns)
    BY <1>3 DEF FollowsIn, SameTurns
  <2>3. l.pc \in Observing => l.turn \in 1..Len(d.turns)
    BY <1>3 DEF FollowsIn, Observing, AtTurn
  <2>4. l.pc \in Observing => l.obs = e.turns[l.turn].obs
    BY <1>3, <2>3 DEF FollowsIn, SameTurns
  <2> QED
    BY <2>1, <2>2, <2>4 DEF FollowsIn
<1>4. \A r : AsksIn(d, r) => AsksIn(e, r)
  BY DEF AsksIn, SameTurns
<1> QED
  BY <1>2, <1>3, <1>4

LEMMA QuietKeeps ==
    ASSUME HistoryInv, ChainFine, ViewFine, SameTurns(db, db'), ProcsFine,
           ReqsFine, AgentsFine, RestFine
    PROVE  HistoryInv'
<1>1. db \in Data /\ db' \in Data /\ Len(db'.turns) = Len(db.turns)
  BY DEF HistoryInv, TypeInv, SameTurns
<1>2. TypeInv'
  BY <1>1 DEF HistoryInv, TypeInv, ChainFine, ViewFine, ProcsFine, ReqsFine,
              AgentsFine, RestFine
<1>3. /\ \A h : LawfulIn(db, h) => LawfulIn(db', h)
      /\ \A l : FollowsIn(db, l) => FollowsIn(db', l)
      /\ \A r : AsksIn(db, r) => AsksIn(db', r)
  BY <1>1, EditsKeepLawful
<1>4. answered' = answered
  BY DEF RestFine
<1>5. BlocksLawful(chain.blocks)' /\ BlocksLawful(view.blocks)'
  BY <1>3 DEF ChainFine, ViewFine, BlocksLawful, Lawful
<1>6. TurnsFollow'
  <2>1. \A id, obs : Known(id, obs) => Known(id, obs)'
    BY <1>4 DEF Known
  <2>2. ASSUME NEW t \in 1..Len(db'.turns) PROVE TurnFollows(t)'
    <3>1. TurnFollows(t)
      BY <1>1 DEF HistoryInv, TurnsFollow
    <3>2. /\ db'.turns[t].obs = db.turns[t].obs
          /\ db'.turns[t].seq = db.turns[t].seq
          /\ db'.turns[t].action = db.turns[t].action
      BY <1>1 DEF SameTurns
    <3> QED
      BY <1>3, <2>1, <3>1, <3>2 DEF TurnFollows, Lawful
  <2> QED
    BY <2>2 DEF TurnsFollow
<1>7. KeysApart'
  BY <1>1 DEF HistoryInv, KeysApart, SameTurns
<1>8. ProcsFollow'
  BY <1>3 DEF ProcsFine, ProcsFollow
<1>9. ReqsFollow'
  BY <1>3, <1>4 DEF ReqsFine, ReqsFollow, Known
<1>10. CacheKnown' /\ AnswersFit'
  BY <1>4 DEF HistoryInv, AgentsFine, CacheKnown, AnswersFit
<1> QED
  BY <1>2, <1>5, <1>6, <1>7, <1>8, <1>9, <1>10 DEF HistoryInv

(* The moves of a process.                                                 *)
LEMMA StoppedPlace ==
    /\ Stopped \in Places
    /\ Stopped.pc = "idle"
    /\ \A d : FollowsIn(d, Stopped)
<1>1. << >> \in Seq(Nat)
  OBVIOUS
<1> QED
  BY <1>1 DEF Stopped, Places, Counters, Words, Observations, FollowsIn,
              AtTurn, Observing

LEMMA PlaceBecomes ==
    ASSUME HistoryInv, NEW p \in Procs, NEW l \in Places, FollowsIn(db, l),
           procs' = [procs EXCEPT ![p] = l]
    PROVE  /\ ProcsFine
           /\ procs'[p] = l
           /\ \A o \in Procs : o # p => procs'[o] = procs[o]
<1>1. procs \in [Procs -> Places]
  BY DEF HistoryInv, TypeInv
<1> QED
  BY <1>1 DEF HistoryInv, ProcsFollow, ProcsFine

LEMMA YieldFine ==
    ASSUME HistoryInv, NEW p \in Procs, Yield(p)
    PROVE  /\ ProcsFine
           /\ procs'[p].pc = "idle"
           /\ \A o \in Procs : o # p => procs'[o] = procs[o]
<1>1. procs' = [procs EXCEPT ![p] = Stopped]
  BY DEF Yield
<1> QED
  BY <1>1, StoppedPlace, PlaceBecomes

LEMMA GoFine ==
    ASSUME HistoryInv, NEW p \in Procs, NEW c \in Counters, Go(p, c),
           c # "add",
           c \in AtTurn => procs[p].pc \in AtTurn,
           c \in Observing => procs[p].pc \in Observing
    PROVE  /\ ProcsFine
           /\ procs'[p].pc = c
           /\ \A o \in Procs : o # p => procs'[o] = procs[o]
<1> DEFINE l == [procs[p] EXCEPT !.pc = c]
<1>1. procs[p] \in Places /\ FollowsIn(db, procs[p])
  BY DEF HistoryInv, TypeInv, ProcsFollow
<1>2. l \in Places /\ l.pc = c /\ l.turn = procs[p].turn /\ l.obs = procs[p].obs
  BY <1>1 DEF Places
<1>3. procs' = [procs EXCEPT ![p] = l]
  BY DEF Go
<1> HIDE DEF l
<1>4. FollowsIn(db, l)
  BY <1>1, <1>2 DEF FollowsIn
<1> QED
  BY <1>2, <1>3, <1>4, PlaceBecomes

-----------------------------------------------------------------------------
(* The driver's tick.                                                      *)

LEMMA Spelled ==
    ASSUME HistoryInv
    PROVE  /\ db \in Data /\ db.turns \in Seq(Rows) /\ Len(db.turns) \in Nat
           /\ DOMAIN db.turns = 1..Len(db.turns)
           /\ \A t \in 1..Len(db.turns) : db.turns[t] \in Rows
           /\ chain.blocks \in Seq(Blocks) /\ Len(chain.blocks) \in Nat
           /\ DOMAIN chain.blocks = 1..Len(chain.blocks)
           /\ chain.deep \in Nat /\ chain.time \in Nat
           /\ view.blocks \in Seq(Blocks) /\ Len(view.blocks) \in Nat
           /\ DOMAIN view.blocks = 1..Len(view.blocks)
           /\ view.deep \in Nat
           /\ answered \in Seq(Answers) /\ Len(answered) \in Nat
           /\ \A p \in Procs : procs[p] \in Places /\ FollowsIn(db, procs[p])
BY DataFields DEF HistoryInv, TypeInv, ProcsFollow

Polled ==
    [db EXCEPT !.turns = [t \in DOMAIN db.turns |->
        [db.turns[t] EXCEPT !.status = Mirrored(db.turns[t])]]]

LEMMA MirroredWord ==
    ASSUME NEW row \in Rows
    PROVE  Mirrored(row) \in Words
BY DEF Mirrored, Rows, Words

LEMMA PolledSame ==
    ASSUME HistoryInv
    PROVE  /\ SameTurns(db, Polled)
           /\ Polled.stage = db.stage /\ Polled.cause = db.cause
           /\ \A t \in 1..Len(db.turns) :
                 Polled.turns[t].status = Mirrored(db.turns[t])
<1> DEFINE row(t) == [db.turns[t] EXCEPT !.status = Mirrored(db.turns[t])]
           s == [t \in 1..Len(db.turns) |-> row(t)]
<1>1. ASSUME NEW t \in 1..Len(db.turns)
      PROVE  /\ row(t) \in Rows /\ row(t).party = db.turns[t].party
             /\ row(t).obs = db.turns[t].obs /\ row(t).seq = db.turns[t].seq
             /\ row(t).action = db.turns[t].action
             /\ row(t).status = Mirrored(db.turns[t])
  <2> DEFINE w == Mirrored(db.turns[t])
             x == db.turns[t]
  <2>1. x \in Rows /\ w \in Words
    BY Spelled, MirroredWord
  <2> HIDE DEF w, x
  <2>2. /\ [x EXCEPT !.status = w] \in Rows
        /\ [x EXCEPT !.status = w].party = x.party
        /\ [x EXCEPT !.status = w].obs = x.obs
        /\ [x EXCEPT !.status = w].seq = x.seq
        /\ [x EXCEPT !.status = w].action = x.action
        /\ [x EXCEPT !.status = w].status = w
    BY <2>1 DEF Rows
  <2> QED
    BY <2>2 DEF w, x
<1> HIDE DEF row
<1>2. s \in [1..Len(db.turns) -> Rows]
  BY <1>1
<1>3. s \in Seq(Rows) /\ Len(s) = Len(db.turns)
  BY <1>2, Spelled, SeqDef
<1>4. \A t \in 1..Len(db.turns) : s[t] = row(t)
  OBVIOUS
<1>5. Polled = [db EXCEPT !.turns = s]
  BY Spelled DEF Polled, row
<1> HIDE DEF s
<1>6. /\ Polled \in Data /\ Polled.turns = s
      /\ Polled.stage = db.stage /\ Polled.cause = db.cause
  BY <1>3, <1>5, Spelled DEF Data
<1> QED
  BY <1>1, <1>3, <1>4, <1>6 DEF SameTurns

LEMMA TickTurns ==
    ASSUME HistoryInv, NEW p \in Procs, Tick(p)
    PROVE  /\ SameTurns(db, db')
           /\ \A t \in 1..Len(db.turns) :
                 db'.turns[t].status = Mirrored(db.turns[t])
<1> DEFINE reorg == ~IsPrefix(view.blocks, chain.blocks)
           noted == IF reorg /\ Polled.stage = "driving"
                    THEN [Polled EXCEPT !.stage = "paused"] ELSE Polled
           over == Ended(SubSeq(chain.blocks, 1, chain.deep))
           ended == [Close(noted) EXCEPT !.stage = "over"]
<1>1. db' = IF over THEN ended ELSE noted
  BY DEF Tick, Polled
<1>2. /\ SameTurns(db, Polled) /\ Polled \in Data
      /\ \A t \in 1..Len(db.turns) :
            Polled.turns[t].status = Mirrored(db.turns[t])
  BY PolledSame DEF SameTurns
<1> HIDE DEF Polled, reorg, over
<1>3. Edited(Polled, noted)
  BY <1>2, RunEdits, EditedKeeps DEF Stages
<1>4. noted \in Data
  BY <1>3 DEF Edited, SameTurns
<1> HIDE DEF noted
<1>5. Edited(noted, Close(noted)) /\ Close(noted) \in Data
  BY <1>4, CloseEdits DEF Edited, SameTurns
<1>6. Edited(Close(noted), ended)
  BY <1>5, RunEdits DEF Stages
<1> HIDE DEF ended
<1>7. Edited(Polled, db')
  BY <1>1, <1>2, <1>3, <1>4, <1>5, <1>6, EditedKeeps
<1> QED
  BY SMTT(40), <1>2, <1>7, Spelled, EditedKeeps DEF Edited, SameTurns, SameStatus

LEMMA TickKeeps ==
    ASSUME HistoryInv, NEW p \in Procs, Tick(p)
    PROVE  HistoryInv'
<1>1. ViewFine
  <2>1. view' = [blocks |-> chain.blocks, deep |-> chain.deep]
    BY DEF Tick
  <2> QED
    BY SMTT(40), <2>1, Spelled DEF ViewFine, HistoryInv, BlocksLawful
<1>2. ProcsFine
  <2>1. PICK c \in {"release", "look", "idle"} : Go(p, c)
    BY DEF Tick
  <2> QED
    BY SMTT(40), <2>1, GoFine DEF Counters, AtTurn, Observing
<1> QED
  BY <1>1, <1>2, TickTurns, SameFine, QuietKeeps DEF Tick

-----------------------------------------------------------------------------
(* The turn executor's steps.                                              *)

LEMMA ReleaseKeeps ==
    ASSUME HistoryInv, NEW p \in Procs, ReleaseAgents(p)
    PROVE  HistoryInv'
<1>1. ProcsFine
  BY YieldFine DEF ReleaseAgents
<1>2. AgentsFine
  <2>1. PICK lost \in SUBSET Parties :
          agents' = [q \in Parties |->
               IF q \in lost THEN agents[q]
               ELSE [agents[q] EXCEPT !.released = TRUE, !.state = "released"]]
    BY DEF ReleaseAgents
  <2>2. ASSUME NEW q \in Parties
        PROVE  agents'[q] \in Entries /\ agents'[q].turns = agents[q].turns
    <3>1. agents[q] \in Entries
      BY DEF HistoryInv, TypeInv
    <3> QED
      BY <2>1, <3>1 DEF Entries, AgentStates
  <2>3. agents' \in [Parties -> Entries]
    BY <2>1, <2>2
  <2> QED
    BY <2>2, <2>3 DEF HistoryInv, CacheKnown, AgentsFine
<1> QED
  BY <1>1, <1>2, SameFine, QuietKeeps DEF ReleaseAgents

LEMMA LookKeeps ==
    ASSUME HistoryInv, NEW p \in Procs, Look(p)
    PROVE  HistoryInv'
<1> DEFINE t == OpenTurn(db)
           old == procs[p]
           l == CASE t = 0 -> [old EXCEPT !.pc = "begin"]
                  [] t # 0 /\ db.turns[t].action # 0 ->
                       [old EXCEPT !.pc = "follow", !.turn = t,
                                   !.snap = db.turns[t].status]
                  [] OTHER ->
                       [old EXCEPT !.pc = "stale", !.turn = t,
                                   !.obs = db.turns[t].obs,
                                   !.snap = db.turns[t].state]
<1>1. old \in Places /\ db \in Data
  BY Spelled
<1>2. t # 0 => /\ t \in 1..Len(db.turns) /\ t \in Nat /\ db.turns[t] \in Rows
               /\ db.turns[t].obs \in Observations
               /\ db.turns[t].state \in Words /\ db.turns[t].status \in Words
  <2>1. t # 0 => t \in 1..Len(db.turns)
    BY <1>1, OpenTurnExists
  <2> HIDE DEF t
  <2>2. t # 0 => t \in Nat
    BY <2>1
  <2>3. t # 0 => db.turns[t] \in Rows
    BY Zenon, <2>1, Spelled
  <2>4. \A row \in Rows : row.obs \in Observations /\ row.state \in Words /\ row.status \in Words
    BY DEF Rows
  <2> QED
    BY Zenon, <2>1, <2>2, <2>3, <2>4
<1>3. procs' = [procs EXCEPT ![p] = l]
  BY DEF Look
<1> HIDE DEF t
<1>4. CASE t = 0
  <2>1. l = [old EXCEPT !.pc = "begin"]
    BY <1>4
  <2>2. l \in Places /\ l.pc = "begin"
    BY <1>1, <2>1 DEF Places, Counters
  <2> HIDE DEF l
  <2>3. FollowsIn(db, l)
    BY <2>2 DEF FollowsIn, AtTurn, Observing
  <2> QED
    BY <1>3, <2>2, <2>3, PlaceBecomes, SameFine, QuietKeeps DEF Look
<1>5. CASE t # 0 /\ db.turns[t].action # 0
  <2>1. l = [old EXCEPT !.pc = "follow", !.turn = t,
                        !.snap = db.turns[t].status]
    BY <1>5
  <2>2. l \in Places /\ l.pc = "follow" /\ l.turn = t
    BY <1>1, <1>2, <1>5, <2>1 DEF Places, Counters
  <2> HIDE DEF l
  <2>3. FollowsIn(db, l)
    BY <1>2, <1>5, <2>2 DEF FollowsIn, AtTurn, Observing
  <2> QED
    BY <1>3, <2>2, <2>3, PlaceBecomes, SameFine, QuietKeeps DEF Look
<1>6. CASE t # 0 /\ db.turns[t].action = 0
  <2>1. l = [old EXCEPT !.pc = "stale", !.turn = t, !.obs = db.turns[t].obs,
                        !.snap = db.turns[t].state]
    BY <1>6
  <2>2. /\ l \in Places /\ l.pc = "stale" /\ l.turn = t
        /\ l.obs = db.turns[t].obs
    BY <1>1, <1>2, <1>6, <2>1 DEF Places, Counters
  <2> HIDE DEF l
  <2>3. FollowsIn(db, l)
    BY <1>2, <1>6, <2>2 DEF FollowsIn, AtTurn, Observing
  <2> QED
    BY <1>3, <2>2, <2>3, PlaceBecomes, SameFine, QuietKeeps DEF Look
<1> QED
  BY <1>4, <1>5, <1>6

LEMMA StaleKeeps ==
    ASSUME HistoryInv, NEW p \in Procs, Stale(p)
    PROVE  HistoryInv'
<1>1. /\ procs[p].pc = "stale" /\ procs[p].snap \in Words
      /\ procs[p].turn \in 1..Len(db.turns) /\ db \in Data
  BY Spelled DEF Stale, At, Places, FollowsIn, AtTurn
<1>2. \/ db' = Finish(db, procs[p].turn, procs[p].snap) /\ Yield(p)
      \/ db' = db /\ Go(p, "ask")
  BY DEF Stale, Asked
<1>3. SameTurns(db, db')
  BY <1>1, <1>2, FinishEdits, SameFine DEF Edited
<1>4. ProcsFine
  BY <1>1, <1>2, YieldFine, GoFine DEF Counters, AtTurn, Observing
<1> QED
  BY <1>3, <1>4, SameFine, QuietKeeps DEF Stale

LEMMA OffersLawful ==
    ASSUME NEW bs \in Seq(Blocks), BlocksLawful(bs)
    PROVE  /\ Offers(bs) \in Seq(Nat) /\ Len(Offers(bs)) \in Nat
           /\ Lawful(Offers(bs))
<1>1. CASE bs = << >>
  <2>1. Offers(bs) = << >>
    BY <1>1 DEF Offers
  <2> QED
    BY <2>1 DEF Lawful, LawfulIn
<1>2. CASE bs # << >>
  <2>1. Len(bs) \in 1..Len(bs)
    BY <1>2
  <2>2. bs[Len(bs)] \in Blocks
    BY <2>1
  <2>3. Offers(bs) = bs[Len(bs)].done
    BY <1>2 DEF Offers
  <2>4. Offers(bs) \in Seq(Nat)
    BY <2>2, <2>3 DEF Blocks
  <2> QED
    BY <2>1, <2>3, <2>4 DEF BlocksLawful
<1> QED
  BY <1>1, <1>2

(* What a lawful history names is an answer.                               *)
LEMMA LawfulKnown ==
    ASSUME HistoryInv, NEW h, Lawful(h), NEW k \in 1..Len(h)
    PROVE  /\ h[k] \in 1..Len(answered)
           /\ answered[h[k]] \in Answers
           /\ \E t \in 1..Len(db.turns) : /\ db.turns[t].action = h[k]
                                          /\ db.turns[t].seq = k
                                          /\ h[k] # 0
<1>1. PICK t \in DOMAIN db.turns :
          h[k] # 0 /\ db.turns[t].action = h[k] /\ db.turns[t].seq = k
  BY DEF Lawful, LawfulIn
<1>2. t \in 1..Len(db.turns)
  BY Spelled
<1>3. Known(h[k], db.turns[t].obs)
  BY <1>1, <1>2 DEF HistoryInv, TurnsFollow, TurnFollows
<1>4. answered \in Seq(Answers)
  BY Spelled
<1> QED
  BY <1>1, <1>2, <1>3, <1>4 DEF Known

LEMMA ObservedType ==
    ASSUME HistoryInv, NEW time \in Nat
    PROVE  /\ Observed(time) \in Observations
           /\ Observed(time).hist = Offers(view.blocks)
           /\ Lawful(Observed(time).hist)
<1> DEFINE hist == Offers(view.blocks)
           last == IF hist = <<>> THEN 0 ELSE answered[Last(hist)].until
<1>1. hist \in Seq(Nat) /\ Lawful(hist) /\ Len(hist) \in Nat
  BY Spelled, OffersLawful DEF HistoryInv
<1>2. last \in Nat
  <2>1. CASE hist # <<>>
    <3>1. Len(hist) \in 1..Len(hist) /\ Last(hist) = hist[Len(hist)]
      BY <1>1, <2>1 DEF Last
    <3>2. answered[Last(hist)] \in Answers
      BY <1>1, <3>1, LawfulKnown
    <3> QED
      BY <2>1, <3>2 DEF Answers
  <2> QED
    BY <2>1
<1>3. Observed(time) = [hist |-> hist, time |-> time,
                        until |-> IF last > time THEN last ELSE 0]
  BY DEF Observed
<1> HIDE DEF hist, last
<1> QED
  BY <1>1, <1>2, <1>3 DEF Observations, hist

LEMMA BeginKeeps ==
    ASSUME HistoryInv, NEW p \in Procs, Begin(p)
    PROVE  HistoryInv'
<1>1. CASE db' = RequestTermination(db) /\ Yield(p)
  <2>1. SameTurns(db, db')
    BY <1>1, RunEdits, Spelled DEF Edited, Stages
  <2> QED
    BY <1>1, <2>1, YieldFine, SameFine, QuietKeeps DEF Begin
<1>2. CASE UNCHANGED db /\ Yield(p)
  BY <1>2, YieldFine, SameFine, QuietKeeps DEF Begin
<1>3. CASE /\ procs' = [procs EXCEPT ![p].pc = "add",
                                     ![p].obs = Observed(chain.time)]
           /\ UNCHANGED db
  <2> DEFINE o == Observed(chain.time)
             l == [procs[p] EXCEPT !.pc = "add", !.obs = o]
  <2>1. procs[p] \in Places /\ procs \in [Procs -> Places]
    BY Spelled DEF HistoryInv, TypeInv
  <2>2. o \in Observations /\ Lawful(o.hist)
    BY Spelled, ObservedType
  <2> HIDE DEF o
  <2>3. procs' = [procs EXCEPT ![p] = l]
    BY <1>3, <2>1 DEF o
  <2>4. l \in Places /\ l.pc = "add" /\ l.obs = o
    BY <2>1, <2>2 DEF Places, Counters
  <2> HIDE DEF l
  <2>5. FollowsIn(db, l)
    BY <2>2, <2>4 DEF FollowsIn, AtTurn, Observing, Lawful
  <2> QED
    BY <1>3, <2>3, <2>4, <2>5, PlaceBecomes, SameFine, QuietKeeps DEF Begin
<1> QED
  BY <1>1, <1>2, <1>3 DEF Begin

LEMMA FewerFine ==
    ASSUME HistoryInv, reqs' \subseteq reqs
    PROVE  ReqsFine
BY DEF HistoryInv, TypeInv, ReqsFollow, ReqsFine

LEMMA AskKeeps ==
    ASSUME HistoryInv, NEW p \in Procs, Ask(p)
    PROVE  HistoryInv'
<1> DEFINE t == procs[p].turn
           old == procs[p]
           w == IF old.snap = "observing" THEN "deciding" ELSE old.snap
           l == [old EXCEPT !.pc = "sent", !.snap = w]
           r == [party |-> db.turns[t].party, turn |-> t, obs |-> old.obs,
                 from |-> p, phase |-> "sent", answer |-> 0, state |-> "none"]
<1>1. /\ old.pc = "ask" /\ old \in Places
      /\ t \in 1..Len(db.turns) /\ old.obs = db.turns[t].obs
      /\ db \in Data /\ db.turns[t] \in Rows
  BY SMTT(40), Spelled DEF Ask, At, FollowsIn, AtTurn, Observing
<1>2. SameTurns(db, db')
  BY <1>1, StateEdits, SameFine DEF Ask, Asked, Edited, Words
<1>3. ReqsFine
  <2>1. reqs' = reqs \cup {r}
    BY DEF Ask, Asked
  <2>2. t \in 1..MaxTurns
    BY <1>1, Spelled, BoundsAssumption DEF HistoryInv, TypeInv
  <2>3. r \in Requests
    BY <1>1, <2>2 DEF Requests, Rows, Places, Reasons
  <2>4. AsksIn(db, r) /\ r.phase = "sent"
    BY <1>1 DEF AsksIn
  <2> HIDE DEF r
  <2> QED
    BY <2>1, <2>3, <2>4 DEF HistoryInv, TypeInv, ReqsFollow, ReqsFine
<1>4. ProcsFine
  <2>1. procs' = [procs EXCEPT ![p] = l]
    BY DEF Ask
  <2>2. l \in Places /\ l.pc = "sent" /\ l.turn = t /\ l.obs = old.obs
    BY <1>1 DEF Places, Counters, Words
  <2> HIDE DEF l
  <2>3. FollowsIn(db, l)
    BY <1>1, <2>2 DEF FollowsIn, AtTurn, Observing
  <2> QED
    BY <2>1, <2>2, <2>3, PlaceBecomes
<1> QED
  BY <1>2, <1>3, <1>4, SameFine, QuietKeeps DEF Ask

(* A turn closed by the agent's refusal, and the run left to a person.     *)
LEMMA GivenUpEdits ==
    ASSUME HistoryInv, NEW p \in Procs, procs[p].pc \in AtTurn
    PROVE  /\ procs[p].turn \in 1..Len(db.turns)
           /\ Edited(db, Recovery(Finish(db, procs[p].turn, procs[p].snap)))
<1> DEFINE t == procs[p].turn
           e == Finish(db, t, procs[p].snap)
<1>1. t \in 1..Len(db.turns) /\ procs[p].snap \in Words /\ db \in Data
  BY Spelled DEF FollowsIn, Places
<1>2. Edited(db, e) /\ e \in Data
  BY <1>1, FinishEdits DEF Edited, SameTurns
<1> HIDE DEF e
<1>3. Edited(e, Recovery(e))
  BY <1>2, RunEdits DEF Stages
<1>4. Edited(db, Recovery(e))
  BY <1>1, <1>2, <1>3, EditedKeeps
<1> QED
  BY <1>1, <1>4 DEF e

LEMMA RefusedKeeps ==
    ASSUME HistoryInv, NEW p \in Procs, Refused(p)
    PROVE  HistoryInv'
<1>1. PICK r \in reqs :
        /\ Answer(p, r) /\ reqs' = reqs \ {r}
        /\ \/ Go(p, "provision") /\ UNCHANGED db
           \/ db' = Recovery(Finish(db, r.turn, procs[p].snap)) /\ Yield(p)
        /\ UNCHANGED <<chain, view, owner, agents, answered, faults>>
  BY DEF Refused
<1>2. procs[p].pc = "sent" /\ r.turn = procs[p].turn
  BY <1>1 DEF Answer, At, Asked
<1>3. SameTurns(db, db')
  BY <1>1, <1>2, GivenUpEdits, SameFine DEF Edited, AtTurn
<1>4. ProcsFine
  BY <1>1, <1>2, YieldFine, GoFine DEF Counters, AtTurn, Observing
<1>5. ReqsFine
  BY <1>1, FewerFine
<1> QED
  BY <1>1, <1>3, <1>4, <1>5, SameFine, QuietKeeps

LEMMA SubmitKeeps ==
    ASSUME HistoryInv, NEW p \in Procs, Submit(p)
    PROVE  HistoryInv'
<1> DEFINE t == procs[p].turn
           w == IF db.turns[t].status = "signed" THEN "submitted"
                ELSE db.turns[t].status
<1>1. /\ procs[p].pc = "submit" /\ t \in 1..Len(db.turns) /\ db \in Data
      /\ db.turns[t] \in Rows
  BY Spelled DEF Submit, At, FollowsIn, AtTurn
<1>2. w \in Words
  BY <1>1 DEF Rows, Words
<1>3. db' = [db EXCEPT !.turns[t].status = w]
  BY DEF Submit, Asked
<1> HIDE DEF w
<1>4. SameTurns(db, db')
  BY <1>1, <1>2, <1>3, StatusEdits
<1>5. ProcsFine
  BY <1>1, GoFine DEF Submit, Counters, AtTurn, Observing
<1> QED
  BY <1>4, <1>5, SameFine, QuietKeeps DEF Submit

LEMMA MarkKeeps ==
    ASSUME HistoryInv, NEW p \in Procs, MarkConfirming(p)
    PROVE  HistoryInv'
<1>1. procs[p].pc = "mark" /\ procs[p].turn \in 1..Len(db.turns) /\ db \in Data
  BY Spelled DEF MarkConfirming, At, FollowsIn, AtTurn
<1>2. SameTurns(db, db')
  BY <1>1, StateEdits DEF MarkConfirming, Asked, Edited, Words
<1>3. ProcsFine
  BY YieldFine DEF MarkConfirming
<1> QED
  BY <1>2, <1>3, SameFine, QuietKeeps DEF MarkConfirming

LEMMA FollowKeeps ==
    ASSUME HistoryInv, NEW p \in Procs, Follow(p)
    PROVE  HistoryInv'
<1> DEFINE t == procs[p].turn
           e == Finish(db, t, "execution_failed")
<1>1. procs[p].pc = "follow" /\ t \in 1..Len(db.turns) /\ db \in Data
  BY Spelled DEF Follow, At, FollowsIn, AtTurn
<1>2. \/ Go(p, "submit") /\ UNCHANGED db
      \/ db' = Finish(db, t, "confirmed") /\ Yield(p)
      \/ db' = RequestTermination(e) /\ Yield(p)
      \/ db' = [db EXCEPT !.turns[t].state = "confirming"] /\ Yield(p)
  BY DEF Follow, Asked
<1>3. ProcsFine
  BY <1>1, <1>2, YieldFine, GoFine DEF Counters, AtTurn, Observing
<1>4. SameTurns(db, db')
  <2>1. "confirmed" \in Words /\ "execution_failed" \in Words
        /\ "confirming" \in Words
    BY DEF Words
  <2>2. Edited(db, e) /\ e \in Data
    BY <1>1, <2>1, FinishEdits DEF Edited, SameTurns
  <2> HIDE DEF e
  <2>3. Edited(e, RequestTermination(e))
    BY <2>2, RunEdits DEF Stages
  <2>4. Edited(db, RequestTermination(e))
    BY <1>1, <2>2, <2>3, EditedKeeps
  <2>5. Edited(db, Finish(db, t, "confirmed"))
    BY <1>1, <2>1, FinishEdits
  <2>6. Edited(db, [db EXCEPT !.turns[t].state = "confirming"])
    BY <1>1, <2>1, StateEdits
  <2> QED
    BY <1>2, <2>4, <2>5, <2>6, SameFine DEF Edited
<1> QED
  BY <1>3, <1>4, SameFine, QuietKeeps DEF Follow

LEMMA EntryFine ==
    ASSUME HistoryInv, NEW q \in Parties, NEW w \in AgentStates,
           agents' = [agents EXCEPT ![q].state = w]
    PROVE  AgentsFine
<1>1. agents \in [Parties -> Entries] /\ agents[q] \in Entries
  BY DEF HistoryInv, TypeInv
<1> DEFINE x == [agents[q] EXCEPT !.state = w]
<1>2. x \in Entries /\ x.turns = agents[q].turns
  BY <1>1 DEF Entries
<1>3. agents' = [agents EXCEPT ![q] = x]
  BY <1>1
<1> HIDE DEF x
<1>4. agents' \in [Parties -> Entries]
  BY <1>1, <1>2, <1>3
<1>5. \A o \in Parties : agents'[o].turns = agents[o].turns
  BY <1>1, <1>2, <1>3
<1> QED
  BY <1>4, <1>5 DEF HistoryInv, CacheKnown, AgentsFine

LEMMA ReprovisionKeeps ==
    ASSUME HistoryInv, NEW p \in Procs, Reprovision(p)
    PROVE  HistoryInv'
<1> DEFINE q == db.turns[procs[p].turn].party
           w == IF agents[q].state = "unprovisioned" THEN "provisioned"
                ELSE agents[q].state
<1>1. procs[p].pc = "provision"
  BY DEF Reprovision, At
<1>2. procs[p].turn \in 1..Len(db.turns) /\ q \in Parties
  BY SMTT(30), <1>1, Spelled, GivenUpEdits DEF AtTurn, Rows
<1>3. \/ /\ db' = Recovery(Finish(db, procs[p].turn, procs[p].snap))
         /\ Yield(p) /\ UNCHANGED agents
      \/ /\ agents' = [agents EXCEPT ![q].state = w]
         /\ Go(p, "approve") /\ UNCHANGED db
  BY ZenonT(60) DEF Reprovision, Asked
<1>4. w \in AgentStates
  <2>1. agents[q] \in Entries
    BY <1>2 DEF HistoryInv, TypeInv
  <2> QED
    BY <2>1 DEF Entries, AgentStates
<1> HIDE DEF w, q
<1>5. SameTurns(db, db')
  BY <1>1, <1>3, GivenUpEdits, SameFine DEF Edited, AtTurn
<1>6. ProcsFine
  BY <1>1, <1>3, YieldFine, GoFine DEF Counters, AtTurn, Observing
<1>7. AgentsFine
  BY SMTT(40), <1>2, <1>3, <1>4, EntryFine, SameFine
<1> QED
  BY <1>5, <1>6, <1>7, SameFine, QuietKeeps DEF Reprovision

LEMMA ReapproveKeeps ==
    ASSUME HistoryInv, NEW p \in Procs, Reapprove(p)
    PROVE  HistoryInv'
<1> DEFINE q == db.turns[procs[p].turn].party
           l == [procs[p] EXCEPT !.pc = "ask", !.restored = TRUE]
<1>1. procs[p].pc = "approve" /\ procs[p] \in Places /\ FollowsIn(db, procs[p])
  BY Spelled DEF Reapprove, At
<1>2. procs[p].turn \in 1..Len(db.turns) /\ q \in Parties
  BY <1>1, Spelled, GivenUpEdits DEF AtTurn, Rows
<1>3. CASE /\ db' = Recovery(Finish(db, procs[p].turn, procs[p].snap))
           /\ Yield(p) /\ UNCHANGED agents
  <2>1. SameTurns(db, db')
    BY <1>1, <1>3, GivenUpEdits DEF Edited, AtTurn
  <2>2. ProcsFine
    BY <1>3, YieldFine
  <2> QED
    BY <1>3, <2>1, <2>2, SameFine, QuietKeeps DEF Reapprove
<1>4. CASE /\ agents' = [agents EXCEPT ![q].state = "approved"]
           /\ procs' = [procs EXCEPT ![p].pc = "ask", ![p].restored = TRUE]
           /\ UNCHANGED db
  <2>1. AgentsFine
    BY ZenonT(60), <1>2, <1>4, EntryFine DEF AgentStates
  <2>2. procs' = [procs EXCEPT ![p] = l]
    BY <1>1, <1>4 DEF HistoryInv, TypeInv
  <2>3. /\ l \in Places /\ l.pc = "ask" /\ l.turn = procs[p].turn
        /\ l.obs = procs[p].obs
    BY <1>1 DEF Places, Counters
  <2> HIDE DEF l
  <2>4. FollowsIn(db, l)
    BY <1>1, <2>3 DEF FollowsIn, AtTurn, Observing
  <2>5. ProcsFine
    BY <2>2, <2>3, <2>4, PlaceBecomes
  <2> QED
    BY ZenonT(60), <1>4, <2>1, <2>5, SameFine, QuietKeeps DEF Reapprove
<1> QED
  BY <1>3, <1>4 DEF Reapprove, Asked

-----------------------------------------------------------------------------
(* The agent's steps.                                                      *)

LEMMA BecomeFine ==
    ASSUME HistoryInv, NEW r \in reqs, NEW s \in Requests, Become(r, s),
           s.turn = r.turn, s.obs = r.obs,
           s.phase = "answered" => Known(s.answer, s.obs)
    PROVE  ReqsFine
<1>1. AsksIn(db, s)
  BY DEF HistoryInv, ReqsFollow, AsksIn
<1>2. reqs' \subseteq reqs \cup {s}
  BY DEF Become
<1> QED
  BY <1>1, <1>2 DEF HistoryInv, TypeInv, ReqsFollow, ReqsFine

Phases == {"sent", "queued", "deciding", "answered", "refused"}

LEMMA PhaseEdits ==
    ASSUME NEW r \in Requests, NEW w \in Phases
    PROVE  LET s == [r EXCEPT !.phase = w]
           IN  /\ s \in Requests /\ s.turn = r.turn /\ s.party = r.party
               /\ s.obs = r.obs /\ s.phase = w /\ s.answer = r.answer
BY DEF Requests, Phases

LEMMA RefusalEdits ==
    ASSUME NEW r \in Requests, NEW x \in AgentStates \cup Reasons
    PROVE  LET s == [r EXCEPT !.phase = "refused", !.state = x]
           IN  /\ s \in Requests /\ s.turn = r.turn /\ s.party = r.party
               /\ s.obs = r.obs /\ s.phase = "refused"
BY DEF Requests

LEMMA ReplyEdits ==
    ASSUME NEW r \in Requests, NEW n \in Nat
    PROVE  LET s == [r EXCEPT !.phase = "answered", !.answer = n]
           IN  /\ s \in Requests /\ s.turn = r.turn /\ s.party = r.party
               /\ s.obs = r.obs /\ s.phase = "answered" /\ s.answer = n
BY DEF Requests

LEMMA RefuseFine ==
    ASSUME HistoryInv, NEW r \in reqs, NEW x \in AgentStates \cup Reasons,
           Refuse(r, x)
    PROVE  ReqsFine
<1> DEFINE s == [r EXCEPT !.phase = "refused", !.state = x]
<1>1. r \in Requests
  BY DEF HistoryInv, TypeInv
<1>2. /\ s \in Requests /\ s.turn = r.turn /\ s.obs = r.obs
      /\ s.phase = "refused"
  BY <1>1, RefusalEdits
<1>3. Become(r, s)
  BY DEF Refuse
<1> HIDE DEF s
<1> QED
  BY <1>2, <1>3, BecomeFine

LEMMA WaitFine ==
    ASSUME HistoryInv, NEW r \in reqs, NEW w \in {"queued", "deciding"},
           Become(r, [r EXCEPT !.phase = w])
    PROVE  ReqsFine
<1> DEFINE s == [r EXCEPT !.phase = w]
<1>1. r \in Requests /\ w \in Phases
  BY DEF HistoryInv, TypeInv, Phases
<1>2. /\ s \in Requests /\ s.turn = r.turn /\ s.obs = r.obs
      /\ s.phase = w
  BY <1>1, PhaseEdits
<1> HIDE DEF s
<1> QED
  BY <1>2, BecomeFine DEF s

LEMMA TakeTurnFine ==
    ASSUME HistoryInv, NEW r \in reqs, TakeTurn(r)
    PROVE  ReqsFine
<1> DEFINE c == Cached(r)
           s == [r EXCEPT !.phase = "answered", !.answer = c]
<1>1. r \in Requests /\ r.party \in Parties /\ r.turn \in 1..MaxTurns
  BY DEF HistoryInv, TypeInv, Requests
<1>2. c \in Nat /\ (c # 0 => c \in 1..Len(answered))
  BY ZenonT(60), <1>1 DEF HistoryInv, TypeInv, CacheKnown, Cached, Entries
<1>3. \/ c # 0 /\ answered[c].obs = r.obs /\ Become(r, s)
      \/ Refuse(r, "idempotency_conflict")
      \/ Refuse(r, "session_deadline_passed")
      \/ Become(r, [r EXCEPT !.phase = "deciding"])
  BY DEF TakeTurn
<1>4. /\ s \in Requests /\ s.turn = r.turn /\ s.obs = r.obs
      /\ s.answer = c /\ s.phase = "answered"
  <2> HIDE DEF c
  <2> QED
    BY <1>1, <1>2, ReplyEdits
<1> HIDE DEF c, s
<1>5. CASE c # 0 /\ answered[c].obs = r.obs /\ Become(r, s)
  BY <1>2, <1>4, <1>5, BecomeFine DEF Known
<1> QED
  BY <1>3, <1>5, RefuseFine, WaitFine DEF Reasons

LEMMA ReceiveKeeps ==
    ASSUME HistoryInv, NEW r, Receive(r) \/ Dequeue(r)
    PROVE  HistoryInv'
<1>1. r \in reqs /\ r \in Requests
  BY DEF Receive, Dequeue, HistoryInv, TypeInv
<1>2. agents[r.party].state \in AgentStates
  BY <1>1 DEF HistoryInv, TypeInv, Requests, Entries
<1>3. \/ Refuse(r, agents[r.party].state)
      \/ TakeTurn(r)
      \/ Become(r, [r EXCEPT !.phase = "queued"])
  BY DEF Receive, Dequeue
<1>4. ReqsFine
  BY <1>1, <1>2, <1>3, RefuseFine, TakeTurnFine, WaitFine
<1> QED
  BY <1>4, SameFine, QuietKeeps DEF Receive, Dequeue

-----------------------------------------------------------------------------
(* The environment.                                                        *)

LEMMA AppendFacts ==
    ASSUME NEW S, NEW s \in Seq(S), NEW x \in S
    PROVE  /\ Append(s, x) \in Seq(S) /\ Len(Append(s, x)) = Len(s) + 1
           /\ Append(s, x)[Len(s) + 1] = x
           /\ \A i \in 1..Len(s) : Append(s, x)[i] = s[i]
OBVIOUS

(* A fault spends one of those left.                                       *)
LEMMA FaultTyped ==
    ASSUME HistoryInv, faults.left > 0,
           \/ faults' = [faults EXCEPT !.left = @ - 1]
           \/ faults' = [faults EXCEPT !.left = @ - 1, !.takeover = TRUE]
    PROVE  faults' \in [left : Nat, takeover : BOOLEAN]
<1>1. faults \in [left : Nat, takeover : BOOLEAN]
  BY DEF HistoryInv, TypeInv
<1>2. faults.left - 1 \in Nat
  BY <1>1
<1> QED
  BY <1>1, <1>2

LEMMA MinedLawful ==
    ASSUME HistoryInv, NEW id \in Nat, NEW ok \in BOOLEAN,
           chain' = [chain EXCEPT !.blocks = Mined(@, id, ok)],
           LET h == Offers(chain.blocks)
           IN  (ok /\ id # 0) =>
                 \E t \in 1..Len(db.turns) : /\ db.turns[t].action = id
                                             /\ db.turns[t].seq = Len(h) + 1
    PROVE  ChainFine
<1> DEFINE h == Offers(chain.blocks)
           n == Len(chain.blocks)
           done == IF ok /\ id # 0 THEN Append(h, id) ELSE h
           b == [id |-> id, ok |-> ok, done |-> done]
<1>1. /\ h \in Seq(Nat) /\ Len(h) \in Nat /\ Lawful(h)
      /\ chain.blocks \in Seq(Blocks) /\ n \in Nat
  BY Spelled, OffersLawful DEF HistoryInv
<1> HIDE DEF h
<1>2. done \in Seq(Nat) /\ b \in Blocks
  BY <1>1 DEF Blocks
<1>3. Lawful(done)
  <2>1. CASE ok /\ id # 0
    <3>1. /\ done = Append(h, id) /\ Len(done) = Len(h) + 1
          /\ done[Len(h) + 1] = id
          /\ \A k \in 1..Len(h) : done[k] = h[k]
      BY <1>1, <2>1
    <3>2. PICK t \in 1..Len(db.turns) : /\ db.turns[t].action = id
                                        /\ db.turns[t].seq = Len(h) + 1
      BY <2>1 DEF h
    <3>3. t \in DOMAIN db.turns
      BY Spelled
    <3> HIDE DEF done
    <3>4. ASSUME NEW k \in 1..Len(done)
          PROVE \E u \in DOMAIN db.turns :
                   /\ done[k] # 0 /\ db.turns[u].action = done[k]
                   /\ db.turns[u].seq = k
      <4>1. CASE k \in 1..Len(h)
        BY <1>1, <3>1, <4>1 DEF Lawful, LawfulIn
      <4>2. CASE k = Len(h) + 1
        BY <2>1, <3>1, <3>2, <3>3, <4>2
      <4> QED
        BY <1>1, <3>1, <4>1, <4>2
    <3> QED
      BY <3>4 DEF Lawful, LawfulIn
  <2>2. CASE ~(ok /\ id # 0)
    BY <1>1, <2>2
  <2> QED
    BY <2>1, <2>2
<1>4. b.done = done
  OBVIOUS
<1>5. chain'.blocks = Append(chain.blocks, b) /\ chain'.deep = chain.deep
      /\ chain'.time = chain.time
      /\ chain' = [chain EXCEPT !.blocks = Append(chain.blocks, b)]
  BY DEF HistoryInv, TypeInv, Mined, h
<1> HIDE DEF b, done
<1>6. /\ chain'.blocks \in Seq(Blocks) /\ Len(chain'.blocks) = n + 1
      /\ chain'.blocks[n + 1] = b
      /\ \A i \in 1..n : chain'.blocks[i] = chain.blocks[i]
  <2> DEFINE bs == chain.blocks
  <2>1. bs \in Seq(Blocks) /\ n = Len(bs) /\ chain'.blocks = Append(bs, b)
    BY <1>1, <1>5
  <2> HIDE DEF bs, n
  <2>2. /\ Append(bs, b) \in Seq(Blocks) /\ Len(Append(bs, b)) = Len(bs) + 1
        /\ Append(bs, b)[Len(bs) + 1] = b
        /\ \A i \in 1..Len(bs) : Append(bs, b)[i] = bs[i]
    BY <1>2, <2>1, AppendFacts
  <2> QED
    BY <2>1, <2>2 DEF bs
<1>7. chain' \in [blocks : Seq(Blocks), deep : Nat, time : Nat]
  BY <1>5, <1>6 DEF HistoryInv, TypeInv
<1>8. ASSUME NEW i \in 1..Len(chain'.blocks)
      PROVE  Lawful(chain'.blocks[i].done)
  <2>1. CASE i \in 1..n
    BY <1>6, <2>1 DEF HistoryInv, BlocksLawful
  <2>2. CASE i = n + 1
    BY <1>3, <1>4, <1>6, <2>2
  <2> QED
    BY <1>1, <1>6, <2>1, <2>2
<1> QED
  BY <1>7, <1>8 DEF ChainFine

LEMMA MineKeeps ==
    ASSUME HistoryInv, NEW t \in DOMAIN db.turns, Mine(t)
    PROVE  HistoryInv'
<1> DEFINE id == db.turns[t].action
           ok == Executable(answered[id])
<1>1. t \in 1..Len(db.turns) /\ id \in Nat /\ id # 0
  BY Spelled DEF Mine, Rows
<1>2. Known(id, db.turns[t].obs) /\ TurnFollows(t)
  BY <1>1 DEF HistoryInv, TurnsFollow, TurnFollows
<1>3. answered[id].seq = db.turns[t].seq
  BY <1>2 DEF HistoryInv, AnswersFit, Known, TurnFollows
<1>4. ok \in BOOLEAN /\ (ok => db.turns[t].seq = Len(Offers(chain.blocks)) + 1)
  BY <1>3 DEF Executable
<1>5. chain' = [chain EXCEPT !.blocks = Mined(@, id, ok)]
  BY DEF Mine
<1> HIDE DEF id, ok
<1>6. ChainFine
  BY <1>1, <1>4, <1>5, MinedLawful DEF id
<1> QED
  BY <1>6, SameFine, QuietKeeps DEF Mine

LEMMA MineEndKeeps ==
    ASSUME HistoryInv, MineEnd
    PROVE  HistoryInv'
<1>1. ChainFine
  BY MinedLawful DEF MineEnd
<1> QED
  BY <1>1, SameFine, QuietKeeps DEF MineEnd

LEMMA ReorgKeeps ==
    ASSUME HistoryInv, Reorg
    PROVE  HistoryInv'
<1> DEFINE n == Len(chain.blocks) - 1
           bs == SubSeq(chain.blocks, 1, n)
           deep == IF chain.deep > n THEN n ELSE chain.deep
<1>1. /\ chain.blocks \in Seq(Blocks) /\ Len(chain.blocks) \in Nat
      /\ chain.blocks # << >> /\ chain.deep \in Nat
  BY Spelled DEF Reorg
<1>2. n \in Nat /\ n < Len(chain.blocks)
  BY <1>1
<1>3. chain' = [chain EXCEPT !.blocks = bs, !.deep = deep]
  BY DEF Reorg
<1>4. bs \in Seq(Blocks) /\ Len(bs) = n
      /\ \A i \in 1..n : bs[i] = chain.blocks[i] /\ i \in 1..Len(chain.blocks)
  <2> HIDE DEF n
  <2>1. \A i \in 1..n : chain.blocks[i] \in Blocks
    BY <1>1, <1>2
  <2> QED
    BY <1>1, <1>2, <2>1, SubSeqProperties
<1>5. deep \in Nat
  BY <1>1, <1>2
<1> HIDE DEF bs, deep
<1>6. chain'.blocks = bs
      /\ chain' \in [blocks : Seq(Blocks), deep : Nat, time : Nat]
  BY <1>3, <1>4, <1>5 DEF HistoryInv, TypeInv
<1>7. ChainFine
  BY <1>4, <1>6 DEF HistoryInv, BlocksLawful, ChainFine
<1>8. RestFine
  BY SMTT(40) DEF Reorg, Inject, HistoryInv, TypeInv, RestFine
<1> QED
  BY <1>7, <1>8, SameFine, QuietKeeps DEF Reorg, Inject

LEMMA ClockKeeps ==
    ASSUME HistoryInv, Deepen \/ Pass
    PROVE  HistoryInv'
<1>1. /\ chain' \in [blocks : Seq(Blocks), deep : Nat, time : Nat]
      /\ chain'.blocks = chain.blocks
  BY DEF Deepen, Pass, HistoryInv, TypeInv
<1>2. ChainFine
  BY <1>1 DEF HistoryInv, BlocksLawful, ChainFine
<1> QED
  BY <1>2, SameFine, QuietKeeps DEF Deepen, Pass

LEMMA OperatorKeeps ==
    ASSUME HistoryInv, Resume \/ Abort
    PROVE  HistoryInv'
<1>1. SameTurns(db, db')
  BY RunEdits, Spelled DEF Resume, Abort, Edited, Stages
<1>2. RestFine
  BY SMTT(40) DEF Resume, Abort, Inject, HistoryInv, TypeInv, RestFine
<1> QED
  BY <1>1, <1>2, SameFine, QuietKeeps DEF Resume, Abort, Inject

LEMMA OrphanedFine ==
    ASSUME HistoryInv, NEW p \in Procs, reqs' = Orphaned(reqs, p)
    PROVE  ReqsFine
<1>1. ASSUME NEW r \in reqs'
      PROVE  \E s \in reqs : \/ r = s
                             \/ r = [s EXCEPT !.from = "nobody"]
  BY <1>1 DEF Orphaned
<1>2. ASSUME NEW s \in Requests
      PROVE  LET r == [s EXCEPT !.from = "nobody"]
             IN  /\ r \in Requests /\ r.turn = s.turn /\ r.obs = s.obs
                 /\ r.phase = s.phase /\ r.answer = s.answer
  BY DEF Requests
<1>3. ASSUME NEW r \in reqs'
      PROVE  /\ r \in Requests /\ AsksIn(db, r)
             /\ r.phase = "answered" => Known(r.answer, r.obs)
  <2>1. PICK s \in reqs : r = s \/ r = [s EXCEPT !.from = "nobody"]
    BY <1>1
  <2>2. s \in Requests
    BY DEF HistoryInv, TypeInv
  <2>3. /\ r \in Requests /\ r.turn = s.turn /\ r.obs = s.obs
        /\ r.phase = s.phase /\ r.answer = s.answer
    BY <1>2, <2>1, <2>2
  <2> QED
    BY <2>3 DEF HistoryInv, ReqsFollow, AsksIn
<1> QED
  BY <1>3 DEF ReqsFine

LEMMA TimeoutKeeps ==
    ASSUME HistoryInv, NEW p \in Procs, Timeout(p)
    PROVE  HistoryInv'
<1>1. SameTurns(db, db')
  BY RunEdits, Spelled, SameFine DEF Timeout, Edited, Stages
<1>2. ReqsFine /\ ProcsFine
  BY OrphanedFine, YieldFine DEF Timeout
<1>3. RestFine
  BY DEF Timeout, Inject, HistoryInv, TypeInv, RestFine
<1> QED
  BY <1>1, <1>2, <1>3, SameFine, QuietKeeps DEF Timeout

LEMMA CrashKeeps ==
    ASSUME HistoryInv, Crash
    PROVE  HistoryInv'
<1>1. owner \in Procs
  BY DEF HistoryInv, TypeInv
<1>2. ReqsFine /\ ProcsFine
  BY <1>1, OrphanedFine, YieldFine DEF Crash
<1>3. RestFine
  BY <1>1, FaultTyped DEF Crash, Inject, RestFine
<1> QED
  BY <1>2, <1>3, SameFine, QuietKeeps DEF Crash

LEMMA TakeOverKeeps ==
    ASSUME HistoryInv, NEW p \in Procs, TakeOver(p)
    PROVE  HistoryInv'
<1>1. RestFine
  BY FaultTyped DEF TakeOver, RestFine
<1> QED
  BY <1>1, SameFine, QuietKeeps DEF TakeOver

LEMMA FreshEntry ==
    ASSUME NEW n \in Nat
    PROVE  LET x == [Fresh(n + 1) EXCEPT !.state = "unprovisioned"]
           IN  x \in Entries /\ \A t \in 1..MaxTurns : x.turns[t] = 0
<1> DEFINE none == [t \in 1..MaxTurns |-> 0]
           m == n + 1
           y == Fresh(m)
           x == [y EXCEPT !.state = "unprovisioned"]
<1>1. none \in [1..MaxTurns -> Nat] /\ \A t \in 1..MaxTurns : none[t] = 0
  OBVIOUS
<1>2. m \in Nat
  OBVIOUS
<1> HIDE DEF m
<1>3. y = [state |-> "approved", released |-> FALSE, life |-> m, turns |-> none]
  BY DEF Fresh
<1> HIDE DEF none, y
<1>4. y \in Entries /\ y.turns = none
  BY <1>1, <1>2, <1>3 DEF Entries, AgentStates
<1>5. x \in Entries /\ x.turns = none
  BY <1>4 DEF Entries, AgentStates
<1> HIDE DEF x
<1>6. x \in Entries /\ \A t \in 1..MaxTurns : x.turns[t] = 0
  BY <1>1, <1>5
<1> QED
  BY <1>6 DEF x, y, m

LEMMA RestartKeeps ==
    ASSUME HistoryInv, NEW q \in Parties, AgentRestart(q)
    PROVE  HistoryInv'
<1> DEFINE gone == {r \in reqs : r.party = q}
<1>1. ReqsFine
  BY FewerFine DEF AgentRestart
<1>2. ProcsFine
  <2>1. procs' = [p \in Procs |-> IF \E r \in gone : r.from = p
                                  THEN Stopped ELSE procs[p]]
    BY DEF AgentRestart
  <2> HIDE DEF gone
  <2> QED
    BY <2>1, StoppedPlace, Spelled DEF ProcsFine
<1>3. AgentsFine
  <2> DEFINE x == [Fresh(agents[q].life + 1) EXCEPT !.state = "unprovisioned"]
  <2>1. agents \in [Parties -> Entries] /\ agents[q].life \in Nat
    BY DEF HistoryInv, TypeInv, Entries
  <2>2. x \in Entries /\ \A t \in 1..MaxTurns : x.turns[t] = 0
    BY <2>1, FreshEntry
  <2>3. agents' = [agents EXCEPT ![q] = x]
    BY DEF AgentRestart
  <2> HIDE DEF x
  <2> QED
    BY <2>1, <2>2, <2>3 DEF HistoryInv, CacheKnown, AgentsFine
<1>4. RestFine
  BY FaultTyped DEF AgentRestart, Inject, RestFine, HistoryInv, TypeInv
<1> QED
  BY <1>1, <1>2, <1>3, <1>4, SameFine, QuietKeeps DEF AgentRestart

-----------------------------------------------------------------------------
(* Steps that add to the history: a turn, an action, an answer.            *)

Grows(d, e) ==
    /\ e \in Data
    /\ Len(d.turns) <= Len(e.turns)
    /\ \A t \in 1..Len(d.turns) :
          /\ e.turns[t].obs = d.turns[t].obs
          /\ e.turns[t].seq = d.turns[t].seq
          /\ d.turns[t].action # 0 => e.turns[t].action = d.turns[t].action

LEMMA GrowthKeepsLawful ==
    ASSUME NEW d \in Data, NEW e, Grows(d, e)
    PROVE  /\ \A h : LawfulIn(d, h) => LawfulIn(e, h)
           /\ \A l : FollowsIn(d, l) => FollowsIn(e, l)
           /\ \A r : AsksIn(d, r) => AsksIn(e, r)
<1>1. /\ DOMAIN d.turns = 1..Len(d.turns) /\ DOMAIN e.turns = 1..Len(e.turns)
      /\ Len(d.turns) \in Nat /\ Len(e.turns) \in Nat
      /\ Len(d.turns) <= Len(e.turns)
      /\ \A t \in 1..Len(d.turns) : t \in 1..Len(e.turns)
  BY DataFields DEF Grows
<1>2. ASSUME NEW h, LawfulIn(d, h) PROVE LawfulIn(e, h)
  <2>1. ASSUME NEW k \in 1..Len(h)
        PROVE  \E t \in DOMAIN e.turns :
                  h[k] # 0 /\ e.turns[t].action = h[k] /\ e.turns[t].seq = k
    <3>1. PICK t \in DOMAIN d.turns :
              h[k] # 0 /\ d.turns[t].action = h[k] /\ d.turns[t].seq = k
      BY <1>2 DEF LawfulIn
    <3> QED
      BY <1>1, <3>1 DEF Grows
  <2> QED
    BY <2>1 DEF LawfulIn
<1>3. ASSUME NEW l, FollowsIn(d, l) PROVE FollowsIn(e, l)
  <2>1. l.pc = "add" => LawfulIn(e, l.obs.hist)
    BY <1>2, <1>3 DEF FollowsIn
  <2>2. l.pc \in AtTurn => l.turn \in 1..Len(e.turns)
    BY <1>1, <1>3 DEF FollowsIn
  <2>3. l.pc \in Observing => l.turn \in 1..Len(d.turns)
    BY <1>3 DEF FollowsIn, Observing, AtTurn
  <2>4. l.pc \in Observing => l.obs = e.turns[l.turn].obs
    BY <1>3, <2>3 DEF FollowsIn, Grows
  <2> QED
    BY <2>1, <2>2, <2>4 DEF FollowsIn
<1>4. \A r : AsksIn(d, r) => AsksIn(e, r)
  BY <1>1 DEF AsksIn, Grows
<1> QED
  BY <1>2, <1>3, <1>4

LEMMA GrowthKeeps ==
    ASSUME HistoryInv, Grows(db, db'), Len(db'.turns) <= MaxTurns,
           UNCHANGED <<chain, view, owner, agents, answered, faults>>,
           reqs' \subseteq reqs,
           procs' \in [Procs -> Places],
           \A p \in Procs : FollowsIn(db', procs'[p]),
           KeysApart',
           \A t \in 1..Len(db'.turns) :
              \/ /\ t \in 1..Len(db.turns)
                 /\ db'.turns[t].action = db.turns[t].action
              \/ TurnFollows(t)'
    PROVE  HistoryInv'
<1>1. db \in Data /\ db' \in Data
  BY DEF HistoryInv, TypeInv, Grows
<1>2. TypeInv'
  BY <1>1 DEF HistoryInv, TypeInv
<1>3. /\ \A h : LawfulIn(db, h) => LawfulIn(db', h)
      /\ \A r : AsksIn(db, r) => AsksIn(db', r)
  BY <1>1, GrowthKeepsLawful
<1>4. BlocksLawful(chain.blocks)' /\ BlocksLawful(view.blocks)'
  BY <1>3 DEF HistoryInv, BlocksLawful, Lawful
<1>5. \A id, obs : Known(id, obs) => Known(id, obs)'
  BY DEF Known
<1>6. TurnsFollow'
  <2>1. ASSUME NEW t \in 1..Len(db.turns), t \in 1..Len(db'.turns),
               db'.turns[t].action = db.turns[t].action
        PROVE  TurnFollows(t)'
    <3>1. TurnFollows(t)
      BY DEF HistoryInv, TurnsFollow
    <3>2. /\ db'.turns[t].obs = db.turns[t].obs
          /\ db'.turns[t].seq = db.turns[t].seq
      BY DEF Grows
    <3> QED
      BY <1>3, <1>5, <2>1, <3>1, <3>2 DEF TurnFollows, Lawful
  <2> QED
    BY <2>1 DEF TurnsFollow
<1>7. ProcsFollow'
  BY DEF ProcsFollow
<1>8. ReqsFollow'
  BY <1>3, <1>5 DEF HistoryInv, ReqsFollow
<1>9. CacheKnown' /\ AnswersFit'
  BY DEF HistoryInv, CacheKnown, AnswersFit
<1> QED
  BY <1>2, <1>4, <1>6, <1>7, <1>8, <1>9 DEF HistoryInv

(* The new turn's row.                                                     *)
LEMMA AddTurnRow ==
    ASSUME HistoryInv, NEW p \in Procs, AddTurn(p)
    PROVE  /\ db' \in Data
           /\ Len(db'.turns) = Len(db.turns) + 1 /\ Len(db'.turns) <= MaxTurns
           /\ db'.turns[Len(db.turns) + 1].obs = procs[p].obs
           /\ db'.turns[Len(db.turns) + 1].seq = Len(procs[p].obs.hist) + 1
           /\ db'.turns[Len(db.turns) + 1].action = 0
           /\ \A t \in 1..Len(db.turns) : db'.turns[t] = db.turns[t]
           /\ procs[p].obs.hist \in Seq(Nat) /\ Lawful(procs[p].obs.hist)
<1> DEFINE o == procs[p].obs
           row == [party |-> PartyOf(o), seq |-> Len(o.hist) + 1, obs |-> o,
                   state |-> "observing", done |-> FALSE, decided |-> FALSE,
                   action |-> 0, status |-> "none"]
           ts == db.turns
           s == Append(ts, row)
<1>1. /\ procs[p] \in Places /\ procs[p].pc = "add" /\ FollowsIn(db, procs[p])
  BY Spelled DEF AddTurn, At
<1>2. o \in Observations /\ Lawful(o.hist)
  BY <1>1 DEF Places, FollowsIn, Lawful
<1>3. o.hist \in Seq(Nat) /\ Len(o.hist) \in Nat
  BY <1>2 DEF Observations
<1>4. /\ db \in Data /\ ts \in Seq(Rows) /\ Len(ts) \in Nat
      /\ Len(ts) < MaxTurns
  BY Spelled DEF AddTurn
<1>5. row \in Rows /\ row.obs = o /\ row.seq = Len(o.hist) + 1 /\ row.action = 0
  <2> HIDE DEF o
  <2>1. PartyOf(o) \in Parties
    BY DEF PartyOf, Parties
  <2> QED
    BY <1>2, <1>3, <2>1 DEF Rows, Words
<1>6. db' = [db EXCEPT !.turns = s]
  BY DEF AddTurn
<1> HIDE DEF row, ts, o
<1>7. /\ s \in Seq(Rows) /\ Len(s) = Len(ts) + 1 /\ s[Len(ts) + 1] = row
      /\ \A t \in 1..Len(ts) : s[t] = ts[t]
  BY <1>4, <1>5, AppendFacts
<1> HIDE DEF s
<1>8. db' \in Data /\ db'.turns = s
  BY <1>4, <1>6, <1>7 DEF Data
<1>9. Len(s) <= MaxTurns
  BY <1>4, <1>7, BoundsAssumption
<1> QED
  BY <1>2, <1>3, <1>5, <1>7, <1>8, <1>9 DEF ts, o

LEMMA AddTurnKeeps ==
    ASSUME HistoryInv, NEW p \in Procs, AddTurn(p)
    PROVE  HistoryInv'
<1>1. PICK m \in Nat : m = Len(db.turns) + 1
  BY Spelled
<1> DEFINE o == procs[p].obs
           l == [procs[p] EXCEPT !.pc = "ask", !.turn = m,
                                 !.snap = "observing"]
<1>2. /\ db' \in Data /\ Len(db'.turns) = m /\ m <= MaxTurns
      /\ db'.turns[m].obs = o /\ db'.turns[m].seq = Len(o.hist) + 1
      /\ db'.turns[m].action = 0
      /\ \A t \in 1..Len(db.turns) : db'.turns[t] = db.turns[t]
      /\ Lawful(o.hist)
  BY <1>1, AddTurnRow
<1>3. /\ procs[p] \in Places /\ procs \in [Procs -> Places]
      /\ db \in Data /\ Len(db.turns) \in Nat
  BY Spelled DEF HistoryInv, TypeInv
<1>4. /\ procs' = [procs EXCEPT ![p] = l]
      /\ UNCHANGED <<chain, view, owner, reqs, agents, answered, faults>>
  BY <1>1 DEF AddTurn
<1>5. l \in Places /\ l.pc = "ask" /\ l.turn = m /\ l.obs = o
  BY <1>3 DEF Places, Counters, Words
<1> HIDE DEF l, o
<1>6. Grows(db, db')
  BY <1>1, <1>2, <1>3 DEF Grows
<1>7. /\ \A h : LawfulIn(db, h) => LawfulIn(db', h)
      /\ \A k : FollowsIn(db, k) => FollowsIn(db', k)
  BY <1>3, <1>6, GrowthKeepsLawful
<1>8. FollowsIn(db', l)
  BY <1>1, <1>2, <1>3, <1>5 DEF FollowsIn, AtTurn, Observing
<1>9. /\ procs' \in [Procs -> Places]
      /\ \A q \in Procs : FollowsIn(db', procs'[q])
  BY <1>3, <1>4, <1>5, <1>7, <1>8, Spelled
<1>10. TurnFollows(m)'
  BY <1>2, <1>7 DEF TurnFollows, Lawful
<1>11. \A t \in 1..m : t = m \/ t \in 1..Len(db.turns)
  BY <1>1, <1>3
<1>12. KeysApart'
  BY SMTT(40), <1>2, <1>11 DEF HistoryInv, KeysApart
<1>13. \A t \in 1..Len(db'.turns) :
          \/ /\ t \in 1..Len(db.turns)
             /\ db'.turns[t].action = db.turns[t].action
          \/ TurnFollows(t)'
  BY <1>2, <1>10, <1>11
<1> QED
  BY <1>2, <1>4, <1>6, <1>9, <1>12, <1>13, GrowthKeeps

(* The answer's rows, when a signed action is kept.                        *)
LEMMA SignedKeeps ==
    ASSUME HistoryInv, NEW p \in Procs, NEW r \in reqs, r.phase = "answered",
           ~Taken(db, r.turn), db' = Signed(db, r.turn, r.answer),
           Go(p, "submit"), procs[p].pc \in AtTurn,
           reqs' = reqs \ {r},
           UNCHANGED <<chain, view, owner, agents, answered, faults>>
    PROVE  HistoryInv'
<1> DEFINE t == r.turn
           a == r.answer
<1>1. /\ t \in 1..Len(db.turns) /\ r.obs = db.turns[t].obs
      /\ Known(a, r.obs) /\ db \in Data
  BY Spelled DEF HistoryInv, ReqsFollow, AsksIn
<1>2. a \in Nat /\ a # 0
  BY <1>1, Spelled DEF Known
<1>3. \A u \in 1..Len(db.turns) :
          db.turns[u].action # 0 => db.turns[u].seq # db.turns[t].seq
  BY Spelled DEF Taken
<1> HIDE DEF t, a
<1>4. db' = Signed(db, t, a)
  BY DEF t, a
<1>5. /\ db' \in Data /\ Len(db'.turns) = Len(db.turns)
      /\ db'.turns[t].obs = db.turns[t].obs
      /\ db'.turns[t].seq = db.turns[t].seq
      /\ db'.turns[t].action = a
      /\ \A u \in 1..Len(db.turns) : u # t =>
            /\ db'.turns[u].obs = db.turns[u].obs
            /\ db'.turns[u].seq = db.turns[u].seq
            /\ db'.turns[u].action = db.turns[u].action
  BY <1>1, <1>2, <1>4, SignedRows
<1>6. db.turns[t].action = 0
  BY <1>1, <1>3
<1>7. Grows(db, db')
  BY <1>1, <1>5, <1>6, Spelled DEF Grows
<1>8. /\ \A h : LawfulIn(db, h) => LawfulIn(db', h)
      /\ \A k : FollowsIn(db, k) => FollowsIn(db', k)
  BY <1>1, <1>7, GrowthKeepsLawful
<1>9. KeysApart'
  BY SMTT(40), <1>3, <1>5 DEF HistoryInv, KeysApart
<1>10. TurnFollows(t)'
  <2>1. TurnFollows(t)
    BY <1>1 DEF HistoryInv, TurnsFollow
  <2>2. Known(a, db.turns[t].obs)'
    BY <1>1, <1>5 DEF Known
  <2> QED
    BY <1>5, <1>8, <2>1, <2>2 DEF TurnFollows, Lawful, Known
<1>11. /\ procs' \in [Procs -> Places]
       /\ \A q \in Procs : FollowsIn(db', procs'[q])
  <2>1. ProcsFine
    BY GoFine DEF Counters, AtTurn, Observing
  <2> QED
    BY <1>8, <2>1 DEF ProcsFine
<1>12. Len(db'.turns) <= MaxTurns
  BY <1>5 DEF HistoryInv, TypeInv
<1>13. \A u \in 1..Len(db'.turns) :
          \/ u \in 1..Len(db.turns) /\ db'.turns[u].action = db.turns[u].action
          \/ TurnFollows(u)'
  BY <1>5, <1>10
<1> QED
  BY <1>7, <1>9, <1>11, <1>12, <1>13, GrowthKeeps

LEMMA RecordKeeps ==
    ASSUME HistoryInv, NEW p \in Procs, Record(p)
    PROVE  HistoryInv'
<1>1. PICK r \in reqs :
        /\ Answer(p, r) /\ r.phase = "answered" /\ reqs' = reqs \ {r}
        /\ \/ /\ db' = RequestTermination(
                           Finish(Kept(db, r.turn), r.turn, "model_failed"))
              /\ Yield(p)
           \/ /\ db' = Finish(Kept(db, r.turn), r.turn, procs[p].snap)
              /\ Yield(p)
           \/ /\ ~Taken(db, r.turn) /\ db' = Signed(db, r.turn, r.answer)
              /\ Go(p, "submit")
           \/ db' = Recovery(db) /\ Yield(p)
        /\ UNCHANGED <<chain, view, owner, agents, answered, faults>>
  BY DEF Record
<1> DEFINE t == r.turn
           k == Kept(db, t)
           e == Finish(k, t, "model_failed")
<1>2. /\ procs[p].pc = "sent" /\ procs[p].snap \in Words /\ db \in Data
      /\ t \in 1..Len(db.turns)
  BY <1>1, Spelled DEF Answer, At, Asked, Places, FollowsIn, AtTurn
<1> HIDE DEF t
<1>3. Edited(db, k) /\ k \in Data /\ t \in 1..Len(k.turns)
  BY SMTT(40), <1>2, KeptEdits DEF Edited, SameTurns
<1> HIDE DEF k
<1>4. \A w \in Words : Edited(db, Finish(k, t, w))
  BY <1>2, <1>3, FinishEdits, EditedKeeps
<1>5. e \in Data /\ Edited(db, e)
  BY <1>4 DEF Edited, SameTurns, Words
<1> HIDE DEF e
<1>6. Edited(db, RequestTermination(e))
  BY <1>2, <1>5, RunEdits, EditedKeeps DEF Stages
<1>7. Edited(db, Recovery(db))
  BY <1>2, RunEdits DEF Stages
<1>8. CASE SameTurns(db, db') /\ Yield(p)
  BY <1>1, <1>8, FewerFine, YieldFine, SameFine, QuietKeeps
<1>9. CASE /\ ~Taken(db, t) /\ db' = Signed(db, t, r.answer)
           /\ Go(p, "submit")
  BY <1>1, <1>2, <1>9, SignedKeeps DEF AtTurn, t
<1> QED
  BY <1>1, <1>2, <1>4, <1>6, <1>7, <1>8, <1>9 DEF Edited, t, k, e

LEMMA DecideKeeps ==
    ASSUME HistoryInv, NEW r, NEW kind \in Kinds, Decide(r, kind)
    PROVE  HistoryInv'
<1>1. r \in reqs /\ r \in Requests /\ r.party \in Parties /\ r.turn \in 1..MaxTurns
      /\ r.obs \in Observations
  BY DEF Decide, HistoryInv, TypeInv, Requests
<1>2. PICK n \in Nat : n = Len(answered) + 1
  BY Spelled
<1> DEFINE q == r.party
           a == [party |-> q, turn |-> r.turn, obs |-> r.obs, kind |-> kind,
                 seq |-> Len(r.obs.hist) + 1, until |-> UntilOf(kind, r.obs),
                 life |-> agents[q].life]
           s == [r EXCEPT !.phase = "answered", !.answer = n]
           x == [agents[q] EXCEPT !.turns[r.turn] = n]
<1>3. CASE Refuse(r, "released") /\ UNCHANGED <<agents, answered>>
  <2>1. ReqsFine
    BY <1>1, <1>3, RefuseFine DEF AgentStates
  <2> QED
    BY <1>3, <2>1, SameFine, QuietKeeps DEF Decide
<1>4. CASE /\ answered' = Append(answered, a)
           /\ agents' = [agents EXCEPT ![q].turns[r.turn] = n]
           /\ Become(r, s)
  <2>1. agents \in [Parties -> Entries] /\ agents[q] \in Entries
        /\ agents[q].life \in Nat
    BY <1>1 DEF HistoryInv, TypeInv, Entries
  <2>2. UntilOf(kind, r.obs) \in Nat
    BY SMTT(40), <1>1, BoundsAssumption DEF UntilOf, Observations
  <2>3. a \in Answers
    <3>1. kind \in AnswerKinds /\ Len(r.obs.hist) + 1 \in Nat
      BY <1>1, BoundsAssumption DEF Observations
    <3> HIDE DEF q
    <3> QED
      BY <1>1, <2>1, <2>2, <3>1 DEF Answers, q
  <2>4. a.obs = r.obs /\ a.seq = Len(a.obs.hist) + 1
    OBVIOUS
  <2> HIDE DEF a
  <2>5. /\ answered' \in Seq(Answers) /\ Len(answered') = n
        /\ answered'[n] = a
        /\ \A i \in 1..Len(answered) : answered'[i] = answered[i]
    <3> DEFINE as == answered
    <3>1. as \in Seq(Answers) /\ n = Len(as) + 1 /\ answered' = Append(as, a)
      BY <1>2, <1>4, Spelled DEF a
    <3>2. a \in Answers
      BY <2>3
    <3> HIDE DEF as, s, x, q
    <3>3. Append(as, a) \in Seq(Answers)
      BY <3>1, <3>2, AppendFacts
    <3>4. Len(Append(as, a)) = Len(as) + 1
      BY <3>1, <3>2, AppendFacts
    <3>5. Append(as, a)[Len(as) + 1] = a
      BY ZenonT(60), <3>1, <3>2, AppendFacts
    <3>6. \A i \in 1..Len(as) : Append(as, a)[i] = as[i]
      BY <3>1, <3>2, AppendFacts
    <3> QED
      BY <3>1, <3>3, <3>4, <3>5, <3>6 DEF as
  <2>6. \A i \in 1..n : i = n \/ i \in 1..Len(answered)
    BY SMTT(40), <1>2, Spelled
  <2>7. \A i \in 1..Len(answered) : i \in 1..n
    BY <1>2, Spelled
  <2>8. \A id, obs : Known(id, obs) => Known(id, obs)'
    BY <2>5, <2>7 DEF Known
  <2>9. /\ s \in Requests /\ s.turn = r.turn /\ s.obs = r.obs
        /\ s.phase = "answered" /\ s.answer = n
    BY <1>1, ReplyEdits
  <2> HIDE DEF s
  <2>10. reqs' \subseteq reqs \cup {s}
    BY <1>4 DEF Become
  <2>11. n \in 1..n
    BY <1>2, Spelled
  <2>12. Known(n, s.obs)'
    BY <2>4, <2>5, <2>9, <2>11 DEF Known
  <2>13. AsksIn(db, s)
    BY <1>1, <2>9 DEF HistoryInv, ReqsFollow, AsksIn
  <2>14. db' = db /\ UNCHANGED <<chain, view, owner, procs, faults>>
    BY DEF Decide
  <2>15. ReqsFollow'
    BY <2>8, <2>9, <2>10, <2>12, <2>13, <2>14 DEF HistoryInv, ReqsFollow
  <2>16. x \in Entries /\ \A t \in 1..MaxTurns :
            x.turns[t] = IF t = r.turn THEN n ELSE agents[q].turns[t]
    <3> DEFINE y == agents[q]
               f == [y.turns EXCEPT ![r.turn] = n]
    <3>1. y \in Entries /\ y.turns \in [1..MaxTurns -> Nat]
      BY <2>1 DEF Entries
    <3>2. x = [y EXCEPT !.turns = f]
      BY <3>1 DEF Entries
    <3> HIDE DEF y
    <3>3. f \in [1..MaxTurns -> Nat] /\ \A t \in 1..MaxTurns :
              f[t] = IF t = r.turn THEN n ELSE y.turns[t]
      BY <1>1, <3>1
    <3> HIDE DEF f
    <3>4. x \in Entries /\ x.turns = f
      BY <3>1, <3>2, <3>3 DEF Entries
    <3> QED
      BY <3>3, <3>4 DEF y
  <2>17. agents' = [agents EXCEPT ![q] = x]
    BY <1>4, <2>1
  <2> HIDE DEF x
  <2>18. agents' \in [Parties -> Entries] /\ agents'[q] = x
         /\ \A o \in Parties : o # q => agents'[o] = agents[o]
    BY <1>1, <2>1, <2>16, <2>17
  <2>19. CacheKnown'
    <3>1. ASSUME NEW o \in Parties, NEW t \in 1..MaxTurns,
                 agents'[o].turns[t] # 0
          PROVE  agents'[o].turns[t] \in 1..n
      <4>1. \/ agents'[o].turns[t] = n
            \/ agents'[o].turns[t] = agents[o].turns[t]
        BY <2>16, <2>18
      <4> QED
        BY <2>7, <2>11, <3>1, <4>1 DEF HistoryInv, CacheKnown
    <3> QED
      BY <2>5, <3>1 DEF CacheKnown
  <2>20. AnswersFit'
    BY <2>4, <2>5, <2>6 DEF HistoryInv, AnswersFit
  <2>21. TypeInv'
    BY <2>5, <2>9, <2>10, <2>14, <2>18 DEF HistoryInv, TypeInv
  <2>22. TurnsFollow'
    <3>1. \A t \in 1..Len(db.turns) : TurnFollows(t) => TurnFollows(t)'
      BY <2>8, <2>14 DEF TurnFollows, Lawful
    <3> QED
      BY <2>14, <3>1 DEF HistoryInv, TurnsFollow
  <2>23. BlocksLawful(chain.blocks)' /\ BlocksLawful(view.blocks)'
         /\ KeysApart' /\ ProcsFollow'
    BY <2>14 DEF HistoryInv, BlocksLawful, Lawful, KeysApart, ProcsFollow
  <2> QED
    BY <2>15, <2>19, <2>20, <2>21, <2>22, <2>23 DEF HistoryInv
<1> QED
  BY <1>2, <1>3, <1>4 DEF Decide

-----------------------------------------------------------------------------
(* The history invariant.                                                  *)

LEMMA HistoryInit == Init => HistoryInv
<1> SUFFICES ASSUME Init PROVE HistoryInv
  OBVIOUS
<1>1. chain = [blocks |-> <<>>, deep |-> 0, time |-> 0]
      /\ view = [blocks |-> <<>>, deep |-> 0]
      /\ db = [turns |-> <<>>, stage |-> "driving", cause |-> FALSE]
      /\ owner \in Procs /\ procs = [p \in Procs |-> Stopped] /\ reqs = {}
      /\ agents = [q \in Parties |-> Fresh(0)] /\ answered = <<>>
      /\ faults = [left |-> MaxFaults, takeover |-> FALSE]
  BY DEF Init
<1>2. Fresh(0) \in Entries /\ \A t \in 1..MaxTurns : Fresh(0).turns[t] = 0
  <2> DEFINE none == [t \in 1..MaxTurns |-> 0]
  <2>1. none \in [1..MaxTurns -> Nat] /\ \A t \in 1..MaxTurns : none[t] = 0
    OBVIOUS
  <2>2. Fresh(0) = [state |-> "approved", released |-> FALSE, life |-> 0,
                    turns |-> none]
    BY DEF Fresh
  <2> DEFINE y == Fresh(0)
  <2>3. y = [state |-> "approved", released |-> FALSE, life |-> 0,
             turns |-> none]
    BY <2>2
  <2> HIDE DEF none, y
  <2>4. y \in Entries /\ y.turns = none
    BY <2>1, <2>3 DEF Entries, AgentStates
  <2> QED
    BY <2>1, <2>4 DEF y
<1>3. chain \in [blocks : Seq(Blocks), deep : Nat, time : Nat]
      /\ view \in [blocks : Seq(Blocks), deep : Nat]
      /\ db \in Data /\ Len(db.turns) = 0
  BY <1>1, EmptySeq DEF Data, Stages
<1>4. Len(db.turns) <= MaxTurns /\ faults \in [left : Nat, takeover : BOOLEAN]
  BY <1>1, <1>3, BoundsAssumption
<1>5. procs \in [Procs -> Places] /\ \A p \in Procs : FollowsIn(db, procs[p])
  BY <1>1, StoppedPlace
<1>6. agents \in [Parties -> Entries] /\ CacheKnown
  BY <1>1, <1>2 DEF CacheKnown
<1>7. answered \in Seq(Answers) /\ Len(answered) = 0 /\ reqs \subseteq Requests
  BY <1>1
<1>8. TypeInv
  BY <1>1, <1>3, <1>4, <1>5, <1>6, <1>7 DEF TypeInv
<1>9. BlocksLawful(chain.blocks) /\ BlocksLawful(view.blocks)
  BY <1>1 DEF BlocksLawful
<1>10. TurnsFollow /\ KeysApart /\ ReqsFollow /\ AnswersFit
  BY <1>1, <1>3, <1>7 DEF TurnsFollow, KeysApart, ReqsFollow, AnswersFit
<1> QED
  BY <1>5, <1>6, <1>8, <1>9, <1>10 DEF HistoryInv, ProcsFollow

LEMMA StutterKeeps ==
    ASSUME HistoryInv, UNCHANGED vars
    PROVE  HistoryInv'
BY SameFine, QuietKeeps DEF vars

LEMMA AdvanceKeeps ==
    ASSUME HistoryInv, NEW p \in Procs, Advance(p)
    PROVE  HistoryInv'
BY TickKeeps, ReleaseKeeps, LookKeeps, StaleKeeps, BeginKeeps, AddTurnKeeps,
   AskKeeps, RefusedKeeps, RecordKeeps, SubmitKeeps, MarkKeeps, FollowKeeps,
   ReprovisionKeeps, ReapproveKeeps DEF Advance

LEMMA AgentKeeps ==
    ASSUME HistoryInv, NEW q \in Parties, AgentStep(q)
    PROVE  HistoryInv'
<1>1. PICK r \in reqs : \/ Receive(r) \/ Dequeue(r)
                        \/ \E k \in Kinds : Decide(r, k)
  BY DEF AgentStep
<1> QED
  BY <1>1, ReceiveKeeps, DecideKeeps

LEMMA FaultKeeps ==
    ASSUME HistoryInv, Fault
    PROVE  HistoryInv'
<1>1. CASE Crash \/ Reorg \/ Abort
  BY <1>1, CrashKeeps, ReorgKeeps, OperatorKeeps
<1>2. CASE \E p \in Procs : Timeout(p) \/ TakeOver(p)
  BY <1>2, TimeoutKeeps, TakeOverKeeps
<1>3. CASE \E q \in Parties : AgentRestart(q)
  BY <1>3, RestartKeeps
<1> QED
  BY <1>1, <1>2, <1>3 DEF Fault

LEMMA HistoryStep == HistoryInv /\ [Next]_vars => HistoryInv'
<1> SUFFICES ASSUME HistoryInv, [Next]_vars PROVE HistoryInv'
  OBVIOUS
<1>1. CASE \E p \in Procs : Advance(p)
  BY <1>1, AdvanceKeeps
<1>2. CASE \E q \in Parties : AgentStep(q)
  BY <1>2, AgentKeeps
<1>3. CASE MineNext
  BY <1>3, MineEndKeeps, MineKeeps DEF MineNext
<1>4. CASE Deepen \/ Pass
  BY <1>4, ClockKeeps
<1>5. CASE Resume
  BY <1>5, OperatorKeeps
<1>6. CASE Fault
  BY <1>6, FaultKeeps
<1>7. CASE UNCHANGED vars
  BY <1>7, StutterKeeps
<1> QED
  BY <1>1, <1>2, <1>3, <1>4, <1>5, <1>6, <1>7 DEF Next

LEMMA HistoryAlways == Spec => []HistoryInv
BY HistoryInit, HistoryStep, PTL DEF Spec

(* The history on which a place was decided is the one it follows: both    *)
(* are lawful, and a place has one turn.                                   *)
LEMMA HistoryIsOne == HistoryInv => ActedOnSeenHistory
<1> SUFFICES ASSUME HistoryInv PROVE ActedOnSeenHistory
  OBVIOUS
<1>1. \A t, u \in DOMAIN db.turns :
          (t # u /\ db.turns[t].action # 0 /\ db.turns[u].action # 0)
              => db.turns[t].seq # db.turns[u].seq
  BY Spelled DEF HistoryInv, KeysApart
<1> DEFINE ex == Offers(chain.blocks)
<1>2. ex \in Seq(Nat) /\ Lawful(ex) /\ Len(ex) \in Nat /\ DOMAIN ex = 1..Len(ex)
  BY Spelled, OffersLawful DEF HistoryInv
<1> HIDE DEF ex
<1>3. ASSUME NEW i \in 1..Len(ex)
      PROVE  answered[ex[i]].obs.hist = SubSeq(ex, 1, i - 1)
  <2>1. PICK t \in 1..Len(db.turns) : /\ db.turns[t].action = ex[i]
                                      /\ db.turns[t].seq = i /\ ex[i] # 0
    BY <1>2, LawfulKnown
  <2> DEFINE h == db.turns[t].obs.hist
             s == SubSeq(ex, 1, i - 1)
  <2>2. /\ answered[ex[i]].obs.hist = h /\ Lawful(h) /\ i = Len(h) + 1
    BY <2>1 DEF HistoryInv, TurnsFollow, TurnFollows, Known
  <2>3. h \in Seq(Nat) /\ Len(h) \in Nat
    <3>1. db.turns[t].obs \in Observations
      BY Spelled DEF Rows
    <3> QED
      BY SMTT(40), <3>1 DEF Observations
  <2> HIDE DEF h
  <2>4. Len(h) = i - 1 /\ i - 1 \in Nat /\ i - 1 <= Len(ex)
    BY <1>2, <2>2, <2>3
  <2>5. /\ s \in Seq(Nat) /\ Len(s) = i - 1
        /\ \A k \in 1..(i - 1) : s[k] = ex[k] /\ k \in 1..Len(ex)
    <3>1. \A k \in 1..(i - 1) : ex[k] \in Nat /\ k \in 1..Len(ex)
      BY <1>2, <2>4
    <3> QED
      BY <1>2, <2>4, <3>1, SubSeqProperties
  <2> HIDE DEF s
  <2>6. ASSUME NEW k \in 1..(i - 1) PROVE h[k] = s[k]
    <3>0. k \in 1..Len(h) /\ Lawful(h)
      BY <2>2, <2>4
    <3>1. PICK u \in 1..Len(db.turns) : /\ db.turns[u].action = h[k]
                                        /\ db.turns[u].seq = k /\ h[k] # 0
      BY <3>0, LawfulKnown
    <3>2. k \in 1..Len(ex) /\ s[k] = ex[k]
      BY <2>5
    <3>3. PICK v \in 1..Len(db.turns) : /\ db.turns[v].action = ex[k]
                                        /\ db.turns[v].seq = k /\ ex[k] # 0
      BY <1>2, <3>2, LawfulKnown
    <3>4. u = v
      BY <3>1, <3>3 DEF HistoryInv, KeysApart
    <3> QED
      BY <3>1, <3>2, <3>3, <3>4
  <2>7. h = s
    BY <2>3, <2>4, <2>5, <2>6, SeqEqual
  <2> QED
    BY <2>2, <2>7 DEF s
<1> QED
  BY <1>1, <1>2, <1>3 DEF ActedOnSeenHistory, ex

(* Two messages signed for one sequence are never both kept, and what      *)
(* executes on chain was decided on exactly the history it follows:        *)
(* whatever is reorganised, lost, retried or taken over (executor.py       *)
(* _record_signed, the unique keys of the actions' rows).                  *)
THEOREM ActedOnSeenHistoryTheorem == Spec => []ActedOnSeenHistory
BY HistoryAlways, HistoryIsOne, PTL

-----------------------------------------------------------------------------
(* An agent's lock.                                                        *)

LEMMA OthersDecide ==
    ASSUME OneDeciding, NEW s, reqs' \subseteq reqs \cup {s},
           s.phase # "deciding"
    PROVE  OneDeciding'
BY DEF OneDeciding

LEMMA FirstDecides ==
    ASSUME OneDeciding, NEW r \in reqs, Unlocked(r.party), NEW s,
           reqs' \subseteq reqs \cup {s}, s.party = r.party
    PROVE  OneDeciding'
BY DEF OneDeciding, Unlocked

LEMMA BecomeShape ==
    ASSUME NEW r, NEW s, Become(r, s)
    PROVE  reqs' \subseteq reqs \cup {s}
BY DEF Become

LEMMA TakeTurnAlone ==
    ASSUME HistoryInv, OneDeciding, NEW r \in reqs, Unlocked(r.party),
           TakeTurn(r)
    PROVE  OneDeciding'
<1>1. PICK s : Become(r, s) /\ s.party = r.party
  <2>1. r \in Requests
    BY DEF HistoryInv, TypeInv
  <2> DEFINE c == Cached(r)
             known == [r EXCEPT !.phase = "answered", !.answer = c]
             other == [r EXCEPT !.phase = "refused",
                                !.state = "idempotency_conflict"]
             late == [r EXCEPT !.phase = "refused",
                               !.state = "session_deadline_passed"]
             new == [r EXCEPT !.phase = "deciding"]
  <2>2. /\ known.party = r.party /\ other.party = r.party
        /\ late.party = r.party /\ new.party = r.party
    BY <2>1 DEF Requests
  <2>3. \/ Become(r, known) \/ Become(r, other) \/ Become(r, late)
        \/ Become(r, new)
    BY DEF TakeTurn, Refuse
  <2> HIDE DEF known, other, late, new
  <2> QED
    BY <2>2, <2>3
<1> QED
  BY <1>1, BecomeShape, FirstDecides

LEMMA ReceiveAlone ==
    ASSUME HistoryInv, OneDeciding, NEW r, Receive(r) \/ Dequeue(r)
    PROVE  OneDeciding'
<1>1. r \in reqs /\ r \in Requests
  BY DEF Receive, Dequeue, HistoryInv, TypeInv
<1>2. \A x : [r EXCEPT !.phase = "refused", !.state = x].phase # "deciding"
  BY <1>1 DEF Requests
<1>3. [r EXCEPT !.phase = "queued"].phase # "deciding"
  BY <1>1 DEF Requests
<1>4. \/ Refuse(r, agents[r.party].state)
      \/ Unlocked(r.party) /\ TakeTurn(r)
      \/ Become(r, [r EXCEPT !.phase = "queued"])
  BY DEF Receive, Dequeue
<1>5. CASE Refuse(r, agents[r.party].state)
  <2> DEFINE x == agents[r.party].state
             s == [r EXCEPT !.phase = "refused", !.state = x]
  <2>1. s.phase # "deciding"
    BY <1>2
  <2>2. Become(r, s)
    BY <1>5 DEF Refuse
  <2> HIDE DEF s
  <2> QED
    BY <2>1, <2>2, BecomeShape, OthersDecide
<1>6. CASE Unlocked(r.party) /\ TakeTurn(r)
  BY <1>1, <1>6, TakeTurnAlone
<1>7. CASE Become(r, [r EXCEPT !.phase = "queued"])
  BY <1>3, <1>7, BecomeShape, OthersDecide
<1> QED
  BY <1>4, <1>5, <1>6, <1>7

LEMMA DecideAlone ==
    ASSUME HistoryInv, OneDeciding, NEW r, NEW kind \in Kinds, Decide(r, kind)
    PROVE  OneDeciding'
<1>1. r \in reqs /\ r \in Requests
  BY DEF Decide, HistoryInv, TypeInv
<1>2. \A x, n :
        /\ [r EXCEPT !.phase = "refused", !.state = x].phase # "deciding"
        /\ [r EXCEPT !.phase = "answered", !.answer = n].phase # "deciding"
  BY <1>1 DEF Requests
<1>3. PICK s : Become(r, s) /\ s.phase # "deciding"
  BY <1>2 DEF Decide, Refuse
<1> QED
  BY <1>3, BecomeShape, OthersDecide

LEMMA OrphanedAlone ==
    ASSUME HistoryInv, OneDeciding, NEW p \in Procs, reqs' = Orphaned(reqs, p)
    PROVE  OneDeciding'
<1> DEFINE f(s) == IF s.from = p THEN [s EXCEPT !.from = "nobody"] ELSE s
<1>1. ASSUME NEW r \in reqs' PROVE \E s \in reqs : r = f(s)
  BY <1>1 DEF Orphaned
<1>2. ASSUME NEW s \in reqs
      PROVE  f(s).party = s.party /\ f(s).phase = s.phase
  BY DEF HistoryInv, TypeInv, Requests
<1> HIDE DEF f
<1>3. ASSUME NEW r \in reqs', NEW s \in reqs', r.party = s.party,
             r.phase = "deciding", s.phase = "deciding"
      PROVE  r = s
  <2>1. PICK x \in reqs : r = f(x)
    BY <1>1
  <2>2. PICK y \in reqs : s = f(y)
    BY <1>1
  <2>3. x = y
    BY <1>2, <1>3, <2>1, <2>2 DEF OneDeciding
  <2> QED
    BY <2>1, <2>2, <2>3
<1> QED
  BY <1>3 DEF OneDeciding

LEMMA AskedAlone ==
    ASSUME OneDeciding, NEW p \in Procs, Ask(p)
    PROVE  OneDeciding'
<1> DEFINE t == Asked(p)
           r == [party |-> db.turns[t].party, turn |-> t, obs |-> procs[p].obs,
                 from |-> p, phase |-> "sent", answer |-> 0, state |-> "none"]
<1>1. r.phase # "deciding" /\ reqs' = reqs \cup {r}
  BY DEF Ask
<1> HIDE DEF r
<1> QED
  BY <1>1, OthersDecide

LEMMA DecidingStep == HistoryInv /\ OneDeciding /\ [Next]_vars => OneDeciding'
<1> SUFFICES ASSUME HistoryInv, OneDeciding, [Next]_vars PROVE OneDeciding'
  OBVIOUS
<1>1. CASE reqs' \subseteq reqs
  BY <1>1 DEF OneDeciding
<1>2. ASSUME NEW p \in Procs, Advance(p) PROVE OneDeciding'
  <2>1. CASE Ask(p)
    BY <2>1, AskedAlone
  <2>2. CASE ~Ask(p)
    <3>1. reqs' \subseteq reqs
      BY <1>2, <2>2 DEF Advance, Tick, ReleaseAgents, Look, Stale, Begin,
         AddTurn, Refused, Record, Submit, MarkConfirming, Follow,
         Reprovision, Reapprove
    <3> QED
      BY ZenonT(60), <1>1, <3>1
  <2> QED
    BY <2>1, <2>2
<1>3. ASSUME NEW q \in Parties, AgentStep(q) PROVE OneDeciding'
  <2>1. PICK r \in reqs : \/ Receive(r) \/ Dequeue(r)
                          \/ \E k \in Kinds : Decide(r, k)
    BY <1>3 DEF AgentStep
  <2> QED
    BY <2>1, ReceiveAlone, DecideAlone
<1>4. CASE MineNext \/ Deepen \/ Pass \/ Resume \/ UNCHANGED vars
  <2>1. reqs' = reqs
    BY <1>4 DEF MineNext, Mine, MineEnd, Deepen, Pass, Resume, vars
  <2> QED
    BY <1>1, <2>1
<1>5. CASE Fault
  <2>1. CASE Reorg \/ Abort \/ \E p \in Procs : TakeOver(p)
    BY <1>1, <2>1 DEF Reorg, Abort, TakeOver
  <2>2. CASE Crash
    <3>1. owner \in Procs
      BY DEF HistoryInv, TypeInv
    <3> QED
      BY <2>2, <3>1, OrphanedAlone DEF Crash
  <2>3. CASE \E p \in Procs : Timeout(p)
    BY <2>3, OrphanedAlone DEF Timeout
  <2>4. CASE \E q \in Parties : AgentRestart(q)
    BY <1>1, <2>4 DEF AgentRestart
  <2> QED
    BY <1>5, <2>1, <2>2, <2>3, <2>4 DEF Fault
<1> QED
  BY <1>2, <1>3, <1>4, <1>5 DEF Next

LEMMA OneOfEach == OneDeciding => OneDecisionInFlight
<1> SUFFICES ASSUME OneDeciding, NEW q \in Parties
             PROVE  Cardinality({r \in reqs : r.party = q
                                              /\ r.phase = "deciding"}) <= 1
  BY DEF OneDecisionInFlight
<1> DEFINE S == {r \in reqs : r.party = q /\ r.phase = "deciding"}
<1>1. S = {} \/ \E r : S = {r}
  BY DEF OneDeciding
<1> HIDE DEF S
<1>2. CASE S = {}
  BY <1>2, FS_EmptySet DEF S
<1>3. CASE \E r : S = {r}
  BY <1>3, FS_Singleton DEF S
<1> QED
  BY <1>1, <1>2, <1>3

(* However often an agent is asked, whoever asks and whatever request was  *)
(* given up, it decides one turn at a time (service.py turn_lock).         *)
THEOREM OneDecisionInFlightTheorem == Spec => []OneDecisionInFlight
<1>1. Init => OneDeciding
  BY DEF Init, OneDeciding
<1> QED
  BY <1>1, HistoryAlways, DecidingStep, OneOfEach, PTL DEF Spec

-----------------------------------------------------------------------------
(* The decision on a sequence: what is confirmed is on the chain.          *)

LEMMA LastCovers ==
    ASSUME NEW bs \in Seq(Blocks), DoneCovers(bs), NEW i \in 1..Len(bs),
           bs[i].ok, bs[i].id # 0
    PROVE  Holds(Offers(bs), bs[i].id)
<1>1. Len(bs) \in 1..Len(bs) /\ i <= Len(bs) /\ bs # << >>
  OBVIOUS
<1>2. Offers(bs) = bs[Len(bs)].done
  BY <1>1 DEF Offers
<1> QED
  BY <1>1, <1>2 DEF DoneCovers

LEMMA MinedCovers ==
    ASSUME NEW bs \in Seq(Blocks), DoneCovers(bs), NEW id \in Nat,
           NEW ok \in BOOLEAN
    PROVE  DoneCovers(Mined(bs, id, ok))
<1> DEFINE h == Offers(bs)
           done == IF ok /\ id # 0 THEN Append(h, id) ELSE h
           b == [id |-> id, ok |-> ok, done |-> done]
           new == Append(bs, b)
<1>1. PICK n \in Nat : n = Len(bs)
  OBVIOUS
<1>2. h \in Seq(Nat) /\ Len(h) \in Nat
  <2>1. CASE bs = << >>
    BY <2>1 DEF Offers
  <2>2. CASE bs # << >>
    <3>1. bs[Len(bs)] \in Blocks /\ h = bs[Len(bs)].done
      BY <2>2 DEF Offers
    <3> QED
      BY <3>1 DEF Blocks
  <2> QED
    BY <2>1, <2>2
<1>3. \A i \in 1..n : (bs[i].ok /\ bs[i].id # 0) => Holds(h, bs[i].id)
  BY <1>1, LastCovers
<1> HIDE DEF h
<1>4. /\ done \in Seq(Nat)
      /\ \A x : Holds(h, x) => Holds(done, x)
      /\ ok /\ id # 0 => Holds(done, id)
  <2>1. CASE ok /\ id # 0
    <3>1. /\ done = Append(h, id) /\ Len(done) = Len(h) + 1
          /\ done[Len(h) + 1] = id
          /\ \A k \in 1..Len(h) : done[k] = h[k] /\ k \in 1..(Len(h) + 1)
      BY <1>2, <2>1
    <3>2. Len(h) + 1 \in 1..(Len(h) + 1)
      BY <1>2
    <3> HIDE DEF done
    <3> QED
      BY <1>2, <3>1, <3>2 DEF Holds
  <2>2. CASE ~(ok /\ id # 0)
    BY <1>2, <2>2
  <2> QED
    BY <2>1, <2>2
<1>5. Mined(bs, id, ok) = new
  BY DEF Mined, h
<1>6. b.id = id /\ b.ok = ok /\ b.done = done
  OBVIOUS
<1> HIDE DEF done
<1>7. b \in Blocks
  BY <1>4 DEF Blocks
<1> HIDE DEF b
<1>8. /\ Len(new) = n + 1 /\ new[n + 1] = b
      /\ \A i \in 1..n : new[i] = bs[i]
  BY <1>1, <1>7, AppendFacts
<1> HIDE DEF new
<1>9. ASSUME NEW i \in 1..Len(new), NEW j \in 1..Len(new), i <= j,
             new[i].ok, new[i].id # 0
      PROVE  Holds(new[j].done, new[i].id)
  <2>1. CASE j \in 1..n
    <3>1. i \in 1..n
      BY <1>9, <2>1
    <3> QED
      BY <1>1, <1>8, <1>9, <2>1, <3>1 DEF DoneCovers
  <2>2. CASE j = n + 1 /\ i \in 1..n
    BY <1>3, <1>4, <1>6, <1>8, <1>9, <2>2
  <2>3. CASE j = n + 1 /\ i = n + 1
    BY <1>4, <1>6, <1>8, <1>9, <2>3
  <2> QED
    BY <1>8, <2>1, <2>2, <2>3
<1> QED
  BY <1>5, <1>9 DEF DoneCovers

LEMMA ChainCovers ==
    ASSUME HistoryInv, DoneCovers(chain.blocks), [Next]_vars
    PROVE  DoneCovers(chain.blocks)'
<1>1. CASE chain'.blocks = chain.blocks
  BY <1>1 DEF DoneCovers
<1>2. CASE MineNext
  <2>1. PICK id \in Nat, ok \in BOOLEAN :
            chain' = [chain EXCEPT !.blocks = Mined(@, id, ok)]
    <3>1. CASE MineEnd
      BY <3>1 DEF MineEnd
    <3>2. ASSUME NEW t \in DOMAIN db.turns, Mine(t)
          PROVE  \E id \in Nat, ok \in BOOLEAN :
                    chain' = [chain EXCEPT !.blocks = Mined(@, id, ok)]
      <4>1. db.turns[t].action \in Nat
        BY Spelled DEF Rows
      <4>2. Executable(answered[db.turns[t].action]) \in BOOLEAN
        BY DEF Executable
      <4> QED
        BY <3>2, <4>1, <4>2 DEF Mine
    <3> QED
      BY <1>2, <3>1, <3>2 DEF MineNext
  <2>2. chain'.blocks = Mined(chain.blocks, id, ok)
    BY <2>1 DEF HistoryInv, TypeInv
  <2>3. DoneCovers(Mined(chain.blocks, id, ok))
    BY Spelled, MinedCovers
  <2> QED
    BY <2>2, <2>3
<1>3. CASE Reorg
  <2> DEFINE n == Len(chain.blocks) - 1
             bs == SubSeq(chain.blocks, 1, n)
  <2>1. /\ chain.blocks \in Seq(Blocks) /\ Len(chain.blocks) \in Nat
        /\ chain.blocks # << >>
    BY <1>3, Spelled DEF Reorg
  <2>2. n \in Nat /\ n < Len(chain.blocks)
    BY <2>1
  <2>3. chain'.blocks = bs
    BY <1>3 DEF Reorg, HistoryInv, TypeInv
  <2>4. Len(bs) = n
        /\ \A i \in 1..n : bs[i] = chain.blocks[i] /\ i \in 1..Len(chain.blocks)
    <3> HIDE DEF n
    <3>1. \A i \in 1..n : chain.blocks[i] \in Blocks /\ i \in 1..Len(chain.blocks)
      BY <2>1, <2>2
    <3> QED
      BY <2>1, <2>2, <3>1, SubSeqProperties
  <2> HIDE DEF bs
  <2> QED
    BY <2>3, <2>4 DEF DoneCovers
<1>4. CASE \E p \in Procs : Advance(p)
  <2>1. chain' = chain
    BY ZenonT(60), <1>4 DEF Advance, Tick, ReleaseAgents, Look, Stale, Begin, AddTurn, Ask,
       Refused, Record, Submit, MarkConfirming, Follow, Reprovision, Reapprove
  <2> QED
    BY Zenon, <1>1, <2>1
<1>5. CASE \E q \in Parties : AgentStep(q)
  BY <1>1, <1>5 DEF AgentStep, Receive, Dequeue, Decide
<1>6. CASE Deepen \/ Pass
  BY <1>1, <1>6 DEF Deepen, Pass, HistoryInv, TypeInv
<1>7. CASE Resume \/ UNCHANGED vars
  BY <1>1, <1>7 DEF Resume, vars
<1>8. CASE Fault /\ ~Reorg
  BY <1>1, <1>8 DEF Fault, Crash, Abort, Timeout, TakeOver, AgentRestart
<1> QED
  BY <1>2, <1>3, <1>4, <1>5, <1>6, <1>7, <1>8 DEF Next, Fault

-----------------------------------------------------------------------------
(* Who moves, and what becomes of the rows.                                *)

LEMMA GoMoves ==
    ASSUME HistoryInv, NEW p \in Procs, NEW l \in Places,
           procs' = [procs EXCEPT ![p] = l]
    PROVE  procs'[p] = l /\ \A o \in Procs : o # p => procs'[o] = procs[o]
BY DEF HistoryInv, TypeInv

LEMMA StepMoves ==
    ASSUME HistoryInv, NEW p \in Procs, NEW c, Go(p, c)
    PROVE  procs'[p].pc = c /\ \A o \in Procs : o # p => procs'[o] = procs[o]
<1>1. procs \in [Procs -> Places] /\ procs[p] \in Places
  BY DEF HistoryInv, TypeInv
<1> QED
  BY <1>1 DEF Go, Places

(* A step of a process moves it alone, and it is in the middle of its turn *)
(* or holds the lease.                                                     *)
LEMMA AdvanceMoves ==
    ASSUME HistoryInv, NEW p \in Procs, Advance(p)
    PROVE  /\ UNCHANGED <<owner, faults>>
           /\ \A o \in Procs : o # p => procs'[o] = procs[o]
           /\ owner = p \/ procs[p].pc # "idle"
           /\ procs'[p].pc = "add" => Begin(p)
           /\ Tick(p) \/ view' = view
<1> DEFINE Moved == /\ \A o \in Procs : o # p => procs'[o] = procs[o]
                    /\ procs'[p].pc = "add" => Begin(p)
<1>1. /\ UNCHANGED <<owner, faults>> /\ (Tick(p) \/ view' = view)
      /\ owner = p \/ procs[p].pc # "idle"
  BY DEF Advance, Tick, ReleaseAgents, Look, Stale, Begin, AddTurn, Ask,
     Refused, Record, Submit, MarkConfirming, Follow, Reprovision, Reapprove,
     At, Answer
<1>2. Yield(p) => Moved
  BY YieldFine
<1>3. \A c : Go(p, c) /\ c # "add" => Moved
  BY StepMoves
<1>4. ASSUME NEW l, procs' = [procs EXCEPT ![p] = l], l.pc # "add"
      PROVE  Moved
  BY <1>4 DEF HistoryInv, TypeInv
<1>5. procs[p] \in Places /\ procs \in [Procs -> Places]
  BY DEF HistoryInv, TypeInv
<1> SUFFICES Moved
  BY <1>1
<1> HIDE DEF Moved
<1>6. CASE Tick(p)
  <2>1. PICK c \in {"release", "look", "idle"} : Go(p, c)
    BY <1>6 DEF Tick
  <2> QED
    BY SMTT(40), <1>3, <2>1
<1>7. CASE ReleaseAgents(p) \/ MarkConfirming(p)
  BY <1>2, <1>7 DEF ReleaseAgents, MarkConfirming
<1>8. CASE Stale(p) \/ Refused(p) \/ Record(p) \/ Submit(p) \/ Follow(p)
           \/ Reprovision(p)
  <2>1. \/ Yield(p) \/ Go(p, "ask") \/ Go(p, "provision") \/ Go(p, "submit")
        \/ Go(p, "mark") \/ Go(p, "approve")
    BY <1>8 DEF Stale, Refused, Record, Submit, Follow, Reprovision
  <2> QED
    BY SMTT(40), <1>2, <1>3, <2>1
<1>9. CASE Begin(p)
  <2>1. Yield(p) \/ procs' = [procs EXCEPT ![p].pc = "add",
                                           ![p].obs = Observed(chain.time)]
    BY <1>9 DEF Begin
  <2> QED
    BY <1>2, <1>5, <1>9, <2>1 DEF Moved
<1>10. CASE Look(p)
  <2> DEFINE t == OpenTurn(db)
             old == procs[p]
             l == CASE t = 0 -> [old EXCEPT !.pc = "begin"]
                    [] t # 0 /\ db.turns[t].action # 0 ->
                         [old EXCEPT !.pc = "follow", !.turn = t,
                                     !.snap = db.turns[t].status]
                    [] OTHER ->
                         [old EXCEPT !.pc = "stale", !.turn = t,
                                     !.obs = db.turns[t].obs,
                                     !.snap = db.turns[t].state]
  <2>1. procs' = [procs EXCEPT ![p] = l]
    BY <1>10 DEF Look
  <2> HIDE DEF t
  <2>2. l.pc # "add"
    <3>1. old \in Places
      BY <1>5
    <3> HIDE DEF old
    <3> QED
      BY <3>1 DEF Places
  <2> HIDE DEF l
  <2> QED
    BY <1>4, <2>1, <2>2
<1>11. CASE AddTurn(p)
  <2> DEFINE l == [procs[p] EXCEPT !.pc = "ask", !.turn = Len(db.turns) + 1,
                                   !.snap = "observing"]
  <2>1. procs' = [procs EXCEPT ![p] = l]
    BY <1>11 DEF AddTurn
  <2>2. l.pc # "add"
    BY <1>5 DEF Places
  <2> HIDE DEF l
  <2> QED
    BY <1>4, <2>1, <2>2
<1>12. CASE Ask(p)
  <2> DEFINE l == [procs[p] EXCEPT !.pc = "sent", !.snap =
                     IF procs[p].snap = "observing" THEN "deciding"
                     ELSE procs[p].snap]
  <2>1. procs' = [procs EXCEPT ![p] = l]
    BY <1>12 DEF Ask
  <2>2. l.pc # "add"
    BY <1>5 DEF Places
  <2> HIDE DEF l
  <2> QED
    BY <1>4, <2>1, <2>2
<1>13. CASE Reapprove(p)
  <2> DEFINE l == [procs[p] EXCEPT !.pc = "ask", !.restored = TRUE]
  <2>1. Yield(p) \/ procs' = [procs EXCEPT ![p] = l]
    BY <1>5, <1>13 DEF Reapprove
  <2>2. l.pc # "add"
    BY <1>5 DEF Places
  <2> HIDE DEF l
  <2> QED
    BY <1>2, <1>4, <2>1, <2>2
<1> QED
  BY <1>6, <1>7, <1>8, <1>9, <1>10, <1>11, <1>12, <1>13 DEF Advance

(* The steps of a process that neither poll nor begin, sign or send.       *)
LEMMA QuietEdits ==
    ASSUME HistoryInv, NEW p \in Procs,
           \/ ReleaseAgents(p) \/ Look(p) \/ Stale(p) \/ Begin(p) \/ Ask(p)
           \/ Refused(p) \/ MarkConfirming(p) \/ Follow(p) \/ Reprovision(p)
           \/ Reapprove(p)
    PROVE  Edited(db, db')
<1>1. db \in Data /\ procs[p] \in Places /\ Edited(db, db)
  BY Spelled, EditedKeeps
<1>2. procs[p].pc \in AtTurn => procs[p].turn \in 1..Len(db.turns)
  BY Spelled DEF FollowsIn
<1>3. \A w \in Words : procs[p].pc \in AtTurn
         => Edited(db, [db EXCEPT !.turns[procs[p].turn].state = w])
  BY <1>1, <1>2, StateEdits
<1>4. \A w \in Words : procs[p].pc \in AtTurn
         => Edited(db, Finish(db, procs[p].turn, w))
  BY <1>1, <1>2, FinishEdits
<1>5. procs[p].pc \in AtTurn =>
         Edited(db, Recovery(Finish(db, procs[p].turn, procs[p].snap)))
  BY GivenUpEdits
<1>6. CASE ReleaseAgents(p) \/ Look(p)
  BY <1>1, <1>6 DEF ReleaseAgents, Look
<1>7. CASE Stale(p)
  <2>1. procs[p].snap \in Words /\ procs[p].pc \in AtTurn
    BY <1>1, <1>7 DEF Stale, At, Places, AtTurn
  <2>2. db' = Finish(db, procs[p].turn, procs[p].snap) \/ db' = db
    BY <1>7 DEF Stale, Asked
  <2> QED
    BY <1>1, <1>4, <2>1, <2>2
<1>8. CASE Begin(p)
  <2>1. db' = RequestTermination(db) \/ db' = db
    BY <1>8 DEF Begin
  <2> QED
    BY <1>1, <2>1, RunEdits DEF Stages
<1>9. CASE Ask(p)
  <2>1. procs[p].pc \in AtTurn
    BY <1>9 DEF Ask, At, AtTurn
  <2>2. \/ db' = [db EXCEPT !.turns[procs[p].turn].state = "deciding"]
        \/ db' = db
    BY <1>9 DEF Ask, Asked
  <2> QED
    BY <1>1, <1>3, <2>1, <2>2 DEF Words
<1>10. CASE Refused(p)
  <2>1. procs[p].pc \in AtTurn
    BY <1>10 DEF Refused, Answer, At, AtTurn
  <2>2. \/ db' = Recovery(Finish(db, procs[p].turn, procs[p].snap))
        \/ db' = db
    BY SMTT(30), <1>10 DEF Refused, Answer, Asked
  <2> QED
    BY <1>1, <1>5, <2>1, <2>2
<1>11. CASE MarkConfirming(p)
  <2>1. procs[p].pc \in AtTurn
    BY SMTT(30), <1>11 DEF MarkConfirming, At, AtTurn
  <2> QED
    BY <1>3, <1>11, <2>1 DEF MarkConfirming, Asked, Words
<1>12. CASE Follow(p)
  <2> DEFINE e == Finish(db, procs[p].turn, "execution_failed")
  <2>1. procs[p].pc \in AtTurn
    BY <1>12 DEF Follow, At, AtTurn
  <2>2. \/ db' = db
        \/ db' = Finish(db, procs[p].turn, "confirmed")
        \/ db' = RequestTermination(e)
        \/ db' = [db EXCEPT !.turns[procs[p].turn].state = "confirming"]
    BY <1>12 DEF Follow, Asked
  <2>3. Edited(db, e) /\ e \in Data
    BY <1>4, <2>1 DEF Words, Edited, SameTurns
  <2> HIDE DEF e
  <2>4. Edited(e, RequestTermination(e))
    BY <2>3, RunEdits DEF Stages
  <2>5. Edited(db, RequestTermination(e))
    BY <1>1, <2>3, <2>4, EditedKeeps
  <2> QED
    BY <1>1, <1>3, <1>4, <2>1, <2>2, <2>5 DEF Words
<1>13. CASE Reprovision(p) \/ Reapprove(p)
  <2>1. procs[p].pc \in AtTurn
    BY Zenon, <1>13 DEF Reprovision, Reapprove, At, AtTurn
  <2>2. \/ db' = Recovery(Finish(db, procs[p].turn, procs[p].snap))
        \/ db' = db
    BY <1>13 DEF Reprovision, Reapprove, Asked
  <2> QED
    BY <1>1, <1>5, <2>1, <2>2
<1> QED
  BY <1>6, <1>7, <1>8, <1>9, <1>10, <1>11, <1>12, <1>13

-----------------------------------------------------------------------------
(* What is recorded as confirmed stays in the view.                        *)

LEMMA EditsKeepStatus ==
    ASSUME NEW d, NEW e, Edited(d, e)
    PROVE  /\ \A h : ConfirmedIn(d, h) => ConfirmedIn(e, h)
           /\ \A n : ClearIn(d, n) => ClearIn(e, n)
BY DEF Edited, SameTurns, SameStatus, ConfirmedIn, ClearIn

LEMMA MirroredConfirmed ==
    ASSUME HistoryInv, NEW row \in Rows, row.action # 0,
           Mirrored(row) = "confirmed"
    PROVE  \E i \in 1..Len(chain.blocks) :
              chain.blocks[i].ok /\ chain.blocks[i].id = row.action
<1> DEFINE at == Place(chain.blocks, row.action)
           i == CHOOSE j \in at : TRUE
<1>1. row.status # "signed" /\ at # {}
  BY DEF Mirrored
<1>2. i \in at
  BY <1>1
<1>3. chain.blocks[i].ok
  BY <1>1 DEF Mirrored
<1> HIDE DEF i
<1>4. i \in 1..Len(chain.blocks) /\ chain.blocks[i].id = row.action
  BY <1>2, Spelled DEF Place
<1> QED
  BY <1>3, <1>4

LEMMA TickSees ==
    ASSUME HistoryInv, DoneCovers(chain.blocks), NEW p \in Procs, Tick(p)
    PROVE  /\ DoneCovers(view.blocks)'
           /\ ConfirmedSeen'
<1>1. view'.blocks = chain.blocks
  BY DEF Tick
<1>2. /\ Len(db'.turns) = Len(db.turns)
      /\ \A t \in 1..Len(db.turns) :
            /\ db'.turns[t].action = db.turns[t].action
            /\ db'.turns[t].status = Mirrored(db.turns[t])
  BY TickTurns DEF SameTurns
<1>3. ASSUME NEW t \in 1..Len(db.turns), db.turns[t].action # 0,
             Mirrored(db.turns[t]) = "confirmed"
      PROVE  Holds(Offers(chain.blocks), db.turns[t].action)
  <2>1. db.turns[t] \in Rows /\ chain.blocks \in Seq(Blocks)
    BY Spelled
  <2>2. PICK i \in 1..Len(chain.blocks) :
            /\ chain.blocks[i].ok
            /\ chain.blocks[i].id = db.turns[t].action
    BY <1>3, <2>1, MirroredConfirmed
  <2> QED
    BY <1>3, <2>1, <2>2, LastCovers
<1>4. ConfirmedIn(db', Offers(chain.blocks))
  BY <1>2, <1>3 DEF ConfirmedIn
<1> QED
  BY SMTT(40), <1>1, <1>4 DEF ConfirmedSeen, DoneCovers

LEMMA SubmitConfirms ==
    ASSUME HistoryInv, NEW p \in Procs, Submit(p), NEW h, ConfirmedIn(db, h)
    PROVE  ConfirmedIn(db', h) /\ Len(db'.turns) = Len(db.turns)
<1> DEFINE t == procs[p].turn
           w == IF db.turns[t].status = "signed" THEN "submitted"
                ELSE db.turns[t].status
<1>1. /\ t \in 1..Len(db.turns) /\ db \in Data /\ db.turns[t] \in Rows
  BY Spelled DEF Submit, At, FollowsIn, AtTurn
<1>2. w \in Words /\ (w = "confirmed" => db.turns[t].status = "confirmed")
  BY <1>1 DEF Rows, Words
<1>3. db' = [db EXCEPT !.turns[t].status = w]
  BY DEF Submit, Asked
<1> HIDE DEF w
<1>4. /\ SameTurns(db, db') /\ db'.turns[t].status = w
      /\ \A u \in 1..Len(db.turns) :
            u # t => db'.turns[u].status = db.turns[u].status
  BY <1>1, <1>2, <1>3, StatusEdits
<1> HIDE DEF t
<1> QED
  BY <1>1, <1>2, <1>4 DEF SameTurns, ConfirmedIn

LEMMA RecordConfirms ==
    ASSUME HistoryInv, NEW p \in Procs, Record(p), NEW h, ConfirmedIn(db, h)
    PROVE  ConfirmedIn(db', h) /\ Len(db'.turns) = Len(db.turns)
<1>1. PICK r \in reqs :
        /\ Answer(p, r) /\ r.phase = "answered"
        /\ \/ db' = RequestTermination(
                        Finish(Kept(db, r.turn), r.turn, "model_failed"))
           \/ db' = Finish(Kept(db, r.turn), r.turn, procs[p].snap)
           \/ db' = Signed(db, r.turn, r.answer)
           \/ db' = Recovery(db)
  BY DEF Record
<1> DEFINE t == r.turn
           k == Kept(db, t)
           e == Finish(k, t, "model_failed")
<1>2. /\ procs[p].snap \in Words /\ db \in Data /\ t \in 1..Len(db.turns)
      /\ r.answer \in Nat
  BY <1>1, Spelled DEF Answer, At, Asked, Places, FollowsIn, AtTurn,
                       HistoryInv, TypeInv, Requests
<1> HIDE DEF t
<1>3. Edited(db, k) /\ k \in Data /\ t \in 1..Len(k.turns)
  BY <1>2, KeptEdits DEF Edited, SameTurns
<1> HIDE DEF k
<1>4. \A w \in Words : Edited(db, Finish(k, t, w))
  BY <1>2, <1>3, FinishEdits, EditedKeeps
<1>5. e \in Data /\ Edited(db, e)
  BY <1>4 DEF Edited, SameTurns, Words
<1> HIDE DEF e
<1>6. Edited(db, RequestTermination(e)) /\ Edited(db, Recovery(db))
  BY <1>2, <1>5, RunEdits, EditedKeeps DEF Stages
<1>7. Edited(db, db') \/ db' = Signed(db, t, r.answer)
  BY <1>1, <1>2, <1>4, <1>6 DEF t, k, e
<1>8. CASE Edited(db, db')
  BY <1>8, EditsKeepStatus DEF Edited, SameTurns
<1>9. CASE db' = Signed(db, t, r.answer)
  <2>1. /\ Len(db'.turns) = Len(db.turns) /\ db'.turns[t].status = "signed"
        /\ \A u \in 1..Len(db.turns) : u # t =>
              /\ db'.turns[u].action = db.turns[u].action
              /\ db'.turns[u].status = db.turns[u].status
    BY <1>2, <1>9, SignedRows
  <2> QED
    BY <2>1 DEF ConfirmedIn
<1> QED
  BY <1>7, <1>8, <1>9

LEMMA AdvanceConfirms ==
    ASSUME HistoryInv, DoneCovers(chain.blocks), DoneCovers(view.blocks),
           ConfirmedSeen, NEW p \in Procs, Advance(p)
    PROVE  DoneCovers(view.blocks)' /\ ConfirmedSeen'
<1>1. CASE Tick(p)
  BY <1>1, TickSees
<1>2. CASE view' = view /\ ConfirmedIn(db', Offers(view.blocks))
  BY <1>2 DEF DoneCovers, ConfirmedSeen
<1>3. CASE Submit(p) \/ Record(p)
  BY <1>2, <1>3, SubmitConfirms, RecordConfirms DEF ConfirmedSeen, Submit, Record
<1>4. CASE AddTurn(p)
  <2>1. /\ Len(db'.turns) = Len(db.turns) + 1 /\ Len(db.turns) \in Nat
        /\ db'.turns[Len(db.turns) + 1].action = 0
        /\ \A t \in 1..Len(db.turns) : db'.turns[t] = db.turns[t]
    BY <1>4, AddTurnRow, Spelled
  <2>2. ConfirmedIn(db', Offers(view.blocks))
    BY <2>1 DEF ConfirmedSeen, ConfirmedIn
  <2> QED
    BY <1>2, <1>4, <2>2 DEF AddTurn
<1>5. CASE ~(Tick(p) \/ Submit(p) \/ Record(p) \/ AddTurn(p))
  <2>1. Edited(db, db')
    BY <1>5, QuietEdits DEF Advance
  <2>2. view' = view
    BY <1>5, AdvanceMoves
  <2> QED
    BY <1>2, <2>1, <2>2, EditsKeepStatus DEF ConfirmedSeen
<1> QED
  BY <1>1, <1>3, <1>4, <1>5

(* An action was kept by one turn: two with the same one would follow the  *)
(* same observation, and so share a sequence.                              *)
LEMMA ActionOnce ==
    ASSUME HistoryInv, NEW t \in 1..Len(db.turns), NEW u \in 1..Len(db.turns),
           db.turns[t].action # 0, db.turns[u].action = db.turns[t].action
    PROVE  t = u
<1>1. TurnFollows(t) /\ TurnFollows(u)
  BY DEF HistoryInv, TurnsFollow
<1>2. db.turns[t].seq = db.turns[u].seq
  BY <1>1 DEF TurnFollows, Known
<1> QED
  BY <1>2 DEF HistoryInv, KeysApart

(* When a turn may be begun, no recorded action is open or ahead of it.    *)
LEMMA BeginClears ==
    ASSUME HistoryInv, ConfirmedSeen, NEW p \in Procs, Begin(p),
           procs'[p].pc = "add"
    PROVE  ClearIn(db, Len(procs'[p].obs.hist)) /\ db' = db
<1> DEFINE o == Observed(chain.time)
           h == Offers(view.blocks)
<1>1. ~Yield(p)
  BY YieldFine
<1>2. /\ procs' = [procs EXCEPT ![p].pc = "add", ![p].obs = o]
      /\ ActionsSettled(db) /\ UNCHANGED db
  BY <1>1 DEF Begin
<1>3. o.hist = h /\ Lawful(h) /\ h \in Seq(Nat)
  BY Spelled, ObservedType, OffersLawful DEF HistoryInv
<1>4. procs'[p].obs = o
  <2>1. procs[p] \in Places /\ procs \in [Procs -> Places]
    BY DEF HistoryInv, TypeInv
  <2> HIDE DEF o
  <2> QED
    BY <1>2, <2>1 DEF Places
<1> HIDE DEF o, h
<1>5. ASSUME NEW t \in 1..Len(db.turns), db.turns[t].action # 0,
             db.turns[t].status = "confirmed"
      PROVE  db.turns[t].seq <= Len(h)
  <2>1. PICK k \in 1..Len(h) : h[k] = db.turns[t].action
    BY <1>5 DEF ConfirmedSeen, ConfirmedIn, Holds, h
  <2>2. PICK u \in 1..Len(db.turns) : /\ db.turns[u].action = h[k]
                                      /\ db.turns[u].seq = k
    BY <1>3, LawfulKnown
  <2>3. t = u
    BY <1>5, <2>1, <2>2, ActionOnce
  <2> QED
    BY <1>3, <2>2, <2>3
<1>6. \A t \in 1..Len(db.turns) :
          db.turns[t].action # 0 => db.turns[t].status \in Settled
  BY <1>2, Spelled DEF ActionsSettled
<1> QED
  BY <1>2, <1>3, <1>4, <1>5, <1>6 DEF ClearIn

LEMMA AdvanceAlone ==
    ASSUME HistoryInv, Alone, ConfirmedSeen, ClearAhead, NEW p \in Procs,
           Advance(p)
    PROVE  Alone' /\ ClearAhead'
<1>1. /\ UNCHANGED <<owner, faults>>
      /\ \A o \in Procs : o # p => procs'[o] = procs[o]
      /\ owner = p \/ procs[p].pc # "idle"
      /\ procs'[p].pc = "add" => Begin(p)
  BY AdvanceMoves
<1>2. ~faults.takeover => p = owner
  BY <1>1 DEF Alone
<1>3. Alone'
  BY <1>1, <1>2 DEF Alone
<1>4. ASSUME ~faults.takeover, NEW o \in Procs, procs'[o].pc = "add"
      PROVE  ClearIn(db', Len(procs'[o].obs.hist))
  <2>1. o = p
    BY <1>1, <1>2, <1>4 DEF Alone
  <2> QED
    BY <1>1, <1>4, <2>1, BeginClears
<1> QED
  BY <1>1, <1>3, <1>4 DEF ClearAhead

(* The steps of the agents, the chain, the operator and the faults.        *)
Outside ==
    /\ Edited(db, db')
    /\ view' = view
    /\ \A o \in Procs : procs'[o] = procs[o] \/ procs'[o] = Stopped
    /\ ~faults'.takeover => ~faults.takeover /\ owner' = owner

LEMMA OutsideKeeps ==
    ASSUME HistoryInv, DoneCovers(view.blocks), Alone, ConfirmedSeen,
           ClearAhead, Outside
    PROVE  DoneCovers(view.blocks)' /\ Alone' /\ ConfirmedSeen' /\ ClearAhead'
<1>1. /\ \A h : ConfirmedIn(db, h) => ConfirmedIn(db', h)
      /\ \A n : ClearIn(db, n) => ClearIn(db', n)
  BY EditsKeepStatus DEF Outside
<1>2. DoneCovers(view.blocks)' /\ ConfirmedSeen'
  BY <1>1 DEF Outside, DoneCovers, ConfirmedSeen
<1>3. Alone'
  BY StoppedPlace DEF Outside, Alone
<1>4. ASSUME ~faults'.takeover, NEW o \in Procs, procs'[o].pc = "add"
      PROVE  ClearIn(db', Len(procs'[o].obs.hist))
  <2>1. procs'[o] = procs[o] /\ ~faults.takeover
    BY <1>4, StoppedPlace DEF Outside
  <2> QED
    BY <1>1, <1>4, <2>1 DEF ClearAhead
<1> QED
  BY <1>2, <1>3, <1>4 DEF ClearAhead

LEMMA OutsideSteps ==
    ASSUME HistoryInv, [Next]_vars, ~\E p \in Procs : Advance(p)
    PROVE  Outside
<1>1. Edited(db, db) /\ db \in Data
  BY Spelled, EditedKeeps
<1>2. CASE db' = db /\ UNCHANGED <<view, procs, owner, faults>>
  BY <1>1, <1>2 DEF Outside
<1>3. CASE \E q \in Parties : AgentStep(q)
  BY <1>2, <1>3 DEF AgentStep, Receive, Dequeue, Decide
<1>4. CASE MineNext \/ Deepen \/ Pass \/ UNCHANGED vars
  BY <1>2, <1>4 DEF MineNext, Mine, MineEnd, Deepen, Pass, vars
<1>5. faults \in [left : Nat, takeover : BOOLEAN]
  BY DEF HistoryInv, TypeInv
<1>6. ASSUME NEW k, Inject(k) PROVE faults'.takeover = faults.takeover
  BY <1>5, <1>6 DEF Inject
<1>7. CASE Resume \/ Abort
  <2>1. faults'.takeover = faults.takeover
    BY <1>5, <1>6, <1>7 DEF Resume, Abort
  <2>2. Edited(db, db')
    BY <1>1, <1>7, RunEdits DEF Resume, Abort, Stages
  <2> QED
    BY <1>7, <2>1, <2>2 DEF Resume, Abort, Outside
<1>8. CASE Reorg
  BY <1>1, <1>6, <1>8 DEF Reorg, Outside
<1>9. ASSUME NEW p \in Procs, Yield(p)
      PROVE  \A o \in Procs : procs'[o] = procs[o] \/ procs'[o] = Stopped
  BY <1>9 DEF Yield, HistoryInv, TypeInv
<1>10. CASE Crash
  <2>1. owner \in Procs
    BY DEF HistoryInv, TypeInv
  <2> QED
    BY <1>1, <1>6, <1>9, <1>10, <2>1 DEF Crash, Outside
<1>11. ASSUME NEW p \in Procs, Timeout(p) PROVE Outside
  <2>1. Edited(db, db')
    BY <1>1, <1>11, RunEdits DEF Timeout, Stages
  <2> QED
    BY <1>6, <1>9, <1>11, <2>1 DEF Timeout, Outside
<1>12. ASSUME NEW p \in Procs, TakeOver(p) PROVE Outside
  <2>1. faults'.takeover
    BY <1>5, <1>12 DEF TakeOver
  <2> QED
    BY <1>1, <1>12, <2>1 DEF TakeOver, Outside
<1>13. ASSUME NEW q \in Parties, AgentRestart(q) PROVE Outside
  <2> DEFINE gone == {r \in reqs : r.party = q}
  <2>1. procs' = [p \in Procs |-> IF \E r \in gone : r.from = p
                                  THEN Stopped ELSE procs[p]]
    BY <1>13 DEF AgentRestart
  <2> HIDE DEF gone
  <2>2. \A o \in Procs : procs'[o] = procs[o] \/ procs'[o] = Stopped
    BY <2>1
  <2> QED
    BY <1>1, <1>6, <1>13, <2>2 DEF AgentRestart, Outside
<1> QED
  BY <1>3, <1>4, <1>7, <1>8, <1>10, <1>11, <1>12, <1>13 DEF Next, Fault

LEMMA DecisionStep == DecisionInv /\ [Next]_vars => DecisionInv'
<1> SUFFICES ASSUME DecisionInv, [Next]_vars PROVE DecisionInv'
  OBVIOUS
<1>1. /\ HistoryInv /\ DoneCovers(chain.blocks) /\ DoneCovers(view.blocks)
      /\ Alone /\ ConfirmedSeen /\ ClearAhead
  BY DEF DecisionInv
<1>2. HistoryInv' /\ DoneCovers(chain.blocks)'
  BY <1>1, HistoryStep, ChainCovers
<1>3. DoneCovers(view.blocks)' /\ Alone' /\ ConfirmedSeen' /\ ClearAhead'
  <2>1. CASE \E p \in Procs : Advance(p)
    BY <1>1, <2>1, AdvanceConfirms, AdvanceAlone
  <2>2. CASE ~\E p \in Procs : Advance(p)
    BY <1>1, <2>2, OutsideSteps, OutsideKeeps
  <2> QED
    BY <2>1, <2>2
<1> QED
  BY <1>2, <1>3 DEF DecisionInv

LEMMA DecisionInit == Init => DecisionInv
<1> SUFFICES ASSUME Init PROVE DecisionInv
  OBVIOUS
<1>1. HistoryInv
  BY HistoryInit
<1>2. DoneCovers(chain.blocks) /\ DoneCovers(view.blocks)
  BY DEF Init, DoneCovers
<1>3. \A p \in Procs : procs[p] = Stopped /\ procs[p].pc = "idle"
  BY StoppedPlace DEF Init
<1>4. Alone /\ ClearAhead
  BY <1>3 DEF Alone, ClearAhead
<1>5. ConfirmedSeen
  BY DEF Init, ConfirmedSeen, ConfirmedIn
<1> QED
  BY <1>1, <1>2, <1>4, <1>5 DEF DecisionInv

LEMMA NewTurnIsClear ==
    ASSUME DecisionInv, [Next]_vars, ~faults.takeover,
           NEW n \in DOMAIN db'.turns \ DOMAIN db.turns,
           NEW t \in DOMAIN db.turns,
           db.turns[t].action # 0, db.turns[t].seq = db'.turns[n].seq
    PROVE  db.turns[t].status = "reverted"
<1>1. HistoryInv /\ HistoryInv' /\ ClearAhead
  BY HistoryStep DEF DecisionInv
<1>2. /\ DOMAIN db.turns = 1..Len(db.turns) /\ Len(db.turns) \in Nat
      /\ DOMAIN db'.turns = 1..Len(db'.turns) /\ db \in Data
  BY <1>1, Spelled DEF HistoryInv, TypeInv, Data
<1>3. CASE Len(db'.turns) = Len(db.turns)
  BY <1>2, <1>3
<1>4. ASSUME NEW p \in Procs, AddTurn(p)
      PROVE  db.turns[t].status = "reverted"
  <2>1. /\ Len(db'.turns) = Len(db.turns) + 1
        /\ db'.turns[Len(db.turns) + 1].seq = Len(procs[p].obs.hist) + 1
        /\ procs[p].obs.hist \in Seq(Nat)
    BY <1>1, <1>4, AddTurnRow
  <2>2. n = Len(db.turns) + 1
    BY <1>2, <2>1
  <2>3. ClearIn(db, Len(procs[p].obs.hist))
    BY <1>1, <1>4 DEF ClearAhead, AddTurn, At
  <2>4. ~(db.turns[t].seq <= Len(procs[p].obs.hist))
    BY <2>1, <2>2
  <2>5. db.turns[t].status \in Settled /\ db.turns[t].status # "confirmed"
    BY <1>2, <2>3, <2>4 DEF ClearIn
  <2> QED
    BY <2>5 DEF Settled
<1>5. ASSUME NEW p \in Procs, Advance(p), ~AddTurn(p)
      PROVE  Len(db'.turns) = Len(db.turns)
  <2>1. CASE Tick(p)
    BY <1>1, <2>1, TickTurns DEF SameTurns
  <2>2. CASE Submit(p) \/ Record(p)
    <3>1. ConfirmedIn(db, Offers(view.blocks))
      BY DEF DecisionInv, ConfirmedSeen
    <3> QED
      BY <1>1, <2>2, <3>1, SubmitConfirms, RecordConfirms
  <2>3. CASE ~(Tick(p) \/ Submit(p) \/ Record(p))
    <3>1. Edited(db, db')
      BY <1>1, <1>5, <2>3, QuietEdits DEF Advance
    <3> QED
      BY <3>1 DEF Edited, SameTurns
  <2> QED
    BY <2>1, <2>2, <2>3
<1>6. CASE ~\E p \in Procs : Advance(p)
  BY <1>1, <1>3, <1>6, OutsideSteps DEF Outside, Edited, SameTurns
<1> QED
  BY <1>3, <1>4, <1>5, <1>6

(* Unless a second process interfered, no turn is begun on a sequence that *)
(* a recorded action may still take: what a reorg set back to submitted    *)
(* holds the next turn until its own fate is known (builder.py             *)
(* _actions_settled).                                                      *)
THEOREM NoSecondDecisionTheorem == Spec => NoSecondDecision
<1>1. DecisionInv /\ [Next]_vars =>
        [\A n \in DOMAIN db'.turns \ DOMAIN db.turns :
           ~faults.takeover =>
             \A t \in DOMAIN db.turns :
               (db.turns[t].action # 0 /\ db.turns[t].seq = db'.turns[n].seq)
                 => db.turns[t].status = "reverted"]_vars
  BY NewTurnIsClear
<1> QED
  BY <1>1, DecisionInit, DecisionStep, PTL DEF Spec, NoSecondDecision
=============================================================================
