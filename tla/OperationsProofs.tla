-------------------------- MODULE OperationsProofs --------------------------
(***************************************************************************)
(* What holds of Operations for any number of requests, any requests they  *)
(* make, and any number of crashes and of the driver's moves: a reader of  *)
(* the run's events misses none, and the work of a key is done once.       *)
(*                                                                         *)
(* The two parts of the state are independent: the log and the driver's    *)
(* open unit of work (LogInv), and the keys with the requests that claim   *)
(* them (KeysInv).                                                         *)
(***************************************************************************)
EXTENDS Operations, FiniteSetTheorems, TLAPS

-----------------------------------------------------------------------------
(* The log *)

(* The cursors are 1, 2, ... without a gap, and the event of an open unit  *)
(* of work has the next one: while it is open nothing else is appended.    *)
LogInv ==
    /\ IsFiniteSet(log)
    /\ {e.cursor : e \in log} = 1..LastCursor
    /\ writing # NoEvent => writing.of.cursor = LastCursor + 1

(* What a step does to the log.                                            *)
LogStep ==
    \/ UNCHANGED <<log, writing>>
    \/ log' = log /\ writing' = NoEvent
    \/ writing = NoEvent /\ UNCHANGED writing /\ \E e : log' = log \cup {Event(e)}
    \/ log' = log /\ \E e, to : writing' = [type |-> "move", of |-> Event(e), to |-> to]
    \/ writing # NoEvent /\ log' = log \cup {writing.of} /\ writing' = NoEvent

(* An event with the next cursor is new, and the cursors still run on.     *)
LEMMA NextCursor ==
    ASSUME LogInv, NEW x, x.cursor = LastCursor + 1
    PROVE  /\ x \notin log
           /\ IsFiniteSet(log \cup {x})
           /\ Cardinality(log \cup {x}) = LastCursor + 1
           /\ {e.cursor : e \in log \cup {x}} = 1..(LastCursor + 1)
           /\ \A e \in log : e.cursor \in 1..LastCursor
<1>1. LastCursor \in Nat
  BY FS_CardinalityType DEF LogInv, LastCursor
<1>2. \A e \in log : e.cursor \in 1..LastCursor
  BY DEF LogInv
<1>3. x \notin log
  BY <1>1, <1>2
<1>4. IsFiniteSet(log \cup {x}) /\ Cardinality(log \cup {x}) = LastCursor + 1
  BY <1>3, FS_AddElement DEF LogInv, LastCursor
<1>5. {e.cursor : e \in log \cup {x}} = {e.cursor : e \in log} \cup {LastCursor + 1}
  OBVIOUS
<1>6. 1..(LastCursor + 1) = 1..LastCursor \cup {LastCursor + 1}
  BY <1>1
<1> QED BY <1>2, <1>3, <1>4, <1>5, <1>6 DEF LogInv

LEMMA LogInit == Init => LogInv
<1> SUFFICES ASSUME Init PROVE LogInv
  OBVIOUS
<1>1. log = {} /\ writing = NoEvent
  BY DEF Init
<1>2. IsFiniteSet(log) /\ LastCursor = 0
  BY <1>1, FS_EmptySet DEF LastCursor
<1>3. {e.cursor : e \in log} = {} /\ 1..0 = {}
  BY <1>1
<1> QED BY <1>1, <1>2, <1>3 DEF LogInv

LEMMA LogStepKeeps ==
    ASSUME LogInv, LogStep
    PROVE  LogInv' /\ \A e \in log' \ log : \A x \in log : e.cursor > x.cursor
<1>0. LastCursor \in Nat
  BY FS_CardinalityType DEF LogInv, LastCursor
<1>1. CASE UNCHANGED <<log, writing>>
  BY <1>1 DEF LogInv, LastCursor
<1>2. CASE log' = log /\ writing' = NoEvent
  BY <1>2 DEF LogInv, LastCursor
<1>3. CASE writing = NoEvent /\ UNCHANGED writing /\ \E e : log' = log \cup {Event(e)}
  <2>1. PICK e : log' = log \cup {Event(e)}
    BY <1>3
  <2>2. Event(e).cursor = LastCursor + 1
    BY DEF Event
  <2>3. LastCursor' = LastCursor + 1 /\ IsFiniteSet(log') /\ {x.cursor : x \in log'} = 1..(LastCursor + 1)
    BY <2>1, <2>2, NextCursor DEF LastCursor
  <2>4. \A x \in log' \ log : \A y \in log : x.cursor > y.cursor
    BY <1>0, <2>1, <2>2, NextCursor
  <2> QED BY <1>3, <2>3, <2>4 DEF LogInv
<1>4. CASE log' = log /\ \E e, to : writing' = [type |-> "move", of |-> Event(e), to |-> to]
  <2>1. writing'.of.cursor = LastCursor + 1
    BY <1>4 DEF Event
  <2> QED BY <1>4, <2>1 DEF LogInv, LastCursor
<1>5. CASE writing # NoEvent /\ log' = log \cup {writing.of} /\ writing' = NoEvent
  <2>1. writing.of.cursor = LastCursor + 1
    BY <1>5 DEF LogInv
  <2>2. LastCursor' = LastCursor + 1 /\ IsFiniteSet(log') /\ {x.cursor : x \in log'} = 1..(LastCursor + 1)
    BY <1>5, <2>1, NextCursor DEF LastCursor
  <2>3. \A y \in log : y.cursor \in 1..LastCursor
    BY <2>1, NextCursor
  <2>4. \A x \in log' \ log : \A y \in log : x.cursor > y.cursor
    BY <1>0, <1>5, <2>1, <2>3
  <2> QED BY <1>5, <2>2, <2>4 DEF LogInv
<1> QED BY <1>1, <1>2, <1>3, <1>4, <1>5 DEF LogStep

LEMMA NextIsLogStep == [Next]_vars => LogStep
<1> SUFFICES ASSUME [Next]_vars PROVE LogStep
  OBVIOUS
<1>1. ASSUME NEW r \in Requests, Handle(r) PROVE LogStep
  <2>1. CASE \/ Look(r) \/ Create(r) \/ ReadCursor(r) \/ ActSilently(r) \/ Refuse(r)
             \/ FreeKey(r) \/ AnswerRefused(r) \/ Answer(r)
    BY <2>1 DEF LogStep, Look, Create, ReadCursor, ActSilently, Refuse, FreeKey,
                AnswerRefused, Answer, driverVars
  <2>2. CASE \E to \in Results(Kind(r)) : Act(r, to)
    BY <2>2 DEF LogStep, Act, Append, RowFree, driverVars
  <2>3. CASE RecordRefused(r)
    BY <2>3 DEF LogStep, RecordRefused, Append, RowFree, driverVars
  <2>4. CASE Accept(r)
    BY <2>4 DEF LogStep, Accept, Append, RowFree, driverVars
  <2> QED BY <1>1, <2>1, <2>2, <2>3, <2>4 DEF Handle
<1>2. ASSUME NEW r \in Requests, Follow(r) PROVE LogStep
  BY <1>2 DEF LogStep, Follow, Append, RowFree, driverVars
<1>3. ASSUME NEW r \in Requests, Reread(r) \/ Leave(r) PROVE LogStep
  BY <1>3 DEF LogStep, Reread, Leave, driverVars
<1>4. ASSUME NEW to, BeginMove(to) PROVE LogStep
  BY <1>4 DEF LogStep, BeginMove
<1>5. CASE CommitMove
  BY <1>5 DEF LogStep, CommitMove
<1>6. CASE Crash
  BY <1>6 DEF LogStep, Crash
<1>7. CASE Restart
  BY <1>7 DEF LogStep, Restart, driverVars
<1>8. CASE UNCHANGED vars
  BY <1>8 DEF LogStep, vars, driverVars
<1> QED BY <1>1, <1>2, <1>3, <1>4, <1>5, <1>6, <1>7, <1>8 DEF Next

(* The run's event log (db/repositories/operational.py, append): whatever  *)
(* appends at once, commits late, or dies, the committed cursors are       *)
(* 1, 2, ... without a gap.                                                *)
CursorsRunOn == {e.cursor : e \in log} = 1..Cardinality(log)

THEOREM LogIsGapless == Spec => []CursorsRunOn
<1>1. LogInv /\ [Next]_vars => LogInv'
  BY NextIsLogStep, LogStepKeeps
<1>2. LogInv => CursorsRunOn
  BY DEF LogInv, CursorsRunOn, LastCursor
<1> QED BY LogInit, <1>1, <1>2, PTL DEF Spec

(* Nothing is committed at or below a cursor a reader may have read past   *)
(* (routes/sse.py, stream; routes/operations.py, the tracker's follow).    *)
THEOREM ReadersMissNothingTheorem == Spec => ReadersMissNothing
<1>1. LogInv /\ [Next]_vars => LogInv'
  BY NextIsLogStep, LogStepKeeps
<1>2. LogInv /\ [Next]_vars =>
        [\A e \in log' \ log : \A x \in log : e.cursor > x.cursor]_log
  BY NextIsLogStep, LogStepKeeps
<1> QED BY LogInit, <1>1, <1>2, PTL DEF Spec, ReadersMissNothing

-----------------------------------------------------------------------------
(* The keys *)

Phases == {"new", "creating", "claimed", "acting", "acted", "refusing", "freeing",
           "refused", "answered", "replayed", "conflict", "dead"}
Asks == {plan[r] : plan \in Plans, r \in Requests}
RunState == [state : States, cause : Causes]
Statuses == {"", "none", "pending", "running", "succeeded", "failed"}
Errors == {"", "left", "earlier", "later", "interrupted", "refused"}
Row == [status : Statuses, error : Errors, key : BOOLEAN, born : Nat, expired : BOOLEAN]
Request == [ask : Asks, pc : Phases, done : BOOLEAN,
            from : Nat, own : Nat, left : RunState]
Watch == [on : BOOLEAN, from : Nat, own : Nat]

KeysType ==
    /\ run \in [state : States, cause : Causes, ending : BOOLEAN]
    /\ writing # NoEvent => writing.to \in RunState
    /\ ops \in [Requests -> Row]
    /\ req \in [Requests -> Request]
    /\ watch \in [Requests -> Watch]
    /\ up \in BOOLEAN

InWork(r) == req[r].pc \in {"claimed", "acting", "acted", "refusing", "freeing"}
GivenUp(o) == \/ ops[o].expired
              \/ ops[o].status = "failed" /\ ops[o].error \in {"interrupted", "refused"}

(* A request at work holds its key's row, still pending; one that has not  *)
(* begun holds none; an operation is running only when its request was     *)
(* answered; and a key whose work was done is held or was given up.        *)
KeyInv(r) ==
    /\ InWork(r) => up
    /\ req[r].pc \in {"new", "creating"} => ~ops[r].key /\ ~req[r].done
    /\ InWork(r) /\ req[r].pc # "freeing" /\ Keyed(r) => ops[r].key
    /\ req[r].pc = "freeing" => ops[r].status = "failed" /\ ops[r].error = "refused"
    /\ ops[r].status = "running" => req[r].pc = "answered"
    /\ watch[r].on => ops[r].status = "running"
    /\ ops[r].key => Keyed(r)
    /\ req[r].done /\ Keyed(r) => ops[r].key \/ GivenUp(r)

(* Two rows never hold one key on one route.                               *)
KeysApart ==
    \A r, o \in Requests :
        r # o /\ ops[r].key /\ ops[o].key /\ Kind(r) = Kind(o)
            => req[r].ask.key # req[o].ask.key

KeysInv ==
    /\ KeysType
    /\ \A r \in Requests : KeyInv(r)
    /\ KeysApart

LEMMA KeysInit == Init => KeysInv
<1> SUFFICES ASSUME Init PROVE KeysInv
  OBVIOUS
<1>1. PICK asks \in Plans :
        req = [r \in Requests |-> [ask |-> asks[r], pc |-> "new", done |-> FALSE,
                                   from |-> 0, own |-> 0, left |-> First]]
  BY DEF Init
<1>2. \A r \in Requests : asks[r] \in Asks
  BY DEF Asks
<1>3. KeysType
  <2>0. First \in RunState
    BY OperationsAssumption DEF RunState
  <2>1. req \in [Requests -> Request]
    BY <1>1, <1>2, <2>0 DEF Request, Phases
  <2>2. ops \in [Requests -> Row]
    <3>1. None \in Row
      BY DEF None, Row, Statuses, Errors
    <3> QED BY <3>1 DEF Init
  <2>3. watch \in [Requests -> Watch]
    BY DEF Init, Watch, NoWatch
  <2>4. run \in [state : States, cause : Causes, ending : BOOLEAN]
    BY OperationsAssumption DEF Init
  <2> QED BY <2>1, <2>2, <2>3, <2>4 DEF Init, KeysType
<1>4. \A r \in Requests : KeyInv(r)
  BY <1>1 DEF Init, KeyInv, InWork, Keyed, None, NoWatch
<1>5. KeysApart
  BY DEF Init, KeysApart, None
<1> QED BY <1>3, <1>4, <1>5 DEF KeysInv

(* Asks do not change, so keys stay apart when no new one is taken.        *)
LEMMA NoNewKey ==
    ASSUME KeysInv, KeysType',
           \A o \in Requests : req'[o].ask = req[o].ask,
           \A o \in Requests : ops'[o].key => ops[o].key
    PROVE  KeysApart'
BY DEF KeysInv, KeysApart, Kind


(* What a step makes of a request, of a row.                               *)
LEMMA RequestBecomes ==
    ASSUME KeysType, NEW r \in Requests, NEW q \in Request, q.ask = req[r].ask,
           req' = [req EXCEPT ![r] = q]
    PROVE  /\ req' \in [Requests -> Request]
           /\ req'[r] = q
           /\ \A o \in Requests : req'[o].ask = req[o].ask /\ (o # r => req'[o] = req[o])
BY DEF KeysType

LEMMA RowBecomes ==
    ASSUME KeysType, NEW r \in Requests, NEW row \in Row, ops' = [ops EXCEPT ![r] = row]
    PROVE  /\ ops' \in [Requests -> Row]
           /\ ops'[r] = row
           /\ \A o \in Requests : o # r => ops'[o] = ops[o]
BY DEF KeysType

LEMMA RequestEdits ==
    ASSUME NEW q \in Request, NEW pc \in Phases, NEW left \in RunState, NEW n \in Nat
    PROVE  /\ [q EXCEPT !.pc = pc] \in Request
           /\ [q EXCEPT !.pc = pc, !.from = n] \in Request
           /\ [q EXCEPT !.left = left] \in Request
           /\ [q EXCEPT !.pc = pc, !.left = left, !.done = TRUE, !.own = n] \in Request
BY DEF Request

LEMMA RowEdits ==
    ASSUME NEW x \in Row, NEW s \in Statuses, NEW e \in Errors
    PROVE  /\ [x EXCEPT !.status = s] \in Row
           /\ [x EXCEPT !.status = s, !.error = e] \in Row
           /\ [x EXCEPT !.key = FALSE] \in Row
           /\ [x EXCEPT !.key = FALSE, !.expired = TRUE] \in Row
           /\ [x EXCEPT !.status = s, !.error = e, !.key = FALSE] \in Row
           /\ [x EXCEPT !.key = FALSE, !.status = s, !.error = e] \in Row
BY DEF Row

LEMMA FirstType == First \in RunState
BY OperationsAssumption DEF RunState

LEMMA OverType ==
    ASSUME NEW q \in Request, NEW pc \in Phases
    PROVE  /\ Over(q, pc) \in Request
           /\ Over(q, pc).ask = q.ask /\ Over(q, pc).done = q.done /\ Over(q, pc).pc = pc
<1>1. First \in RunState
  BY FirstType
<1> QED BY <1>1 DEF Over, Request

LEMMA ReadCursorKeeps ==
    ASSUME KeysInv, LastCursor \in Nat, NEW r \in Requests, ReadCursor(r)
    PROVE  KeysInv'
<1> USE DEF KeysInv, KeysType, ReadCursor, RequestAt
<1> DEFINE q == [req[r] EXCEPT !.pc = "acting", !.from = LastCursor]
<1>1. q \in Request /\ q.ask = req[r].ask
  <2>1. req[r] \in Request /\ State(run.state, run.cause) \in RunState
    BY DEF RunState, State
  <2>2. q \in Request
    BY <2>1, RequestEdits DEF Phases
  <2> QED BY <2>1, <2>2 DEF Request
<1>2. req' \in [Requests -> Request] /\ req'[r] = q
      /\ \A o \in Requests : req'[o].ask = req[o].ask /\ (o # r => req'[o] = req[o])
  BY <1>1, RequestBecomes
<1>5. ops' \in [Requests -> Row]
  BY DEF Row, Statuses, Errors
<1>6. watch' \in [Requests -> Watch]
  BY DEF Watch
<1>7. KeysType'
  BY <1>1, <1>2, <1>5, <1>6 DEF RunState, driverVars, processVars
<1>8. ASSUME NEW o \in Requests PROVE KeyInv(o)'
  BY <1>1, <1>2, <1>5 DEF KeyInv, InWork, Keyed, Kind, Long, GivenUp, Request, Row, driverVars, processVars
<1>9. KeysApart'
  <2>1. \A o \in Requests : ops'[o].key => ops[o].key
    BY <1>5 DEF Row
  <2> QED BY <1>1, <1>2, <1>7, <2>1, NoNewKey
<1> QED BY <1>7, <1>8, <1>9

LEMMA ActKeeps ==
    ASSUME KeysInv, LastCursor \in Nat, NEW r \in Requests, NEW to, Act(r, to), to \in RunState
    PROVE  KeysInv'
<1> USE DEF KeysInv, KeysType, Act, RequestAt, Did, Append
<1> DEFINE q == [req[r] EXCEPT !.pc = "acted", !.left = to, !.done = TRUE, !.own = LastCursor]
<1>1. q \in Request /\ q.ask = req[r].ask
  <2>1. req[r] \in Request /\ State(run.state, run.cause) \in RunState
    BY ZenonT(60) DEF RunState, State
  <2>2. q \in Request
    BY <2>1, RequestEdits DEF Phases
  <2> QED BY <2>1, <2>2 DEF Request
<1>2. req' \in [Requests -> Request] /\ req'[r] = q
      /\ \A o \in Requests : req'[o].ask = req[o].ask /\ (o # r => req'[o] = req[o])
  BY <1>1, RequestBecomes
<1>5. ops' \in [Requests -> Row]
  BY DEF Row, Statuses, Errors
<1>6. watch' \in [Requests -> Watch]
  BY DEF Watch
<1>7. KeysType'
  BY <1>1, <1>2, <1>5, <1>6 DEF RunState, driverVars, processVars
<1>8. ASSUME NEW o \in Requests PROVE KeyInv(o)'
  BY <1>1, <1>2, <1>5 DEF KeyInv, InWork, Keyed, Kind, Long, GivenUp, Request, Row, driverVars, processVars
<1>9. KeysApart'
  <2>1. \A o \in Requests : ops'[o].key => ops[o].key
    BY <1>5 DEF Row
  <2> QED BY <1>1, <1>2, <1>7, <2>1, NoNewKey
<1> QED BY <1>7, <1>8, <1>9

LEMMA ActSilentlyKeeps ==
    ASSUME KeysInv, LastCursor \in Nat, NEW r \in Requests, ActSilently(r)
    PROVE  KeysInv'
<1> USE DEF KeysInv, KeysType, ActSilently, RequestAt, Did, State
<1> DEFINE q == [req[r] EXCEPT !.pc = "acted", !.left = State(run.state, run.cause), !.done = TRUE, !.own = LastCursor]
<1>1. q \in Request /\ q.ask = req[r].ask
  <2>1. req[r] \in Request /\ State(run.state, run.cause) \in RunState
    BY ZenonT(60) DEF RunState, State
  <2>2. q \in Request
    BY <2>1, RequestEdits DEF Phases
  <2> QED BY <2>1, <2>2 DEF Request
<1>2. req' \in [Requests -> Request] /\ req'[r] = q
      /\ \A o \in Requests : req'[o].ask = req[o].ask /\ (o # r => req'[o] = req[o])
  BY <1>1, RequestBecomes
<1>5. ops' \in [Requests -> Row]
  BY DEF Row, Statuses, Errors
<1>6. watch' \in [Requests -> Watch]
  BY DEF Watch
<1>7. KeysType'
  BY <1>1, <1>2, <1>5, <1>6 DEF RunState, driverVars, processVars
<1>8. ASSUME NEW o \in Requests PROVE KeyInv(o)'
  <2>1. ops' = ops /\ watch' = watch /\ up' = up /\ KeyInv(o)
    BY DEF driverVars, processVars
  <2>2. /\ req[r].pc = "acting"
        /\ q.pc = "acted" /\ q.done
    BY <1>1 DEF Request
  <2> HIDE DEF q, ActSilently
  <2>3. CASE o # r
    BY <1>2, <2>1, <2>3 DEF KeyInv, InWork, Keyed, Kind, Long, GivenUp
  <2>4. CASE o = r
    BY <1>1, <1>2, <2>1, <2>2, <2>4 DEF KeyInv, InWork, Keyed, Kind, Long, GivenUp
  <2> QED
    BY <2>3, <2>4
<1>9. KeysApart'
  <2>1. \A o \in Requests : ops'[o].key => ops[o].key
    BY <1>5 DEF Row
  <2> QED BY <1>1, <1>2, <1>7, <2>1, NoNewKey
<1> QED BY <1>7, <1>8, <1>9

LEMMA RereadKeeps ==
    ASSUME KeysInv, LastCursor \in Nat, NEW r \in Requests, Reread(r)
    PROVE  KeysInv'
<1> USE DEF KeysInv, KeysType, Reread, RequestAt, State
<1> DEFINE q == [req[r] EXCEPT !.left = State(run.state, run.cause)]
<1>1. q \in Request /\ q.ask = req[r].ask
  <2>1. req[r] \in Request /\ State(run.state, run.cause) \in RunState
    BY ZenonT(60) DEF RunState, State
  <2>2. q \in Request
    BY <2>1, RequestEdits DEF Phases
  <2> QED BY <2>1, <2>2 DEF Request
<1>2. req' \in [Requests -> Request] /\ req'[r] = q
      /\ \A o \in Requests : req'[o].ask = req[o].ask /\ (o # r => req'[o] = req[o])
  BY <1>1, RequestBecomes
<1>5. ops' \in [Requests -> Row]
  BY DEF Row, Statuses, Errors
<1>6. watch' \in [Requests -> Watch]
  BY DEF Watch
<1>7. KeysType'
  BY <1>1, <1>2, <1>5, <1>6 DEF RunState, driverVars, processVars
<1>8. ASSUME NEW o \in Requests PROVE KeyInv(o)'
  BY <1>1, <1>2, <1>5 DEF KeyInv, InWork, Keyed, Kind, Long, GivenUp, Request, Row, driverVars, processVars
<1>9. KeysApart'
  <2>1. \A o \in Requests : ops'[o].key => ops[o].key
    BY <1>5 DEF Row
  <2> QED BY <1>1, <1>2, <1>7, <2>1, NoNewKey
<1> QED BY <1>7, <1>8, <1>9

LEMMA RefuseKeeps ==
    ASSUME KeysInv, LastCursor \in Nat, NEW r \in Requests, Refuse(r)
    PROVE  KeysInv'
<1> USE DEF KeysInv, KeysType, Refuse, RequestAt
<1>1. PICK pc \in {"refusing"} : req' = [req EXCEPT ![r] = Over(req[r], pc)]
  BY DEF Leaves
<1> DEFINE q == Over(req[r], pc)
<1>2. q \in Request /\ q.ask = req[r].ask /\ q.done = req[r].done /\ q.pc = pc
  BY OverType DEF Phases
<1>3. req' \in [Requests -> Request] /\ req'[r] = q
      /\ \A o \in Requests : req'[o].ask = req[o].ask /\ (o # r => req'[o] = req[o])
  BY <1>1, <1>2, RequestBecomes
<1> HIDE DEF q
<1>5. ops' \in [Requests -> Row]
  BY DEF Row, Statuses, Errors
<1>6. watch' \in [Requests -> Watch]
  BY DEF Watch
<1>7. KeysType'
  BY <1>1, <1>2, <1>3, <1>5, <1>6 DEF RunState, driverVars, processVars
<1>8. ASSUME NEW o \in Requests PROVE KeyInv(o)'
  BY <1>1, <1>2, <1>3, <1>5 DEF KeyInv, InWork, Keyed, Kind, Long, GivenUp, Request, Row, driverVars, processVars
<1>9. KeysApart'
  <2>1. \A o \in Requests : ops'[o].key => ops[o].key
    BY <1>5 DEF Row
  <2> QED BY <1>1, <1>2, <1>3, <1>7, <2>1, NoNewKey
<1> QED BY <1>7, <1>8, <1>9

LEMMA LeaveKeeps ==
    ASSUME KeysInv, LastCursor \in Nat, NEW r \in Requests, Leave(r)
    PROVE  KeysInv'
<1> USE DEF KeysInv, KeysType, Leave, RequestAt
<1>1. PICK pc \in {"refusing", "dead"} : req' = [req EXCEPT ![r] = Over(req[r], pc)]
  BY DEF Leaves
<1> DEFINE q == Over(req[r], pc)
<1>2. q \in Request /\ q.ask = req[r].ask /\ q.done = req[r].done /\ q.pc = pc
  BY OverType DEF Phases
<1>3. req' \in [Requests -> Request] /\ req'[r] = q
      /\ \A o \in Requests : req'[o].ask = req[o].ask /\ (o # r => req'[o] = req[o])
  BY <1>1, <1>2, RequestBecomes
<1> HIDE DEF q
<1>5. ops' \in [Requests -> Row]
  BY DEF Row, Statuses, Errors
<1>6. watch' \in [Requests -> Watch]
  BY DEF Watch
<1>7. KeysType'
  BY <1>1, <1>2, <1>3, <1>5, <1>6 DEF RunState, driverVars, processVars
<1>8. ASSUME NEW o \in Requests PROVE KeyInv(o)'
  BY <1>1, <1>2, <1>3, <1>5 DEF KeyInv, InWork, Keyed, Kind, Long, GivenUp, Request, Row, driverVars, processVars
<1>9. KeysApart'
  <2>1. \A o \in Requests : ops'[o].key => ops[o].key
    BY <1>5 DEF Row
  <2> QED BY <1>1, <1>2, <1>3, <1>7, <2>1, NoNewKey
<1> QED BY <1>7, <1>8, <1>9

LEMMA RecordRefusedKeeps ==
    ASSUME KeysInv, LastCursor \in Nat, NEW r \in Requests, RecordRefused(r)
    PROVE  KeysInv'
<1> USE DEF KeysInv, KeysType, RecordRefused, RequestAt, Goto, Refused, Append
<1> DEFINE q == [req[r] EXCEPT !.pc = "freeing"]
<1>1. q \in Request /\ q.ask = req[r].ask
  <2>1. req[r] \in Request /\ State(run.state, run.cause) \in RunState
    BY ZenonT(60) DEF RunState, State
  <2>2. q \in Request
    BY ZenonT(60), <2>1, RequestEdits DEF Phases
  <2> QED BY <2>1, <2>2 DEF Request
<1>2. req' \in [Requests -> Request] /\ req'[r] = q
      /\ \A o \in Requests : req'[o].ask = req[o].ask /\ (o # r => req'[o] = req[o])
  BY <1>1, RequestBecomes
<1> DEFINE row == [ops[r] EXCEPT !.status = "failed", !.error = "refused"]
<1>4. row \in Row
  <2>1. ops[r] \in Row
    OBVIOUS
  <2> QED BY <2>1, RowEdits DEF Statuses, Errors
<1>5. ops' \in [Requests -> Row] /\ ops'[r] = row
      /\ \A o \in Requests : o # r => ops'[o] = ops[o]
  BY <1>4, RowBecomes
<1>6. watch' \in [Requests -> Watch]
  BY DEF Watch
<1>7. KeysType'
  BY <1>1, <1>2, <1>4, <1>5, <1>6 DEF RunState, driverVars, processVars
<1>8. ASSUME NEW o \in Requests PROVE KeyInv(o)'
  BY <1>1, <1>2, <1>4, <1>5 DEF KeyInv, InWork, Keyed, Kind, Long, GivenUp, Request, Row, driverVars, processVars
<1>9. KeysApart'
  <2>1. \A o \in Requests : ops'[o].key => ops[o].key
    BY <1>4, <1>5 DEF Row
  <2> QED BY <1>1, <1>2, <1>7, <2>1, NoNewKey
<1> QED BY <1>7, <1>8, <1>9

LEMMA FreeKeyKeeps ==
    ASSUME KeysInv, LastCursor \in Nat, NEW r \in Requests, FreeKey(r)
    PROVE  KeysInv'
<1> USE DEF KeysInv, KeysType, FreeKey, RequestAt, Goto, Released
<1> DEFINE q == [req[r] EXCEPT !.pc = "refused"]
<1>1. q \in Request /\ q.ask = req[r].ask
  <2>1. req[r] \in Request /\ State(run.state, run.cause) \in RunState
    BY ZenonT(60) DEF RunState, State
  <2>2. q \in Request
    BY ZenonT(60), <2>1, RequestEdits DEF Phases
  <2> QED BY <2>1, <2>2 DEF Request
<1>2. req' \in [Requests -> Request] /\ req'[r] = q
      /\ \A o \in Requests : req'[o].ask = req[o].ask /\ (o # r => req'[o] = req[o])
  BY <1>1, RequestBecomes
<1> DEFINE row == [ops[r] EXCEPT !.key = FALSE]
<1>4. row \in Row
  <2>1. ops[r] \in Row
    OBVIOUS
  <2> QED BY <2>1, RowEdits DEF Statuses, Errors
<1>5. ops' \in [Requests -> Row] /\ ops'[r] = row
      /\ \A o \in Requests : o # r => ops'[o] = ops[o]
  BY <1>4, RowBecomes
<1>6. watch' \in [Requests -> Watch]
  BY DEF Watch
<1>7. KeysType'
  BY <1>1, <1>2, <1>4, <1>5, <1>6 DEF RunState, driverVars, processVars
<1>8. ASSUME NEW o \in Requests PROVE KeyInv(o)'
  BY <1>1, <1>2, <1>4, <1>5 DEF KeyInv, InWork, Keyed, Kind, Long, GivenUp, Request, Row, driverVars, processVars
<1>9. KeysApart'
  <2>1. \A o \in Requests : ops'[o].key => ops[o].key
    BY <1>4, <1>5 DEF Row
  <2> QED BY <1>1, <1>2, <1>7, <2>1, NoNewKey
<1> QED BY <1>7, <1>8, <1>9

LEMMA AnswerRefusedKeeps ==
    ASSUME KeysInv, LastCursor \in Nat, NEW r \in Requests, AnswerRefused(r)
    PROVE  KeysInv'
<1> USE DEF KeysInv, KeysType, AnswerRefused, RequestAt, Goto, Refused
<1> DEFINE q == [req[r] EXCEPT !.pc = "refused"]
<1>1. q \in Request /\ q.ask = req[r].ask
  <2>1. req[r] \in Request /\ State(run.state, run.cause) \in RunState
    BY ZenonT(60) DEF RunState, State
  <2>2. q \in Request
    BY ZenonT(60), <2>1, RequestEdits DEF Phases
  <2> QED BY <2>1, <2>2 DEF Request
<1>2. req' \in [Requests -> Request] /\ req'[r] = q
      /\ \A o \in Requests : req'[o].ask = req[o].ask /\ (o # r => req'[o] = req[o])
  BY <1>1, RequestBecomes
<1> DEFINE row == IF ops[r] = None THEN ops[r] ELSE [ops[r] EXCEPT !.status = "failed", !.error = "refused", !.key = FALSE]
<1>4. row \in Row
  <2>1. ops[r] \in Row
    OBVIOUS
  <2> QED BY <2>1, RowEdits DEF Statuses, Errors
<1>5. ops' \in [Requests -> Row] /\ ops'[r] = row
      /\ \A o \in Requests : o # r => ops'[o] = ops[o]
  BY <1>4, RowBecomes
<1>6. watch' \in [Requests -> Watch]
  BY DEF Watch
<1>7. KeysType'
  BY <1>1, <1>2, <1>4, <1>5, <1>6 DEF RunState, driverVars, processVars
<1>8. ASSUME NEW o \in Requests PROVE KeyInv(o)'
  <2>1. CASE o # r
    BY <1>1, <1>2, <1>5, <2>1 DEF KeyInv, InWork, Keyed, Kind, Long, GivenUp, driverVars, processVars
  <2>2. CASE o = r /\ ops[r] = None
    BY ZenonT(60), <1>1, <1>2, <1>5, <2>2
       DEF KeyInv, InWork, Keyed, Kind, Long, GivenUp, Request, None, driverVars, processVars
  <2>3. CASE o = r /\ ops[r] # None
    <3>1. ops'[r] = [ops[r] EXCEPT !.status = "failed", !.error = "refused", !.key = FALSE]
      BY <1>5, <2>3
    <3>2. QED
      BY <1>1, <1>2, <2>3, <3>1 DEF KeyInv, InWork, Keyed, Kind, Long, GivenUp, Request, Row, driverVars, processVars
  <2> QED BY <2>1, <2>2, <2>3
<1>9. KeysApart'
  <2>1. \A o \in Requests : ops'[o].key => ops[o].key
    BY <1>4, <1>5 DEF Row
  <2> QED BY <1>1, <1>2, <1>7, <2>1, NoNewKey
<1> QED BY <1>7, <1>8, <1>9

LEMMA AnswerKeeps ==
    ASSUME KeysInv, LastCursor \in Nat, NEW r \in Requests, Answer(r)
    PROVE  KeysInv'
<1> USE DEF KeysInv, KeysType, Answer, RequestAt
<1>1. PICK pc \in {"answered"} : req' = [req EXCEPT ![r] = Over(req[r], pc)]
  BY DEF Leaves
<1> DEFINE q == Over(req[r], pc)
<1>2. q \in Request /\ q.ask = req[r].ask /\ q.done = req[r].done /\ q.pc = pc
  BY OverType DEF Phases
<1>3. req' \in [Requests -> Request] /\ req'[r] = q
      /\ \A o \in Requests : req'[o].ask = req[o].ask /\ (o # r => req'[o] = req[o])
  BY <1>1, <1>2, RequestBecomes
<1> HIDE DEF q
<1> DEFINE row == IF ops[r] = None THEN ops[r] ELSE [ops[r] EXCEPT !.status = "succeeded"]
<1>4. row \in Row
  <2>1. ops[r] \in Row
    OBVIOUS
  <2> QED BY <2>1, RowEdits DEF Statuses, Errors
<1>5. ops' \in [Requests -> Row] /\ ops'[r] = row
      /\ \A o \in Requests : o # r => ops'[o] = ops[o]
  BY <1>4, RowBecomes
<1>6. watch' \in [Requests -> Watch]
  BY DEF Watch
<1>7. KeysType'
  BY <1>1, <1>2, <1>3, <1>4, <1>5, <1>6 DEF RunState, driverVars, processVars
<1>8. ASSUME NEW o \in Requests PROVE KeyInv(o)'
  BY <1>1, <1>2, <1>3, <1>4, <1>5 DEF KeyInv, InWork, Keyed, Kind, Long, GivenUp, Request, Row, driverVars, processVars
<1>9. KeysApart'
  <2>1. \A o \in Requests : ops'[o].key => ops[o].key
    BY <1>4, <1>5 DEF Row
  <2> QED BY <1>1, <1>2, <1>3, <1>7, <2>1, NoNewKey
<1> QED BY <1>7, <1>8, <1>9

LEMMA BeginMoveKeeps ==
    ASSUME KeysInv, LastCursor \in Nat, NEW to, BeginMove(to), to \in RunState
    PROVE  KeysInv'
<1> USE DEF KeysInv, KeysType, BeginMove, RowFree
<1>1. req' \in [Requests -> Request] /\ \A o \in Requests : req'[o].ask = req[o].ask
  BY DEF Request, Phases, RunState
<1>5. ops' \in [Requests -> Row]
  BY DEF Row, Statuses, Errors
<1>6. watch' \in [Requests -> Watch]
  BY DEF Watch
<1>7. KeysType'
  BY <1>1, <1>5, <1>6 DEF RunState, driverVars, processVars
<1>8. ASSUME NEW o \in Requests PROVE KeyInv(o)'
  BY <1>1, <1>5 DEF KeyInv, InWork, Keyed, Kind, Long, GivenUp, Request, Row, driverVars, processVars
<1>9. KeysApart'
  <2>1. \A o \in Requests : ops'[o].key => ops[o].key
    BY <1>5 DEF Row
  <2> QED BY <1>1, <1>7, <2>1, NoNewKey
<1> QED BY <1>7, <1>8, <1>9

LEMMA CommitMoveKeeps ==
    ASSUME KeysInv, LastCursor \in Nat, CommitMove
    PROVE  KeysInv'
<1> USE DEF KeysInv, KeysType, CommitMove
<1>1. req' \in [Requests -> Request] /\ \A o \in Requests : req'[o].ask = req[o].ask
  BY DEF Request, Phases, RunState
<1>5. ops' \in [Requests -> Row]
  BY DEF Row, Statuses, Errors
<1>6. watch' \in [Requests -> Watch]
  BY DEF Watch
<1>7. KeysType'
  BY <1>1, <1>5, <1>6 DEF RunState, driverVars, processVars
<1>8. ASSUME NEW o \in Requests PROVE KeyInv(o)'
  BY <1>1, <1>5 DEF KeyInv, InWork, Keyed, Kind, Long, GivenUp, Request, Row, driverVars, processVars
<1>9. KeysApart'
  <2>1. \A o \in Requests : ops'[o].key => ops[o].key
    BY <1>5 DEF Row
  <2> QED BY <1>1, <1>7, <2>1, NoNewKey
<1> QED BY <1>7, <1>8, <1>9

(* What is in the process dies with it; a request not yet read, or         *)
(* answered, is left as it was.                                            *)
LEMMA CrashKeeps ==
    ASSUME KeysInv, Crash
    PROVE  KeysInv'
<1> USE DEF KeysInv, KeysType, Crash
<1>1. ASSUME NEW o \in Requests
      PROVE  /\ req'[o] \in Request /\ req'[o].ask = req[o].ask /\ req'[o].done = req[o].done
             /\ \/ req'[o] = req[o] /\ ~InWork(o)
                \/ req'[o].pc = "dead" /\ req[o].pc # "answered" /\ req[o].pc # "new"
  <2>1. req[o] \in Request
    OBVIOUS
  <2>2. CASE req[o].pc = "new" \/ req[o].pc \in {"answered", "replayed", "conflict", "refused"}
    BY <2>1, <2>2 DEF InWork
  <2>3. CASE ~(req[o].pc = "new" \/ req[o].pc \in {"answered", "replayed", "conflict", "refused"})
    <3>1. req'[o] = Over(req[o], "dead")
      BY <2>3
    <3> QED BY <2>1, <2>3, <3>1, OverType DEF Phases
  <2> QED BY <2>2, <2>3
<1>2. req' \in [Requests -> Request]
  BY <1>1
<1>3. watch' \in [Requests -> Watch] /\ \A o \in Requests : ~watch'[o].on
  BY DEF Watch, NoWatch
<1>4. KeysType'
  BY <1>2, <1>3
<1>5. ASSUME NEW o \in Requests PROVE KeyInv(o)'
  <2>1. ops'[o] = ops[o] /\ ~watch'[o].on /\ Keyed(o)' = Keyed(o) /\ (GivenUp(o))' = GivenUp(o)
    BY <1>1, <1>3 DEF Keyed, GivenUp
  <2>2. ~InWork(o)' /\ (req'[o].pc \in {"new", "creating"} => req[o].pc \in {"new", "creating"})
        /\ (req[o].pc = "answered" => req'[o].pc = "answered") /\ req'[o].pc # "freeing"
    BY <1>1 DEF InWork
  <2> QED BY <1>1, <2>1, <2>2 DEF KeyInv
<1>6. KeysApart'
  BY <1>1, <1>4, NoNewKey
<1> QED BY <1>4, <1>5, <1>6

LEMMA RestartKeeps ==
    ASSUME KeysInv, Restart
    PROVE  KeysInv'
<1> USE DEF KeysInv, KeysType, Restart, driverVars, processVars
<1>1. ASSUME NEW o \in Requests
      PROVE  /\ ops'[o] \in Row
             /\ \/ ops'[o] = ops[o]
                \/ /\ ops'[o].status = "failed" /\ ops'[o].error = "interrupted" /\ ~ops'[o].key
                   /\ ~Accepted(o)
  <2>1. ops[o] \in Row /\ Interrupted(o)[o] = [ops[o] EXCEPT !.key = FALSE, !.status = "failed",
                                                             !.error = "interrupted"]
    BY DEF Interrupted
  <2>2. Interrupted(o)[o] \in Row
    BY ZenonT(60), <2>1, RowEdits DEF Statuses, Errors
  <2> QED BY <2>1, <2>2 DEF Row
<1>2. ops' \in [Requests -> Row]
  BY <1>1
<1>3. ASSUME NEW o \in Requests
      PROVE  watch'[o] \in Watch /\ (watch'[o].on => Accepted(o))
  <2>1. ops[o].born \in Nat
    BY DEF Row
  <2> QED BY <2>1 DEF Watch, NoWatch
<1>4. watch' \in [Requests -> Watch]
  BY <1>3
<1>5. KeysType'
  BY <1>2, <1>4
<1>6. ASSUME NEW o \in Requests PROVE KeyInv(o)'
  <2>1. KeyInv(o) /\ ~InWork(o) /\ ~InWork(o)' /\ req' = req
    BY DEF KeyInv, InWork
  <2>2. watch'[o].on => ops'[o].status = "running"
    BY <1>1, <1>3 DEF Accepted
  <2>3. CASE ops'[o] = ops[o]
    BY <2>1, <2>2, <2>3 DEF KeyInv, Keyed, GivenUp, InWork
  <2>4. CASE ops'[o].status = "failed" /\ ops'[o].error = "interrupted" /\ ~ops'[o].key
    BY <2>1, <2>2, <2>4 DEF KeyInv, Keyed, GivenUp, InWork
  <2> QED BY <1>1, <2>3, <2>4
<1>7. KeysApart'
  BY <1>1, <1>5, NoNewKey
<1> QED BY <1>5, <1>6, <1>7

(* A key is given up only by an operation its request no longer works on.  *)
LEMMA LookKeeps ==
    ASSUME KeysInv, NEW r \in Requests, Look(r)
    PROVE  KeysInv'
<1> USE DEF KeysInv, KeysType, Look, RequestAt, driverVars, processVars
<1>1. PICK pc \in {"creating", "conflict", "replayed"} : req' = [req EXCEPT ![r].pc = pc]
  BY DEF Goto
<1> DEFINE q == [req[r] EXCEPT !.pc = pc]
<1>2. q \in Request /\ q.ask = req[r].ask /\ q.done = req[r].done /\ q.pc = pc
  <2>1. req[r] \in Request
    OBVIOUS
  <2>2. q \in Request
    BY <2>1, RequestEdits, FirstType DEF Phases
  <2> QED BY <2>1, <2>2 DEF Request
<1>3. req' \in [Requests -> Request] /\ req'[r] = q
      /\ \A o \in Requests : req'[o].ask = req[o].ask /\ (o # r => req'[o] = req[o])
  BY <1>1, <1>2, RequestBecomes
<1> HIDE DEF q
<1>4. ~ops[r].key /\ ~req[r].done /\ ops[r].status # "running"
  BY DEF KeyInv
<1> DEFINE Goal ==
        /\ ops' \in [Requests -> Row]
        /\ ops'[r] = ops[r]
        /\ \A o \in Requests : ops'[o] # ops[o] =>
            /\ ~ops'[o].key /\ ~InWork(o)
            /\ \/ ops'[o].status = ops[o].status /\ ops'[o].expired
               \/ /\ ops[o].status = "pending"
                  /\ ops'[o].status = "failed" /\ ops'[o].error = "interrupted"
<1>5. Goal
  <2>1. CASE UNCHANGED ops
    BY <2>1
  <2>2. ASSUME NEW o \in Holder(r), ops' = Expired(o), ~Working(o)
        PROVE  Goal
    <3>1. o \in Requests /\ o # r /\ ops[o] \in Row /\ ~InWork(o)
      BY <1>4, <2>2 DEF Holder, Working, InWork
    <3>2. ops' = [ops EXCEPT ![o] = [ops[o] EXCEPT !.key = FALSE, !.expired = TRUE]]
      BY <2>2, <3>1 DEF Expired
    <3>3. [ops[o] EXCEPT !.key = FALSE, !.expired = TRUE] \in Row
      BY <3>1, RowEdits DEF Statuses, Errors
    <3>4. ops' \in [Requests -> Row] /\ ops'[o] = [ops[o] EXCEPT !.key = FALSE, !.expired = TRUE]
          /\ \A x \in Requests : x # o => ops'[x] = ops[x]
      BY <3>1, <3>2, <3>3, RowBecomes
    <3> QED BY <3>1, <3>4 DEF Row
  <2>3. ASSUME NEW o \in Holder(r), ops' = Interrupted(o), ops[o].status = "pending", ~Working(o)
        PROVE  Goal
    <3> DEFINE row == [ops[o] EXCEPT !.key = FALSE, !.status = "failed", !.error = "interrupted"]
    <3>1. o \in Requests /\ o # r /\ ops[o] \in Row /\ ~InWork(o)
      BY <1>4, <2>3 DEF Holder, Working, InWork
    <3>2. ops' = [ops EXCEPT ![o] = row]
      BY <2>3, <3>1 DEF Interrupted
    <3>3. row \in Row
      BY <3>1, RowEdits DEF Statuses, Errors
    <3>4. ops' \in [Requests -> Row] /\ ops'[o] = row
          /\ \A x \in Requests : x # o => ops'[x] = ops[x]
      BY <3>1, <3>2, <3>3, RowBecomes
    <3> QED BY ZenonT(60), <2>3, <3>1, <3>4 DEF Row
  <2> QED BY <2>1, <2>2, <2>3
<1>6. KeysType'
  BY <1>3, <1>5
<1>7. ASSUME NEW o \in Requests PROVE KeyInv(o)'
  BY SMTT(30), <1>2, <1>3, <1>4, <1>5
     DEF KeyInv, InWork, Keyed, Kind, Long, GivenUp, Request, Row, driverVars, processVars
<1>8. KeysApart'
  BY <1>3, <1>5, <1>6, NoNewKey
<1> QED BY <1>6, <1>7, <1>8

(* A key is taken only while no row holds it.                              *)
LEMMA CreateKeeps ==
    ASSUME KeysInv, LastCursor \in Nat, NEW r \in Requests, Create(r)
    PROVE  KeysInv'
<1> USE DEF KeysInv, KeysType, Create, RequestAt, driverVars, processVars
<1> DEFINE Made == ops' = [ops EXCEPT ![r] = [None EXCEPT !.status = "pending",
                                  !.key = Keyed(r), !.born = LastCursor]]
<1>1. PICK pc \in {"claimed", "new"} :
        /\ req' = [req EXCEPT ![r].pc = pc]
        /\ pc = "new" => ops' = ops
        /\ pc = "claimed" => KeyFree(r)
        /\ pc = "claimed" => Made \/ (ops' = ops /\ ~Keyed(r))
  BY DEF Goto
<1> DEFINE q == [req[r] EXCEPT !.pc = pc]
<1>2. q \in Request /\ q.ask = req[r].ask /\ q.done = req[r].done /\ q.pc = pc
  <2>1. req[r] \in Request
    BY Zenon
  <2>2. q \in Request
    BY <2>1, RequestEdits, FirstType DEF Phases
  <2> QED BY <2>1, <2>2 DEF Request
<1>3. req' \in [Requests -> Request] /\ req'[r] = q
      /\ \A o \in Requests : req'[o].ask = req[o].ask /\ (o # r => req'[o] = req[o])
  <2>1. req' = [req EXCEPT ![r] = q]
    BY <1>1
  <2> QED BY <1>2, <2>1, RequestBecomes
<1> HIDE DEF q
<1>4. ~ops[r].key /\ ~req[r].done /\ ops[r].status # "running" /\ ~watch[r].on
  BY DEF KeyInv
<1>5. CASE ops' = ops /\ (pc = "claimed" => ~Keyed(r))
  <2>1. KeysType'
    BY <1>3, <1>5
  <2>2. ASSUME NEW o \in Requests PROVE KeyInv(o)'
    BY SMTT(40), <1>2, <1>3, <1>4, <1>5 DEF KeyInv, InWork, Keyed, Kind, Long, GivenUp, Request, Row, driverVars, processVars
  <2>3. KeysApart'
    BY <1>3, <1>5, <2>1, NoNewKey
  <2> QED BY <2>1, <2>2, <2>3
<1>6. CASE pc = "claimed" /\ Made
  <2> DEFINE row == [None EXCEPT !.status = "pending", !.key = Keyed(r), !.born = LastCursor]
  <2>1. row \in Row /\ row.key = Keyed(r) /\ row.status = "pending"
    BY DEF Row, None, Statuses, Errors, Keyed
  <2>2. ops' \in [Requests -> Row] /\ ops'[r] = row
        /\ \A o \in Requests : o # r => ops'[o] = ops[o]
    BY <1>6, <2>1, RowBecomes
  <2> HIDE DEF row
  <2>3. KeysType'
    BY <1>3, <2>2
  <2>4. ASSUME NEW o \in Requests PROVE KeyInv(o)'
    BY <1>2, <1>3, <1>4, <1>6, <2>1, <2>2 DEF KeyInv, InWork, Keyed, Kind, Long, GivenUp, Request, Row, driverVars, processVars
  <2>5. ASSUME NEW a \in Requests, NEW b \in Requests, a # b, ops'[a].key, ops'[b].key,
               Kind(a)' = Kind(b)'
        PROVE  req'[a].ask.key # req'[b].ask.key
    <3>1. Keyed(r) => \A o \in Requests :
              ops[o].key /\ Kind(o) = Kind(r) => req[o].ask.key # req[r].ask.key
      <4>1. Keyed(r) => Holder(r) = {}
        BY <1>1, <1>6 DEF KeyFree
      <4> QED BY <4>1 DEF Holder
    <3>2. ops'[r].key => Keyed(r)
      BY <2>1, <2>2
    <3>3. Kind(a) = Kind(b)
      BY <1>3, <2>5 DEF Kind
    <3>4. CASE a # r /\ b # r
      BY <1>3, <2>2, <2>5, <3>3, <3>4 DEF KeysApart
    <3>5. CASE a = r
      BY <1>3, <2>2, <2>5, <3>1, <3>2, <3>3, <3>5
    <3>6. CASE b = r
      BY <1>3, <2>2, <2>5, <3>1, <3>2, <3>3, <3>6
    <3> QED BY <3>4, <3>5, <3>6
  <2>6. KeysApart'
    BY <2>5 DEF KeysApart
  <2> QED BY <2>3, <2>4, <2>6
<1> QED BY <1>1, <1>5, <1>6

(* An operation runs, and is watched, once its request is answered.        *)
LEMMA AcceptKeeps ==
    ASSUME KeysInv, LastCursor \in Nat, NEW r \in Requests, Accept(r)
    PROVE  KeysInv'
<1> USE DEF KeysInv, KeysType, RequestAt
<1> DEFINE decided == Verdict(Kind(r), req[r].left, TRUE)
           status == IF decided = "" THEN "running" ELSE decided
           q == Over(req[r], "answered")
           row == [ops[r] EXCEPT !.status = status, !.error = IF status = "failed" THEN "left" ELSE ""]
<1>1. /\ up /\ req[r].pc = "acted"
      /\ ops' = [ops EXCEPT ![r] = row]
      /\ watch' = IF decided = "" THEN [watch EXCEPT ![r] = [on |-> TRUE, from |-> WatchFrom(r), own |-> req[r].own]]
                  ELSE watch
      /\ req' = [req EXCEPT ![r] = q]
      /\ UNCHANGED <<run, up, writing>>
  BY DEF Accept, Finished, Leaves, driverVars, processVars
<1>2. decided \in {"", "failed", "succeeded"} /\ status \in Statuses
  BY DEF Verdict, Statuses
<1> HIDE DEF decided
<1>3. req[r] \in Request /\ ops[r] \in Row
  OBVIOUS
<1>4. q \in Request /\ q.ask = req[r].ask /\ q.done = req[r].done /\ q.pc = "answered"
  BY <1>3, OverType DEF Phases
<1>5. row \in Row /\ row.key = ops[r].key /\ row.status = status
  <2>1. row \in Row
    BY <1>2, <1>3, RowEdits DEF Errors
  <2> QED BY ZenonT(60), <1>3, <2>1 DEF Row
<1>6. req' \in [Requests -> Request] /\ req'[r] = q
      /\ \A o \in Requests : req'[o].ask = req[o].ask /\ (o # r => req'[o] = req[o])
  BY <1>1, <1>4, RequestBecomes
<1>7. ops' \in [Requests -> Row] /\ ops'[r] = row
      /\ \A o \in Requests : o # r => ops'[o] = ops[o]
  BY <1>1, <1>5, RowBecomes
<1> HIDE DEF q, row
<1>8. /\ watch' \in [Requests -> Watch]
      /\ \A o \in Requests : o # r => watch'[o] = watch[o]
      /\ watch'[r].on => watch[r].on \/ status = "running"
  <2>1. [on |-> TRUE, from |-> WatchFrom(r), own |-> req[r].own] \in Watch
    BY <1>3 DEF Watch, WatchFrom, Request
  <2> QED BY <1>1, <2>1
<1>9. KeysType'
  BY <1>1, <1>6, <1>7, <1>8
<1>10. ASSUME NEW o \in Requests PROVE KeyInv(o)'
  <2>1. KeyInv(o) /\ KeyInv(r)
    OBVIOUS
  <2>2. CASE o # r
    BY <1>1, <1>6, <1>7, <1>8, <2>1, <2>2 DEF KeyInv, InWork, Keyed, Kind, GivenUp
  <2>3. CASE o = r
    BY ZenonT(60), <1>1, <1>4, <1>5, <1>6, <1>7, <1>8, <2>1, <2>3 DEF KeyInv, InWork, Keyed, Kind, GivenUp
  <2> QED BY <2>2, <2>3
<1>11. KeysApart'
  <2>1. \A o \in Requests : ops'[o].key => ops[o].key
    BY <1>5, <1>7
  <2> QED BY <1>6, <1>9, <2>1, NoNewKey
<1> QED BY <1>9, <1>10, <1>11

LEMMA FollowKeeps ==
    ASSUME KeysInv, LastCursor \in Nat, NEW r \in Requests, Follow(r)
    PROVE  KeysInv'
<1> USE DEF KeysInv, KeysType
<1>1. watch[r].on /\ UNCHANGED <<run, writing, req, up>> /\ up
  BY DEF Follow, driverVars, processVars
<1>2. KeyInv(r) /\ ops[r].status = "running" /\ req[r].pc = "answered"
  BY <1>1 DEF KeyInv
<1>3. CASE Deciding(r) = {}
  <2>1. watch' = [watch EXCEPT ![r].from = LastCursor] /\ ops' = ops
    BY <1>3 DEF Follow
  <2>2. watch' \in [Requests -> Watch] /\ \A o \in Requests : watch'[o].on = watch[o].on
    BY <2>1 DEF Watch
  <2>3. KeysType'
    BY <1>1, <2>1, <2>2
  <2>4. ASSUME NEW o \in Requests PROVE KeyInv(o)'
    BY <1>1, <2>1, <2>2 DEF KeyInv, InWork, Keyed, GivenUp
  <2>5. KeysApart'
    BY <1>1, <2>1, <2>3, NoNewKey
  <2> QED BY <2>3, <2>4, <2>5
<1>4. CASE Deciding(r) # {}
  <2>1. PICK e : /\ ops' = Finished(r, Verdict(Kind(r), e.event, FALSE),
                                   IF e.cursor <= watch[r].own THEN "earlier" ELSE "later")
                 /\ watch' = [watch EXCEPT ![r] = NoWatch]
    BY <1>4 DEF Follow
  <2> DEFINE status == Verdict(Kind(r), e.event, FALSE)
             row == [ops[r] EXCEPT !.status = status, !.error = IF status = "failed" THEN
                        IF e.cursor <= watch[r].own THEN "earlier" ELSE "later" ELSE ""]
  <2>2. ops[r] \in Row /\ ops' = [ops EXCEPT ![r] = row]
    BY <2>1 DEF Finished
  <2>3. status \in {"", "failed", "succeeded"}
    BY DEF Verdict
  <2>4. status \in Statuses /\ status # "running"
    BY <2>3 DEF Statuses
  <2>5. row \in Row /\ row.key = ops[r].key /\ row.expired = ops[r].expired /\ row.status = status
    <3>1. row \in Row
      BY <2>2, <2>4, RowEdits DEF Errors
    <3> QED BY SMTT(30), <2>2, <3>1 DEF Row
  <2>6. ops' \in [Requests -> Row] /\ ops'[r] = row
        /\ \A o \in Requests : o # r => ops'[o] = ops[o]
    BY <2>2, <2>5, RowBecomes
  <2> HIDE DEF row, status
  <2>7. watch' \in [Requests -> Watch] /\ ~watch'[r].on
        /\ \A o \in Requests : o # r => watch'[o] = watch[o]
    BY <2>1 DEF Watch, NoWatch
  <2>8. KeysType'
    BY <1>1, <2>6, <2>7
  <2>9. ASSUME NEW o \in Requests PROVE KeyInv(o)'
    BY <1>1, <1>2, <2>4, <2>5, <2>6, <2>7 DEF KeyInv, InWork, Keyed, GivenUp
  <2>10. KeysApart'
    BY <1>1, <2>5, <2>6, <2>8, NoNewKey
  <2> QED BY <2>8, <2>9, <2>10
<1> QED BY <1>3, <1>4

LEMMA StatesDrawn ==
    /\ \A s \in {"paused", "preparing"} : State(s, "recovered") \in RunState
    /\ \A c \in {"step", "session_open", "reorg", "step_complete", "operator_pause"} :
          State("paused", c) \in RunState
    /\ \A c \in {"rpc_timeout", "reconcile"} : State("recovery_required", c) \in RunState
    /\ \A c \in {"start", "step"} : State("preparing", c) \in RunState
    /\ State("running", "") \in RunState /\ State("terminal", "") \in RunState
    /\ State("failed_setup", "setup") \in RunState
BY DEF RunState, State, States, Causes

LEMMA MovesType ==
    ASSUME NEW to \in MovesOf(run) \cup EndOf(run)
    PROVE  to \in RunState
<1>1. ASSUME to \in MovesOf(run) PROVE to \in RunState
  <2>1. CASE run.state = "preparing"
    BY <1>1, <2>1, StatesDrawn DEF MovesOf
  <2>2. CASE run.state = "running"
    BY <1>1, <2>2, StatesDrawn DEF MovesOf
  <2>3. CASE run.state = "paused"
    BY <1>1, <2>3, StatesDrawn DEF MovesOf
  <2> QED BY <1>1, <2>1, <2>2, <2>3 DEF MovesOf
<1>2. ASSUME to \in EndOf(run) PROVE to \in RunState
  BY <1>2, StatesDrawn DEF EndOf
<1> QED BY <1>1, <1>2

LEMMA ResultsType ==
    ASSUME NEW kind, NEW to \in Results(kind)
    PROVE  to \in RunState
<1>1. Resumes(run) \subseteq RunState
  BY StatesDrawn DEF Resumes
<1> QED BY <1>1, StatesDrawn DEF Results

LEMMA NextKeepsKeys ==
    ASSUME KeysInv, LogInv, [Next]_vars
    PROVE  KeysInv'
<1>0. LastCursor \in Nat
  BY FS_CardinalityType DEF LogInv, LastCursor
<1>1. ASSUME NEW r \in Requests, Handle(r) PROVE KeysInv'
  <2>1. CASE \E to \in Results(Kind(r)) : Act(r, to)
    BY <1>0, <2>1, ActKeeps, ResultsType
  <2>2. CASE Look(r) \/ Create(r) \/ ReadCursor(r) \/ ActSilently(r) \/ Refuse(r)
    BY <1>0, <2>2, LookKeeps, CreateKeeps, ReadCursorKeeps, ActSilentlyKeeps, RefuseKeeps
  <2>3. CASE RecordRefused(r) \/ FreeKey(r) \/ AnswerRefused(r) \/ Answer(r) \/ Accept(r)
    BY <1>0, <2>3, RecordRefusedKeeps, FreeKeyKeeps, AnswerRefusedKeeps, AnswerKeeps, AcceptKeeps
  <2> QED BY <1>1, <2>1, <2>2, <2>3 DEF Handle
<1>2. ASSUME NEW r \in Requests, Reread(r) \/ Leave(r) \/ Follow(r) PROVE KeysInv'
  BY <1>0, <1>2, RereadKeeps, LeaveKeeps, FollowKeeps
<1>3. ASSUME NEW to \in MovesOf(run) \cup EndOf(run), BeginMove(to) PROVE KeysInv'
  BY <1>0, <1>3, MovesType, BeginMoveKeeps
<1>4. CASE CommitMove \/ Crash \/ Restart
  BY <1>0, <1>4, CommitMoveKeeps, CrashKeeps, RestartKeeps
<1>5. CASE UNCHANGED vars
  BY <1>5 DEF vars, driverVars, processVars, KeysInv, KeysType, KeyInv, KeysApart,
              InWork, Keyed, Kind, GivenUp
<1> QED BY <1>1, <1>2, <1>3, <1>4, <1>5 DEF Next

(* Of the requests that carry one idempotency key, one does the work,      *)
(* unless its claim was given up (routes/idempotency.py, execute).         *)
THEOREM WorkOncePerKeyTheorem == Spec => []WorkOncePerKey
<1>1. Init => LogInv /\ KeysInv
  BY LogInit, KeysInit
<1>2. LogInv /\ KeysInv /\ [Next]_vars => (LogInv /\ KeysInv)'
  BY NextIsLogStep, LogStepKeeps, NextKeepsKeys
<1>3. KeysInv => WorkOncePerKey
  BY DEF KeysInv, KeyInv, KeysApart, WorkOncePerKey, GivenUp, Keyed
<1> QED BY <1>1, <1>2, <1>3, PTL DEF Spec
=============================================================================
