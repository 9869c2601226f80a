----------------------------- MODULE Operations -----------------------------
(***************************************************************************)
(* The HTTP operations on one run: a request claims its idempotency key,   *)
(* makes the run's transition, and leaves an operation record that a       *)
(* watcher decides from the run's event log, which clients read as a       *)
(* stream.  Each step is one unit of work; requests, watchers, the run's   *)
(* driver and a stream interleave between them, and the process may die.   *)
(*                                                                         *)
(* What makes the driver move the run is module RunControl; here it moves  *)
(* as it likes, along the transitions the driver makes.                    *)
(***************************************************************************)
EXTENDS Naturals, FiniteSets

CONSTANTS
    Requests,       \* the requests sent, each its operation's name
    Plans,          \* what they may ask together, each [kind, key, body]
    NoKey,          \* the key of a request that carries none
    First,          \* the run's state and cause at first
    MaxMoves,       \* bound: moves of the driver that do not end the run
    MaxCrashes      \* bound: times the process dies

LongRunning == {"start", "step", "resume", "abort"}
Kinds == LongRunning \cup {"pause"}

States == {"draft", "validated", "preparing", "running", "paused",
           "recovery_required", "failed_setup", "terminal"}
Causes == {"", "start", "step", "step_complete", "session_open", "setup", "reorg",
           "rpc_timeout", "reconcile", "recovered", "operator_pause"}

ASSUME OperationsAssumption ==
    /\ \A plan \in Plans, r \in Requests : plan[r].kind \in Kinds
    /\ First \in [state : States, cause : Causes]
    /\ MaxMoves \in Nat /\ MaxCrashes \in Nat

VARIABLES
    run,        \* runs: [state, cause, ending]
    log,        \* run_events, each with its cursor
    writing,    \* the event of the driver's open unit of work
    ops,        \* operations
    req,        \* the requests in the process
    watch,      \* the cursors the tracker's tasks read from
    moves,      \* how often the driver has moved the run
    crashes,    \* how often the process has died
    up          \* whether it runs

vars == <<run, log, writing, ops, req, watch, moves, crashes, up>>
driverVars == <<writing, moves>>
processVars == <<crashes, up>>

None == [status |-> "none", error |-> "", key |-> FALSE, born |-> 0,
         expired |-> FALSE]
NoEvent == [type |-> "none"]
NoWatch == [on |-> FALSE, from |-> 0, own |-> 0]
State(s, c) == [state |-> s, cause |-> c]

Init ==
    /\ run = [state |-> First.state, cause |-> First.cause, ending |-> FALSE]
    /\ log = {}
    /\ writing = NoEvent
    /\ ops = [r \in Requests |-> None]
    /\ \E asks \in Plans :
          req = [r \in Requests |-> [ask |-> asks[r], pc |-> "new", done |-> FALSE,
                                     from |-> 0, own |-> 0, left |-> First]]
    /\ watch = [r \in Requests |-> NoWatch]
    /\ moves = 0 /\ crashes = 0
    /\ up = TRUE

-----------------------------------------------------------------------------
(* The event log.  An append locks the run's row, so the next cursor is    *)
(* taken only when no other append of the run is uncommitted.              *)

(* Mutant: an append does not wait for another's unit of work.             *)
RowFreeAlways == up
RowFree == up /\ writing = NoEvent

LastCursor == Cardinality(log)
Event(e) == [cursor |-> LastCursor + 1, event |-> e]
StateEvent(to) == [type |-> "run.state", state |-> to.state, cause |-> to.cause]
OperationEvent(r, status) == [type |-> "operation", op |-> r, status |-> status]

Append(e) == /\ RowFree
             /\ log' = log \cup {Event(e)}

EventsAfter(cursor) == {e \in log : e.cursor > cursor}

-----------------------------------------------------------------------------
(* The driver's moves of the run. *)

MovesOf(at) ==
    CASE at.state = "preparing" ->
           {IF at.cause = "start" THEN State("running", "")
            ELSE IF at.cause = "step" THEN State("paused", "step")
            ELSE State("paused", "session_open"),
            State("recovery_required", "rpc_timeout")}
      [] at.state = "running" ->
           {State("paused", "reorg"), State("recovery_required", "rpc_timeout")}
      [] at.state = "paused" ->
           {State("paused", "reorg"), State("recovery_required", "rpc_timeout")}
           \cup (IF at.cause = "step" THEN {State("paused", "step_complete")} ELSE {})
      [] OTHER -> {}

EndOf(at) ==
    IF at.state = "preparing" THEN {State("failed_setup", "setup")}
    ELSE IF at.state \in {"running", "paused", "recovery_required"}
         THEN {State("terminal", "")} ELSE {}

(* The move and its event are one unit of work, open while the row is      *)
(* locked.                                                                 *)
BeginMove(to) ==
    /\ RowFree
    /\ \/ to \in EndOf(run) /\ UNCHANGED moves
       \/ to \in MovesOf(run) /\ moves < MaxMoves /\ moves' = moves + 1
    /\ writing' = [type |-> "move", of |-> Event(StateEvent(to)), to |-> to]
    /\ UNCHANGED <<run, log, ops, req, watch, processVars>>

CommitMove ==
    /\ up /\ writing # NoEvent
    /\ run' = [run EXCEPT !.state = writing.to.state, !.cause = writing.to.cause]
    /\ log' = log \cup {writing.of}
    /\ writing' = NoEvent
    /\ UNCHANGED <<ops, req, watch, moves, processVars>>

-----------------------------------------------------------------------------
(* Claiming a key. *)

Kind(r) == req[r].ask.kind
Keyed(r) == req[r].ask.key # NoKey
Long(r) == Kind(r) \in LongRunning

(* The operation that holds a request's key on its route.                  *)
Holder(r) == {o \in Requests : /\ ops[o].key /\ Kind(o) = Kind(r)
                               /\ req[o].ask.key = req[r].ask.key}

Goto(r, pc) == req' = [req EXCEPT ![r].pc = pc]
Over(q, pc) == [q EXCEPT !.pc = pc, !.from = 0, !.own = 0, !.left = First]
Leaves(r, pc) == req' = [req EXCEPT ![r] = Over(@, pc)]
RequestAt(r, pc) == up /\ req[r].pc = pc

Released(o) == [ops EXCEPT ![o].key = FALSE]
Expired(o) == [ops EXCEPT ![o].key = FALSE, ![o].expired = TRUE]
Interrupted(o) == [ops EXCEPT ![o].key = FALSE, ![o].status = "failed",
                              ![o].error = "interrupted"]

Working(r) == up /\ req[r].pc \in {"claimed", "acting", "acted", "refusing", "freeing"}

(* A key's operation decides, unless the key is past its retention, or its *)
(* claim past its timeout with the request not answered - one still worked *)
(* on answers sooner.  Then the key is freed and the request goes on.      *)
Look(r) ==
    /\ RequestAt(r, "new")
    /\ \/ /\ ~ Keyed(r) \/ Holder(r) = {}
          /\ Goto(r, "creating") /\ UNCHANGED ops
       \/ \E o \in Holder(r) :
            \/ /\ ops' = Expired(o) /\ ~ Working(o) /\ Goto(r, "creating")
            \/ /\ ops[o].status = "pending" /\ ~ Working(o)
               /\ ops' = Interrupted(o) /\ Goto(r, "creating")
            \/ /\ Goto(r, IF req[o].ask.body # req[r].ask.body THEN "conflict"
                          ELSE IF ~ Long(r) /\ ops[o].status # "succeeded"
                               THEN "conflict" ELSE "replayed")
               /\ UNCHANGED ops
    /\ UNCHANGED <<run, log, driverVars, watch, processVars>>

(* Mutant: a second row with the key is taken.                             *)
KeyFreeAlways(r) == TRUE
KeyFree(r) == ~ Keyed(r) \/ Holder(r) = {}

(* The row is created, or the key's uniqueness refuses it and the request  *)
(* looks again.  An operation that is neither keyed nor long-running has   *)
(* no row.                                                                 *)
Create(r) ==
    /\ RequestAt(r, "creating")
    /\ \/ /\ KeyFree(r)
          /\ ops' = IF Keyed(r) \/ Long(r)
                    THEN [ops EXCEPT ![r] = [None EXCEPT !.status = "pending",
                                               !.key = Keyed(r), !.born = LastCursor]]
                    ELSE ops
          /\ Goto(r, "claimed")
       \/ /\ ~ KeyFree(r)
          /\ Goto(r, "new") /\ UNCHANGED ops
    /\ UNCHANGED <<run, log, driverVars, watch, processVars>>

-----------------------------------------------------------------------------
(* The work, under the claim. *)

(* The cursor an operation will be watched from is read before its work.   *)
ReadCursor(r) ==
    /\ RequestAt(r, "claimed")
    /\ req' = [req EXCEPT ![r].pc = "acting", ![r].from = LastCursor]
    /\ UNCHANGED <<run, log, driverVars, ops, watch, processVars>>

(* What the controller's operations do to the run.                         *)
Resumes(at) ==
    IF at.state = "paused"
    THEN {State("running", ""), State("recovery_required", "reconcile")}
    ELSE {State("paused", "recovered"), State("preparing", "recovered"),
          State("recovery_required", "reconcile")}

Results(kind) ==
    CASE kind = "start" /\ run.state = "validated" -> {State("preparing", "start")}
      [] kind = "start" /\ run.state = "paused" /\ ~ run.ending -> Resumes(run)
      [] kind = "step" /\ run.state = "validated" -> {State("preparing", "step")}
      [] kind = "step" /\ run.state = "paused" /\ run.cause # "step" /\ ~ run.ending ->
           {State("paused", "step")}
      [] kind = "resume" /\ run.state \in {"paused", "recovery_required"} /\ ~ run.ending ->
           Resumes(run)
      [] kind = "pause" /\ run.state = "running" -> {State("paused", "operator_pause")}
      [] OTHER -> {}

Did(r, left) ==
    req' = [req EXCEPT ![r].pc = "acted", ![r].left = left,
                       ![r].done = TRUE, ![r].own = LastCursor]

(* A transition and its event.                                             *)
Act(r, to) ==
    /\ RequestAt(r, "acting")
    /\ run' = [run EXCEPT !.state = to.state, !.cause = to.cause]
    /\ Append(StateEvent(to))
    /\ Did(r, to)
    /\ UNCHANGED <<driverVars, ops, watch, processVars>>

(* An abort is recorded on the run; a pause of a paused run does nothing.  *)
ActSilently(r) ==
    /\ RequestAt(r, "acting") /\ RowFree
    /\ \/ /\ Kind(r) = "abort"
          /\ run.state \in {"preparing", "running", "paused", "recovery_required"}
          /\ run' = [run EXCEPT !.ending = TRUE]
       \/ /\ Kind(r) = "pause" /\ run.state = "paused"
          /\ UNCHANGED run
    /\ Did(r, State(run.state, run.cause))
    /\ UNCHANGED <<log, driverVars, ops, watch, processVars>>

(* A resume and an abort answer with the run as they read it afterwards.   *)
Reread(r) ==
    /\ RequestAt(r, "acted") /\ Kind(r) \in {"resume", "abort"}
    /\ req' = [req EXCEPT ![r].left = State(run.state, run.cause)]
    /\ UNCHANGED <<run, log, driverVars, ops, watch, processVars>>

(* The run's state refuses the operation, or another run is active.        *)
Refuse(r) ==
    /\ RequestAt(r, "acting")
    /\ \/ run.state = "validated"
       \/ /\ Results(Kind(r)) = {}
          /\ ~ (Kind(r) = "abort" /\ run.state \in {"preparing", "running", "paused",
                                                     "recovery_required"})
          /\ ~ (Kind(r) = "pause" /\ run.state = "paused")
    /\ Leaves(r, "refusing")
    /\ UNCHANGED <<run, log, driverVars, ops, watch, processVars>>

(* The client leaves, and its request's task is cancelled: inside the work *)
(* the refusal is still recorded, after it nothing is.                     *)
Leave(r) ==
    /\ RequestAt(r, "acted")
    /\ Leaves(r, "refusing") \/ Leaves(r, "dead")
    /\ UNCHANGED <<run, log, driverVars, ops, watch, processVars>>

Refused(r) == [ops EXCEPT ![r].status = "failed", ![r].error = "refused"]

(* The operation of a long-running request fails, and then frees its key.  *)
RecordRefused(r) ==
    /\ RequestAt(r, "refusing") /\ Long(r)
    /\ ops' = Refused(r)
    /\ Append(OperationEvent(r, "failed"))
    /\ Goto(r, "freeing")
    /\ UNCHANGED <<run, driverVars, watch, processVars>>

FreeKey(r) ==
    /\ RequestAt(r, "freeing")
    /\ ops' = Released(r)
    /\ Goto(r, "refused")
    /\ UNCHANGED <<run, log, driverVars, watch, processVars>>

(* Any other request fails and frees its key at once.                      *)
AnswerRefused(r) ==
    /\ RequestAt(r, "refusing") /\ ~ Long(r)
    /\ ops' = IF ops[r] = None THEN ops ELSE [Refused(r) EXCEPT ![r].key = FALSE]
    /\ Goto(r, "refused")
    /\ UNCHANGED <<run, log, driverVars, watch, processVars>>

Answer(r) ==
    /\ RequestAt(r, "acted") /\ ~ Long(r)
    /\ ops' = IF ops[r] = None THEN ops ELSE [ops EXCEPT ![r].status = "succeeded"]
    /\ Leaves(r, "answered")
    /\ UNCHANGED <<run, log, driverVars, watch, processVars>>

-----------------------------------------------------------------------------
(* The operation record, and the tracker that decides it. *)

(* What one state of the run means for an operation, if anything.          *)
Verdict(kind, s, initial) ==
    CASE s.state = "recovery_required" ->
           IF initial /\ kind = "abort" THEN "" ELSE "failed"
      [] s.state = "terminal" -> "succeeded"
      [] s.state = "failed_setup" -> IF kind = "abort" THEN "succeeded" ELSE "failed"
      [] s.state = "paused" /\ kind \in {"start", "step"}
         /\ s.cause \in {"reorg", "session_open"} -> "failed"
      [] \/ kind \in {"start", "resume"} /\ s.state = "running"
         \/ kind = "step" /\ s.state = "paused" /\ s.cause = "step_complete"
         \/ kind = "resume" /\ s.state \in {"paused", "preparing"} /\ s.cause = "recovered" ->
           "succeeded"
      [] OTHER -> ""

(* A verdict, the status it becomes and the state event that gave it.      *)
Finished(r, status, by) ==
    [ops EXCEPT ![r] = [@ EXCEPT !.status = status,
                                 !.error = IF status = "failed" THEN by ELSE ""]]

(* Mutant: the watch begins with what is written after the acceptance.     *)
WatchFromNow(r) == LastCursor

WatchFrom(r) == req[r].from

Accept(r) ==
    /\ RequestAt(r, "acted") /\ Long(r)
    /\ LET decided == Verdict(Kind(r), req[r].left, TRUE)
           status == IF decided = "" THEN "running" ELSE decided
       IN  /\ ops' = Finished(r, status, "left")
           /\ Append(OperationEvent(r, status))
           /\ watch' = IF decided = "" THEN [watch EXCEPT ![r] = [on |-> TRUE, from |-> WatchFrom(r), own |-> req[r].own]]
                       ELSE watch
    /\ Leaves(r, "answered")
    /\ UNCHANGED <<run, driverVars, processVars>>

(* One look at the events after the watcher's cursor: the first that       *)
(* decides ends it, and otherwise it goes on after the last.               *)
Deciding(r) ==
    {e \in EventsAfter(watch[r].from) :
        e.event.type = "run.state" /\ Verdict(Kind(r), e.event, FALSE) # ""}

Follow(r) ==
    /\ up /\ watch[r].on /\ EventsAfter(watch[r].from) # {}
    /\ IF Deciding(r) = {}
       THEN /\ watch' = [watch EXCEPT ![r].from = LastCursor]
            /\ UNCHANGED <<ops, log>>
       ELSE LET e == CHOOSE x \in Deciding(r) :
                         \A y \in Deciding(r) : x.cursor <= y.cursor
                status == Verdict(Kind(r), e.event, FALSE)
            IN  /\ ops' = Finished(r, status,
                                   IF e.cursor <= watch[r].own THEN "earlier" ELSE "later")
                /\ Append(OperationEvent(r, status))
                /\ watch' = [watch EXCEPT ![r] = NoWatch]
    /\ UNCHANGED <<run, driverVars, req, processVars>>

-----------------------------------------------------------------------------
(* The process. *)

Crash ==
    /\ up /\ crashes < MaxCrashes
    /\ up' = FALSE /\ crashes' = crashes + 1
    /\ writing' = NoEvent
    /\ watch' = [r \in Requests |-> NoWatch]
    /\ req' = [r \in Requests |->
                  IF req[r].pc = "new" \/ req[r].pc \in {"answered", "replayed", "conflict", "refused"}
                  THEN req[r] ELSE Over(req[r], "dead")]
    /\ UNCHANGED <<run, log, ops, moves>>

Unfinished(r) == ops[r].status \in {"pending", "running"}
Accepted(r) == Long(r) /\ ops[r].status = "running"

(* Every accepted operation is watched again, from the events written      *)
(* since it was created; every other unfinished one is interrupted.        *)
Restart ==
    /\ ~ up /\ up' = TRUE
    /\ ops' = [r \in Requests |->
                  IF Unfinished(r) /\ ~ Accepted(r) THEN Interrupted(r)[r] ELSE ops[r]]
    /\ watch' = [r \in Requests |->
                    IF Accepted(r) THEN [on |-> TRUE, from |-> ops[r].born, own |-> 0] ELSE NoWatch]
    /\ UNCHANGED <<run, log, driverVars, req, crashes>>

-----------------------------------------------------------------------------
Handle(r) ==
    \/ Look(r) \/ Create(r) \/ ReadCursor(r)
    \/ \E to \in Results(Kind(r)) : Act(r, to)
    \/ ActSilently(r) \/ Refuse(r)
    \/ RecordRefused(r) \/ FreeKey(r) \/ AnswerRefused(r) \/ Answer(r) \/ Accept(r)

Ends == \E to \in EndOf(run) : BeginMove(to)

Next ==
    \/ \E r \in Requests : \/ Handle(r) \/ Reread(r) \/ Leave(r) \/ Follow(r)
    \/ \E to \in MovesOf(run) \cup EndOf(run) : BeginMove(to)
    \/ CommitMove
    \/ Crash \/ Restart

Spec == Init /\ [][Next]_vars

(* The process is started again, works on its requests and watches the     *)
(* log; the run ends at the latest when its session does.                  *)
FairSpec ==
    /\ Spec
    /\ WF_vars(Restart) /\ WF_vars(CommitMove)
    /\ WF_vars(Ends)
    /\ \A r \in Requests : SF_vars(Handle(r)) /\ SF_vars(Follow(r))

-----------------------------------------------------------------------------
(* Properties *)

(* Of the requests that carry one key, one does the work: the others are   *)
(* refused or answered with its operation, unless the key was given up     *)
(* because a process or a client had gone, or was kept long enough.        *)
WorkOncePerKey ==
    \A r, o \in Requests :
        /\ r # o /\ Keyed(r) /\ Kind(r) = Kind(o) /\ req[r].ask.key = req[o].ask.key
        /\ req[r].done /\ req[o].done
        => \E x \in {r, o} : \/ ops[x].error \in {"interrupted", "refused"}
                             \/ ops[x].expired

(* Nothing is ever committed at or below a cursor that a stream's client   *)
(* or a watcher may already have read past, so a reader that asks for what *)
(* comes after its cursor misses nothing.                                  *)
ReadersMissNothing ==
    [][\A e \in log' \ log : \A x \in log : e.cursor > x.cursor]_log

(* An accepted operation is decided, whatever dies in between.             *)
EveryOperationEnds ==
    \A r \in Requests : ops[r].status = "running" ~> ops[r].status \in {"succeeded", "failed"}

(* routes/operations.py, verdict: for an abort sent from recovery_required *)
(* the state means nothing until a later event moves the run there again.  *)
(* What the run did before an operation's own transition never decides it. *)
(* It does not hold: see "Disagreements seen" in the README.              *)
OwnEventsDecide == \A r \in Requests : ops[r].error # "earlier"

=============================================================================
