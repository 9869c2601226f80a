----------------------------- MODULE RunControl -----------------------------
(***************************************************************************)
(* The life of a run: the operator's requests (controller/controller.py),  *)
(* the background driver (controller/driver.py) with the part of set-up    *)
(* (controller/setup.py) and of the turn executor (turns/executor.py) that *)
(* decides what the run does next, over the rows that say which run may    *)
(* touch the chain and which process drives it (db/repositories/runs.py).  *)
(*                                                                         *)
(* Threads interleave at their awaits: each run's background task, the     *)
(* requests being served, and start-up recovery.  One step is one unit of  *)
(* work together with what was read for it under the same lock; whatever   *)
(* is decided from an earlier read keeps that read in `given`.  Locals die  *)
(* with their process.  The relay's own steps are those of module Outbox:  *)
(* here a transaction is persisted, then sent, then mined or reverted.     *)
(***************************************************************************)
EXTENDS Naturals, FiniteSets

CONSTANTS
    Runs,       \* runs an operator created
    Procs,      \* backend processes that may serve this database
    Slots,      \* bound: <<process, name>> of each request served at once
    OneBlock,   \* whether one block is the runs' confirmation threshold
    Expires,    \* bound: whether sessions reach their deadline
    NoRun, NoProc, NoTx,
    Faults,     \* which faults may happen: see FaultKinds
    MaxFaults   \* bound: how many in a behaviour

FaultKinds ==
    {"crash",       \* a process dies between two steps
     "close",       \* a process is shut down
     "rpc",         \* the node does not answer
     "agent",       \* an agent does not answer
     "fault",       \* a refusal, a failed check: a person's to look at
     "revert",      \* a set-up transaction fails
     "refuse",      \* an agent refuses the session
     "reorg"}       \* blocks short of the threshold are replaced

ASSUME RunControlAssumption ==
    /\ NoRun \notin Runs /\ NoProc \notin Procs
    /\ "boot" \notin Runs
    /\ \A s \in Slots : s[1] \in Procs /\ s[2] \notin Runs \cup {"boot"}
    /\ OneBlock \in BOOLEAN /\ Expires \in BOOLEAN
    /\ Faults \subseteq FaultKinds /\ MaxFaults \in Nat

TxKinds == {"create", "action", "abort", "expire"}
TxIds == TxKinds \X Procs       \* who signed it

ASSUME NoTxAssumption == NoTx \notin TxIds

Transitions ==
    {<<"draft", "validated">>, <<"validated", "draft">>,
     <<"validated", "preparing">>,
     <<"preparing", "running">>, <<"preparing", "paused">>,
     <<"preparing", "failed_setup">>, <<"preparing", "recovery_required">>,
     <<"running", "paused">>, <<"paused", "running">>, <<"paused", "paused">>,
     <<"running", "recovery_required">>, <<"paused", "recovery_required">>,
     <<"recovery_required", "paused">>, <<"recovery_required", "preparing">>,
     <<"running", "terminal">>, <<"paused", "terminal">>,
     <<"recovery_required", "terminal">>,
     <<"recovery_required", "failed_setup">>}

Active == {"preparing", "running", "paused", "recovery_required"}
Finished == {"terminal", "failed_setup"}
States == {"draft", "validated"} \cup Active \cup Finished

Allowed(from, to) == <<from, to>> \in Transitions

(* The causes a later step decides on: the mode that set-up was started    *)
(* in, and a step under way.  Every other one is only shown to a person.   *)
Causes == {"start", "step", "other"}

(* abort: a termination with an abort code, be it the operator's, an       *)
(* agent's refusal of the session, or a failed turn's.  deadline has none: *)
(* only the session's expiry ends it.                                      *)
Terminations == {"none", "abort", "deadline"}

Endings == {"settled", "closed", "expired", "aborted"}
Outcomes == {"pending"} \cup Endings
Turns == {"none", "deciding", "signed", "sent"}

VARIABLES
    (* the database *)
    runs,       \* the runs row, its newest turn, its set-up and its events
    slot,       \* active_run: the one run that may touch the chain
    lease,      \* run_leases: who drives the run, and whether it is unexpired
    view,       \* what the indexer's last poll recorded of the chain
    (* the chain, and the transactions persisted for it *)
    chain,
    (* the processes *)
    up,
    th,         \* each thread: what it does next, for which run, from what
    pending,    \* runs a process was told to look at again
    faults

vars == <<runs, slot, lease, view, chain, up, th, pending, faults>>

(* A run's background task is the thread named by the run.                 *)
Threads == (Procs \X (Runs \cup {"boot"})) \cup Slots
Proc(t) == t[1]
IsTask(t) == t[2] \in Runs
R(t) == th[t].run

(* What a step was decided from, when that was read in an earlier one, or  *)
(* what it was asked for.                                                  *)
Givens ==
    States \cup Causes \cup Terminations
      \cup {"expire", "resume", "recover", "boot", "reorg", "recorded"}

Off == [at |-> "off", run |-> NoRun, tx |-> NoTx, given |-> "none"]

Init ==
    /\ runs = [r \in Runs |->
                [state |-> "draft", cause |-> "other", term |-> "none",
                 outcome |-> "pending", session |-> FALSE, funded |-> FALSE,
                 setUp |-> FALSE, turn |-> "none", reorg |-> FALSE]]
    /\ slot = NoRun
    /\ lease = [r \in Runs |-> [holder |-> NoProc, live |-> FALSE]]
    /\ view = [r \in Runs |->
                [sess |-> "none", soft |-> {}, failed |-> {}, acted |-> FALSE]]
    /\ chain = [r \in Runs |->
                [sess |-> "none", soft |-> {}, late |-> FALSE, forked |-> FALSE,
                 tx |-> [x \in TxIds |-> "none"]]]
    /\ up = {} /\ th = [t \in Threads |-> Off]
    /\ pending = {} /\ faults = 0

-----------------------------------------------------------------------------
(* Steps of a thread *)

Fault(kind) == kind \in Faults /\ faults < MaxFaults /\ faults' = faults + 1

Task(r, step) == [Off EXCEPT !.at = step, !.run = r]
At(t, step) == Proc(t) \in up /\ th[t].at = step
Goto(t, step) == th' = [th EXCEPT ![t].at = step]
Continue(t, step) == th' = [th EXCEPT ![t] = Task(R(t), step)]

(* A tick reports WAITING or ADVANCED, and the loop ticks again; or IDLE.  *)
Again(t) == Continue(t, "tick")
Idle(t) == Continue(t, "quiet")
Leave(t) == th' = [th EXCEPT ![t] = Off]

(* controller._schedule, as the last thing thread t does: the task is told *)
(* to look again, or started.                                              *)
Scheduled(p, r, threads) ==
    /\ pending' = pending \cup {<<p, r>>}
    /\ th' = IF threads[<<p, r>>].at = "off"
             THEN [threads EXCEPT ![<<p, r>>] = Task(r, "quiet")]
             ELSE threads
ScheduleAndLeave(t) == Scheduled(Proc(t), R(t), [th EXCEPT ![t] = Off])

(* Mutant: whoever holds it.                                               *)
CanAlwaysHold(p, r) == p \in Procs /\ r \in Runs

CanHold(p, r) == lease[r].holder \in {NoProc, p} \/ ~lease[r].live
Hold(p, r) ==
    /\ CanHold(p, r)
    /\ lease' = [lease EXCEPT ![r] = [holder |-> p, live |-> TRUE]]

Released(p, r) ==
    IF lease[r].holder = p
    THEN [lease EXCEPT ![r] = [holder |-> NoProc, live |-> FALSE]]
    ELSE lease

(* RunStates.move under the row lock; the caller has checked `expect`.     *)
Moved(run, state, cause) == [run EXCEPT !.state = state, !.cause = cause]
MoveFor(r, state, cause) == runs' = [runs EXCEPT ![r] = Moved(@, state, cause)]
Move(r, state) == MoveFor(r, state, "other")

Recovering(run) ==
    IF run.state \in Active THEN Moved(run, "recovery_required", "other") ELSE run
Recover(r) == runs' = [runs EXCEPT ![r] = Recovering(@)]

(* The first termination recorded is kept.                                 *)
Ending(run, cause) ==
    IF run.term = "none" THEN [run EXCEPT !.term = cause] ELSE run
RequestTermination(r, cause) == runs' = [runs EXCEPT ![r] = Ending(@, cause)]

(* What _guarded_tick does with an exception; a request answers an error.  *)
Fails(t) ==
    IF IsTask(t) THEN Recover(R(t)) /\ Idle(t)
    ELSE Leave(t) /\ UNCHANGED runs

(* An RPC outage in a tick: waited for, or as long as the limit.  In an    *)
(* operator's recovery: recovery again, unless the run moved on meanwhile. *)
Outage(t) ==
    IF IsTask(t)
    THEN \/ Again(t) /\ UNCHANGED runs
         \/ Recover(R(t)) /\ Idle(t)
    ELSE /\ Leave(t)
         /\ IF runs[R(t)].state = "recovery_required"
            THEN Move(R(t), "recovery_required")
            ELSE UNCHANGED runs

(* An agent that does not answer: waited for, within the outage limit.     *)
AgentUnavailable(t) ==
    /\ Fault("agent")
    /\ \/ Again(t) /\ UNCHANGED runs
       \/ Recover(R(t)) /\ Idle(t)

Unsent(r) == {x \in TxIds : chain[r].tx[x] \in {"new", "saved"}}
Unfinished(r) == {x \in TxIds : chain[r].tx[x] \in {"new", "saved", "pool"}}
Live(r, kinds) ==
    {x \in kinds \X Procs : chain[r].tx[x] # "none" /\ x \notin view[r].failed}
Rows(r, kinds) == {x \in kinds \X Procs : chain[r].tx[x] # "none"}

Actions == {"action"} \X Procs

(* A closed turn's transaction, mined or overtaken, plays no further part. *)
ForgetAction(r) ==
    /\ chain' = [chain EXCEPT
          ![r].tx = [x \in TxIds |-> IF x \in Actions THEN "none" ELSE @[x]],
          ![r].soft = @ \ {"act"}]
    /\ view' = [view EXCEPT ![r].failed = @ \ Actions, ![r].acted = FALSE,
                            ![r].soft = @ \ {"act"}]

Opened(r) == view[r].sess # "none"
OpenConfirmed(r) == Opened(r) /\ "open" \notin view[r].soft
EndSeen(r) == view[r].sess \in Endings

(* Mutant: the threshold is not waited for.                                *)
ConfirmedAtOnce(r) == EndSeen(r)

EndConfirmed(r) == EndSeen(r) /\ "end" \notin view[r].soft

-----------------------------------------------------------------------------
(* The operator's requests *)

Free(t) == t \in Slots /\ Proc(t) \in up /\ th[t].at = "off"
Begin(t, r, step, mode) ==
    th' = [th EXCEPT ![t] = [Off EXCEPT !.at = step, !.run = r, !.given = mode]]

Validate(r) ==
    /\ up # {}
    /\ \/ runs[r].state = "draft" /\ Move(r, "validated")
       \/ runs[r].state = "validated" /\ Move(r, "draft")
    /\ UNCHANGED <<slot, lease, view, chain, up, th, pending, faults>>

(* start and step of a validated run claim the one active-run row first.   *)
Start(t, r, mode) ==
    /\ Free(t) /\ runs[r].state = "validated"
    /\ slot \in {NoRun, r} /\ slot' = r
    /\ Begin(t, r, "hold", mode)
    /\ UNCHANGED <<runs, lease, view, chain, up, pending, faults>>

HoldToPrepare(t) ==
    /\ At(t, "hold")
    /\ \/ Hold(Proc(t), R(t)) /\ Goto(t, "prepare")
       \/ ~CanHold(Proc(t), R(t)) /\ Leave(t) /\ UNCHANGED lease
    /\ UNCHANGED <<runs, slot, view, chain, up, pending, faults>>

Prepare(t) ==
    /\ At(t, "prepare")
    /\ IF runs[R(t)].state = "validated"
       THEN MoveFor(R(t), "preparing", th[t].given) /\ ScheduleAndLeave(t)
       ELSE Leave(t) /\ UNCHANGED <<runs, pending>>
    /\ UNCHANGED <<slot, lease, view, chain, up, faults>>

(* step of a paused run: refused while a termination or a turn is open, as *)
(* read here; begin_step decides again on the state and cause alone.       *)
Step(t, r) ==
    /\ Free(t) /\ runs[r].state = "paused"
    /\ runs[r].term = "none" /\ runs[r].cause # "step" /\ runs[r].turn = "none"
    /\ Begin(t, r, "step", "step")
    /\ UNCHANGED <<runs, slot, lease, view, chain, up, pending, faults>>

BeginStep(t) ==
    /\ At(t, "step")
    /\ IF runs[R(t)].state = "paused" /\ runs[R(t)].cause # "step"
       THEN MoveFor(R(t), "paused", "step") /\ ScheduleAndLeave(t)
       ELSE Leave(t) /\ UNCHANGED <<runs, pending>>
    /\ UNCHANGED <<slot, lease, view, chain, up, faults>>

Pause(r) ==
    /\ up # {} /\ runs[r].state = "running"
    /\ Move(r, "paused")
    /\ UNCHANGED <<slot, lease, view, chain, up, th, pending, faults>>

(* resume, and start of a paused run.                                      *)
Resume(t, r) ==
    /\ Free(t)
    /\ runs[r].state \in {"paused", "recovery_required"} /\ runs[r].term = "none"
    /\ Hold(Proc(t), r)
    /\ Begin(t, r, "reconcile",
             IF runs[r].state = "paused" THEN "resume" ELSE "recover")
    /\ UNCHANGED <<runs, slot, view, chain, up, pending, faults>>

Resumed(t) ==
    /\ At(t, "resume")
    /\ IF runs[R(t)].state = "paused"
       THEN Move(R(t), "running") /\ ScheduleAndLeave(t)
       ELSE Leave(t) /\ UNCHANGED <<runs, pending>>
    /\ UNCHANGED <<slot, lease, view, chain, up, faults>>

Recovered(t) ==
    /\ At(t, "recover")
    /\ IF runs[R(t)].state = "recovery_required"
       THEN /\ Move(R(t), IF runs[R(t)].setUp THEN "paused" ELSE "preparing")
            /\ ScheduleAndLeave(t)
       ELSE Leave(t) /\ UNCHANGED <<runs, pending>>
    /\ UNCHANGED <<slot, lease, view, chain, up, faults>>

Abort(t, r) ==
    /\ Free(t) /\ runs[r].state \in Active
    /\ Hold(Proc(t), r)
    /\ Begin(t, r, "abort", "abort")
    /\ UNCHANGED <<runs, slot, view, chain, up, pending, faults>>

Aborted(t) ==
    /\ At(t, "abort")
    /\ RequestTermination(R(t), "abort") /\ ScheduleAndLeave(t)
    /\ UNCHANGED <<slot, lease, view, chain, up, faults>>

(* driver.reconcile: every unfinished transaction is looked up and sent    *)
(* again, or one needs a person.                                           *)
SentAgain(r) ==
    [chain EXCEPT ![r].tx =
        [x \in TxIds |-> IF x \in Unsent(r) THEN "pool" ELSE @[x]]]

(* Unanswered or contested rows stay as they were, refused ones as tried.  *)
RefusedAgain(r) ==
    \E refused \in SUBSET Unsent(r) :
        chain' = [chain EXCEPT ![r].tx =
            [x \in TxIds |-> IF x \in refused THEN "saved" ELSE @[x]]]

Reconcile(t) ==
    LET r == R(t) mode == th[t].given IN
    /\ At(t, "reconcile")
    /\ \/ /\ chain' = SentAgain(r) /\ UNCHANGED <<runs, faults>>
          /\ \/ mode = "resume" /\ Goto(t, "resume") /\ UNCHANGED pending
             \/ mode = "recover" /\ Goto(t, "poll") /\ UNCHANGED pending
             \/ mode = "boot" /\ ScheduleAndLeave(t)
             \/ mode = "reorg" /\ Goto(t, "polled") /\ UNCHANGED pending
       \/ /\ Unfinished(r) # {} /\ Fault("fault")
          /\ Recover(r) /\ RefusedAgain(r)
          /\ \/ mode = "resume" /\ ScheduleAndLeave(t)
             \/ mode \in {"recover", "boot"} /\ Leave(t) /\ UNCHANGED pending
             \/ mode = "reorg" /\ Goto(t, "polled") /\ UNCHANGED pending
    /\ UNCHANGED <<slot, lease, view, up>>

-----------------------------------------------------------------------------
(* Processes *)

(* Mutant: a run that was not being driven gives the slot up.              *)
Dormant(r) == runs[r].state \in Finished \cup {"paused"}

Stale(r) == runs[r].state \in Finished

(* A process starts: its API answers, and recovery runs beside it.         *)
StartProcess(p) ==
    /\ p \notin up /\ up' = up \cup {p}
    /\ IF slot = NoRun THEN UNCHANGED <<slot, th>>
       ELSE IF Stale(slot) THEN slot' = NoRun /\ UNCHANGED th
       ELSE /\ UNCHANGED slot
            /\ th' = [th EXCEPT ![<<p, "boot">>] =
                        [Task(slot, "takeover") EXCEPT !.given =
                            IF runs[slot].state \in {"preparing", "running", "paused"}
                            THEN "boot" ELSE "none"]]
    /\ UNCHANGED <<runs, lease, view, chain, pending, faults>>

(* Waits until the old holder's lease has expired; then the run as it was  *)
(* read before waiting decides.                                            *)
TakeOver(t) ==
    /\ At(t, "takeover") /\ Hold(Proc(t), R(t))
    /\ \/ th[t].given = "boot" /\ Goto(t, "reconcile") /\ UNCHANGED pending
       \/ th[t].given # "boot" /\ ScheduleAndLeave(t)
    /\ UNCHANGED <<runs, slot, view, chain, up, faults>>

Ends(p) ==
    /\ p \in up /\ up' = up \ {p}
    /\ th' = [t \in Threads |-> IF Proc(t) = p THEN Off ELSE th[t]]
    /\ pending' = {q \in pending : q[1] # p}

Crash(p) ==
    /\ Fault("crash") /\ Ends(p)
    /\ UNCHANGED <<runs, slot, lease, view, chain>>

(* aclose: the task is cancelled, and the lease given up.                  *)
Close(p) ==
    /\ Fault("close") /\ Ends(p)
    /\ lease' = IF slot = NoRun THEN lease ELSE Released(p, slot)
    /\ UNCHANGED <<runs, slot, view, chain>>

Driving(p, r) == p \in up /\ th[<<p, r>>].at # "off"

(* Nothing renews the lease of a run its holder is not driving.            *)
LeaseExpires(r) ==
    /\ lease[r].live /\ ~Driving(lease[r].holder, r)
    /\ lease' = [lease EXCEPT ![r].live = FALSE]
    /\ UNCHANGED <<runs, slot, view, chain, up, th, pending, faults>>

Heartbeat(p, r) ==
    /\ Driving(p, r) /\ runs[r].state \in Active /\ Hold(p, r)
    /\ UNCHANGED <<runs, slot, view, chain, up, th, pending, faults>>

-----------------------------------------------------------------------------
(* The driver: one tick *)

(* Mutant: what arrived meanwhile is forgotten.                            *)
QuietForgets(t) ==
    /\ At(t, "quiet") /\ pending' = pending \ {t} /\ Leave(t)
    /\ UNCHANGED <<runs, slot, lease, view, chain, up, faults>>

(* The task looks again, or is done.                                       *)
Quiet(t) ==
    /\ At(t, "quiet")
    /\ pending' = pending \ {t}
    /\ IF t \in pending THEN Again(t) ELSE Leave(t)
    /\ UNCHANGED <<runs, slot, lease, view, chain, up, faults>>

Driven(run) ==
    /\ run.outcome = "pending"
    /\ \/ run.state \in {"preparing", "running"}
       \/ run.state \in {"paused", "recovery_required"} /\ run.term # "none"
       \/ run.state = "paused" /\ (run.cause = "step" \/ run.turn # "none")

(* Mutant: a createSession on its way is overlooked.                       *)
NotOpened(r) == ~runs[r].session \/ ~Opened(r)

(* No session exists or can come to exist, from the database alone.        *)
Sessionless(r) ==
    ~runs[r].session \/ (Live(r, {"create"}) = {} /\ ~Opened(r))

Tick(t) ==
    LET r == R(t) IN
    /\ At(t, "tick")
    /\ IF Driven(runs[r]) /\ CanHold(Proc(t), r)
       THEN /\ Hold(Proc(t), r)
            /\ IF runs[r].term # "none" /\ Sessionless(r)
               THEN Continue(t, "end")
               ELSE Continue(t, "poll")
       ELSE Idle(t) /\ UNCHANGED lease
    /\ UNCHANGED <<runs, slot, view, chain, up, pending, faults>>

EndWithoutSession(t) ==
    /\ At(t, "end")
    /\ IF runs[R(t)].state \in {"preparing", "recovery_required"}
       THEN Move(R(t), "failed_setup") /\ Goto(t, "finish")
       ELSE Idle(t) /\ UNCHANGED runs
    /\ UNCHANGED <<slot, lease, view, chain, up, pending, faults>>

(* After a poll, an operator's recovery decides; a tick loads the run      *)
(* again, unless a refused transaction is to be sent first.                *)
Refused(r) == {x \in TxIds : chain[r].tx[x] = "saved"}

(* What the step is to be decided from.                                    *)
Kept(run) ==
    IF run.term # "none" THEN run.term
    ELSE IF run.state = "running" THEN "none" ELSE run.cause

Acting(r, run) ==
    IF ~Driven(run) THEN Task(r, "quiet")
    ELSE [Task(r, IF run.term # "none" THEN "terminate"
                  ELSE IF run.state = "preparing" THEN "set_up" ELSE "turn")
          EXCEPT !.given = Kept(run)]

Synced(t, run) ==
    th' = [th EXCEPT ![t] =
            IF ~IsTask(t) THEN [@ EXCEPT !.at = "recover"]
            ELSE IF Refused(R(t)) # {} THEN Task(R(t), "resend")
            ELSE Acting(R(t), run)]

(* The run lets go of the slot and of the lease.                           *)
Finish(t) ==
    /\ At(t, "finish")
    /\ slot' = IF slot = R(t) THEN NoRun ELSE slot
    /\ lease' = Released(Proc(t), R(t))
    /\ IF th[t].given = "recorded" THEN Synced(t, runs[R(t)]) ELSE Idle(t)
    /\ UNCHANGED <<runs, view, chain, up, pending, faults>>

Watched(r) == runs[r].session /\ runs[r].state \notin Finished

(* The indexer records the chain as it is, and a reorganisation of what it *)
(* had recorded as an event of the run.                                    *)
Polled(r) ==
    IF ~Watched(r) THEN UNCHANGED <<runs, view, chain>>
    ELSE /\ view' = [view EXCEPT ![r] =
              [sess |-> chain[r].sess, soft |-> chain[r].soft,
               failed |-> {x \in TxIds : chain[r].tx[x] = "failed"},
               acted |-> \E p \in Procs : chain[r].tx[<<"action", p>>] = "ok"]]
         /\ runs' = [runs EXCEPT ![r].reorg = @ \/ chain[r].forked]
         /\ chain' = [chain EXCEPT ![r].forked = FALSE]

Poll(t) ==
    /\ At(t, "poll")
    /\ \/ Polled(R(t)) /\ Goto(t, "polled") /\ UNCHANGED faults
       \/ Fault("rpc") /\ Outage(t) /\ UNCHANGED <<view, chain>>
       \/ /\ Fault("fault") /\ Recover(R(t))
          /\ Synced(t, Recovering(runs[R(t)]))
          /\ UNCHANGED <<view, chain>>
    /\ UNCHANGED <<slot, lease, up, pending>>

(* Mutant: a run paused already is left as it is.                          *)
ReorgDueWhenRunning(r) == runs[r].reorg /\ runs[r].state = "running"

(* What the controller makes of a poll, from the run as it is read here:   *)
(* a chain.reorg with no run.state event of cause reorg after it is acted  *)
(* on first; then a terminal event at its threshold.                       *)
ReorgDue(r) ==
    runs[r].reorg /\ runs[r].state \in {"preparing", "running", "paused"}

TerminalTarget(r) ==
    IF runs[r].setUp /\ runs[r].state # "preparing"
    THEN "terminal" ELSE "failed_setup"

TerminalDue(r) ==
    /\ Watched(r) /\ EndConfirmed(r) /\ runs[r].outcome = "pending"

Recordable(r) == TerminalDue(r) /\ Allowed(runs[r].state, TerminalTarget(r))

Report(t) ==
    LET r == R(t) IN
    /\ At(t, "polled")
    /\ \/ /\ ReorgDue(r)
          /\ th' = [th EXCEPT ![t].at = "pause_for_reorg", ![t].given = runs[r].state]
          /\ UNCHANGED <<runs, view, chain, faults>>
       \/ /\ ~ReorgDue(r) /\ Recordable(r)
          /\ runs' = [runs EXCEPT ![r].turn = "none"] /\ ForgetAction(r)
          /\ th' = [th EXCEPT ![t].at = "outcome", ![t].given = TerminalTarget(r)]
          /\ UNCHANGED faults
       \/ /\ ~ReorgDue(r) /\ ~Recordable(r)
          /\ UNCHANGED <<runs, view, chain, faults>> /\ Synced(t, runs[r])
       \/ /\ ~ReorgDue(r) /\ TerminalDue(r) /\ view[r].sess = "settled"
          /\ Fault("fault") /\ Recover(r)
          /\ UNCHANGED <<view, chain>> /\ Synced(t, Recovering(runs[r]))
    /\ UNCHANGED <<slot, lease, up, pending>>

PauseForReorg(t) ==
    LET r == R(t) target == IF th[t].given = "preparing"
                            THEN "preparing" ELSE "paused" IN
    /\ At(t, "pause_for_reorg")
    /\ IF runs[r].state = th[t].given
       THEN /\ runs' = [runs EXCEPT ![r] =
                        [Moved(@, target, "other") EXCEPT !.reorg = FALSE]]
            /\ th' = [th EXCEPT ![t] = [Task(r, "reconcile") EXCEPT !.given = "reorg"]]
       ELSE Fails(t)
    /\ UNCHANGED <<slot, lease, view, chain, up, pending, faults>>

(* Under the run's row lock, with what was decided before it.              *)
RecordTerminal(t) ==
    LET r == R(t) run == runs[r] target == th[t].given IN
    /\ At(t, "outcome")
    /\ \/ run.outcome # "pending" /\ Synced(t, run) /\ UNCHANGED runs
       \/ /\ run.outcome = "pending" /\ Allowed(run.state, target)
          /\ runs' = [runs EXCEPT ![r] =
                [Moved(@, target, "other")
                    EXCEPT !.outcome = view[r].sess]]
          /\ th' = [th EXCEPT ![t].at = "finish", ![t].given = "recorded"]
       \/ run.outcome = "pending" /\ ~Allowed(run.state, target) /\ Fails(t)
    /\ UNCHANGED <<slot, lease, view, chain, up, pending, faults>>

(* A transaction that no node accepted is looked up, and sent again.       *)
ResendRefused(t) ==
    LET r == R(t) IN
    /\ At(t, "resend")
    /\ \/ /\ chain' = SentAgain(r) /\ UNCHANGED <<runs, faults>>
          /\ th' = [th EXCEPT ![t] = Acting(r, runs[r])]
       \/ /\ Refused(r) # {} /\ Fault("fault")
          /\ Recover(r) /\ Idle(t) /\ RefusedAgain(r)
       \/ /\ Refused(r) # {} /\ Fault("rpc")
          /\ Outage(t) /\ UNCHANGED chain
    /\ UNCHANGED <<slot, lease, view, up, pending>>

-----------------------------------------------------------------------------
(* Sending *)

(* relay._persist: the relay's own nonce is taken under the lease; the     *)
(* operator's, for createSession and abortSession, is not.                 *)
Persist(t, kind) ==
    LET r == R(t) x == <<kind, Proc(t)>> IN
    IF kind \in {"create", "abort"} \/ lease[r].holder = Proc(t)
    THEN /\ chain' = [chain EXCEPT ![r].tx[x] = "new"]
         /\ th' = [th EXCEPT ![t] = [Task(r, "send") EXCEPT !.tx = x]]
         /\ UNCHANGED runs
    ELSE Fails(t) /\ UNCHANGED chain

Send(t) ==
    LET r == R(t) x == th[t].tx IN
    /\ At(t, "send")
    /\ \/ /\ chain' = [chain EXCEPT ![r].tx[x] =
                        IF @ \in {"new", "saved"} THEN "pool" ELSE @]
          /\ UNCHANGED faults
       \/ /\ Fault("rpc") /\ chain[r].tx[x] \in {"new", "saved"}
          /\ chain' = [chain EXCEPT ![r].tx[x] = "saved"]
    /\ runs' = IF x \in Actions /\ runs[r].turn = "signed"
               THEN [runs EXCEPT ![r].turn = "sent"] ELSE runs
    /\ Again(t)
    /\ UNCHANGED <<slot, lease, view, up, pending>>

(* The recorded termination, sent once and seen through: abortSession      *)
(* before the deadline, expireSession at or after it.                      *)
TerminationRows(r) == Rows(r, {"abort", "expire"})

Waits(t) ==
    LET r == R(t) IN
    \/ Live(r, {"abort", "expire"}) # {}
    \/ EndSeen(r) \/ ~Opened(r)

Reverted(t) ==
    /\ TerminationRows(R(t)) # {}
    /\ ~(chain[R(t)].late /\ Rows(R(t), {"expire"}) = {})

EndBy(t, kind) ==
    th' = [th EXCEPT ![t] = [Task(R(t), "end_session") EXCEPT !.given = kind]]

Terminate(t) ==
    LET r == R(t) IN
    /\ At(t, "terminate")
    /\ \/ Waits(t) /\ Again(t) /\ UNCHANGED <<runs, chain>>
       \/ /\ ~Waits(t) /\ Reverted(t)
          /\ Recover(r) /\ Idle(t) /\ UNCHANGED chain
       \/ /\ ~Waits(t) /\ ~Reverted(t) /\ chain[r].late
          /\ EndBy(t, "expire") /\ UNCHANGED <<runs, chain>>
       \/ /\ ~Waits(t) /\ ~Reverted(t) /\ ~chain[r].late
          /\ IF th[t].given # "deadline" THEN EndBy(t, "abort") ELSE Again(t)
          /\ UNCHANGED <<runs, chain>>
    /\ UNCHANGED <<slot, lease, view, up, pending, faults>>

EndSession(t) ==
    /\ At(t, "end_session") /\ Persist(t, th[t].given)
    /\ UNCHANGED <<slot, lease, view, up, pending, faults>>

-----------------------------------------------------------------------------
(* Set-up *)

CreateReverted(r) == {"create"} \X Procs \cap view[r].failed # {}

(* Minting, funding and the approvals, all confirmed before the session.   *)
Fund(t) ==
    LET r == R(t) IN
    /\ At(t, "set_up") /\ ~runs[r].funded
    /\ \/ /\ runs' = [runs EXCEPT ![r].funded = TRUE] /\ Again(t)
          /\ UNCHANGED faults
       \/ Fault("revert") /\ Continue(t, "setup_failed") /\ UNCHANGED runs
       \/ Fault("fault") /\ Recover(r) /\ Idle(t)
       \/ AgentUnavailable(t)
    /\ UNCHANGED <<slot, lease, view, chain, up, pending>>

(* The session's terms are recorded before createSession is sent; a        *)
(* restart between the two sends the terms recorded.                       *)
OpenSession(t) ==
    LET r == R(t) IN
    /\ At(t, "set_up") /\ runs[r].funded
    /\ ~CreateReverted(r) /\ Live(r, {"create"}) = {}
    /\ runs' = [runs EXCEPT ![r].session = TRUE]
    /\ Continue(t, "create")
    /\ UNCHANGED <<slot, lease, view, chain, up, pending, faults>>

CreateSession(t) ==
    /\ At(t, "create") /\ Persist(t, "create")
    /\ UNCHANGED <<slot, lease, view, up, pending, faults>>

(* Both agents approve the session opened, and the balances are recorded.  *)
AwaitSession(t) ==
    LET r == R(t) IN
    /\ At(t, "set_up") /\ runs[r].funded
    /\ \/ CreateReverted(r) /\ Continue(t, "setup_failed") /\ UNCHANGED <<runs, faults>>
       \/ /\ ~CreateReverted(r) /\ Live(r, {"create"}) # {} /\ ~OpenConfirmed(r)
          /\ Again(t) /\ UNCHANGED <<runs, faults>>
       \/ /\ ~CreateReverted(r) /\ Live(r, {"create"}) # {} /\ OpenConfirmed(r)
          /\ \/ /\ runs' = [runs EXCEPT ![r].setUp = TRUE]
                /\ Goto(t, "set_up_done") /\ UNCHANGED faults
             \/ Fault("refuse") /\ RequestTermination(r, "abort") /\ Again(t)
             \/ Fault("fault") /\ Recover(r) /\ Idle(t)
             \/ AgentUnavailable(t)
    /\ UNCHANGED <<slot, lease, view, chain, up, pending>>

SetupDone(t) ==
    LET r == R(t) cause == th[t].given IN
    /\ At(t, "set_up_done")
    /\ \/ /\ runs[r].state = "preparing" /\ Again(t)
          /\ IF cause = "start" THEN Move(r, "running")
             ELSE MoveFor(r, "paused", IF cause = "step" THEN "step" ELSE "other")
       \/ runs[r].state # "preparing" /\ Fails(t)
    /\ UNCHANGED <<slot, lease, view, chain, up, pending, faults>>

SetupFailed(t) ==
    /\ At(t, "setup_failed")
    /\ IF runs[R(t)].state = "preparing"
       THEN Move(R(t), "failed_setup") /\ Goto(t, "finish")
       ELSE Fails(t)
    /\ UNCHANGED <<slot, lease, view, chain, up, pending, faults>>

-----------------------------------------------------------------------------
(* Turns *)

(* A turn is finished, with what it owes in the same unit of work.         *)
FinishTurn(r, term) ==
    /\ runs' = [runs EXCEPT ![r] =
            [IF term = "none" THEN @ ELSE Ending(@, term) EXCEPT !.turn = "none"]]
    /\ ForgetAction(r)

(* turns.advance, decided from the run as the driver loaded it.            *)
BeginTurn(t) ==
    LET r == R(t) IN
    /\ At(t, "turn") /\ runs[r].turn = "none"
    /\ \/ /\ chain[r].late /\ RequestTermination(r, "deadline") /\ Again(t)
          /\ UNCHANGED faults
       \/ /\ ~chain[r].late /\ EndSeen(r) /\ Again(t) /\ UNCHANGED <<runs, faults>>
       \/ /\ ~chain[r].late /\ ~EndSeen(r)
          /\ runs' = [runs EXCEPT ![r].turn = "deciding"]
          /\ Continue(t, "ask") /\ UNCHANGED faults
       \/ Fault("fault") /\ Recover(r) /\ Idle(t)
    /\ UNCHANGED <<slot, lease, view, chain, up, pending>>

(* A decision asked for and not recorded: asked again, unless the deadline *)
(* or the validity of the offer it answers has passed.                     *)
AskAgain(t) ==
    LET r == R(t) IN
    /\ At(t, "turn") /\ runs[r].turn = "deciding"
    /\ \/ FinishTurn(r, "none") /\ Again(t)
       \/ ~chain[r].late /\ Continue(t, "ask") /\ UNCHANGED <<runs, chain, view>>
    /\ UNCHANGED <<slot, lease, up, pending, faults>>

Ask(t) ==
    LET r == R(t) IN
    /\ At(t, "ask")
    /\ \/ /\ Continue(t, "sign") /\ UNCHANGED <<runs, view, chain, faults>>
       \/ /\ FinishTurn(r, "abort") /\ Again(t) /\ UNCHANGED faults
       \/ /\ chain[r].late /\ Continue(t, "deadline") /\ FinishTurn(r, "none")
          /\ UNCHANGED faults
       \/ AgentUnavailable(t) /\ UNCHANGED <<view, chain>>
       \/ /\ Fault("fault") /\ Continue(t, "refused") /\ FinishTurn(r, "none")
    /\ UNCHANGED <<slot, lease, up, pending>>

(* The agent's deadline has passed: the session's expiry ends it.          *)
DeadlinePassed(t) ==
    /\ At(t, "deadline") /\ RequestTermination(R(t), "deadline") /\ Again(t)
    /\ UNCHANGED <<slot, lease, view, chain, up, pending, faults>>

AgentRefused(t) ==
    /\ At(t, "refused") /\ Recover(R(t)) /\ Idle(t)
    /\ UNCHANGED <<slot, lease, view, chain, up, pending, faults>>

(* Mutant: the termination is not looked for again.                        *)
RecordSignedBlindly(t) ==
    LET r == R(t) IN
    /\ At(t, "sign")
    /\ runs' = [runs EXCEPT ![r].turn = IF @ = "none" THEN @ ELSE "signed"]
    /\ Continue(t, "submit")
    /\ UNCHANGED <<slot, lease, view, chain, up, pending, faults>>

(* Under the run's row lock: a termination committed first wins.  A turn   *)
(* that another thread's poll has closed stays closed, its action signed.  *)
RecordSigned(t) ==
    LET r == R(t) IN
    /\ At(t, "sign")
    /\ IF runs[r].term # "none" THEN FinishTurn(r, "none") /\ Again(t)
       ELSE /\ runs' = [runs EXCEPT ![r].turn = IF @ = "none" THEN @ ELSE "signed"]
            /\ Continue(t, "submit") /\ UNCHANGED <<chain, view>>
    /\ UNCHANGED <<slot, lease, up, pending, faults>>

SubmitAgain(t) ==
    /\ At(t, "turn") /\ runs[R(t)].turn = "signed" /\ Continue(t, "submit")
    /\ UNCHANGED <<runs, slot, lease, view, chain, up, pending, faults>>

(* An action already persisted is sent as it stands, never signed again.   *)
Submit(t) ==
    LET r == R(t) IN
    /\ At(t, "submit")
    /\ \/ Rows(r, {"action"}) = {} /\ Persist(t, "action")
       \/ \E x \in Rows(r, {"action"}) :
             /\ th' = [th EXCEPT ![t] = [Task(r, "send") EXCEPT !.tx = x]]
             /\ UNCHANGED <<runs, chain>>
    /\ UNCHANGED <<slot, lease, view, up, pending, faults>>

FollowTurn(t) ==
    LET r == R(t) reverted == Actions \cap view[r].failed # {}
        confirmed == view[r].acted /\ "act" \notin view[r].soft IN
    /\ At(t, "turn") /\ runs[r].turn = "sent"
    /\ \/ reverted /\ FinishTurn(r, "abort") /\ Again(t)
       \/ ~reverted /\ confirmed /\ FinishTurn(r, "none") /\ Goto(t, "confirmed")
       \/ ~reverted /\ ~confirmed /\ Again(t) /\ UNCHANGED <<runs, view, chain>>
    /\ UNCHANGED <<slot, lease, up, pending, faults>>

(* A requested step is complete with its turn.                             *)
TurnConfirmed(t) ==
    LET r == R(t) IN
    /\ At(t, "confirmed")
    /\ IF th[t].given = "step" /\ runs[r].state = "paused"
       THEN Move(r, "paused") ELSE UNCHANGED runs
    /\ Again(t)
    /\ UNCHANGED <<slot, lease, view, chain, up, pending, faults>>

-----------------------------------------------------------------------------
(* The chain *)

(* What a block just mined leaves short of the threshold.                  *)
Fresh(events) == IF OneBlock THEN {} ELSE events

Mine(r, x) ==
    LET c == chain[r] kind == x[1]
        InTime == c.sess = "open" /\ ~c.late
        Ok(sess, fresh) ==
            chain' = [chain EXCEPT ![r] =
                [c EXCEPT !.sess = sess, !.soft = @ \cup Fresh(fresh),
                           !.tx[x] = "ok"]]
        Failed == chain' = [chain EXCEPT ![r].tx[x] = "failed"] IN
    /\ c.tx[x] = "pool"
    /\ CASE kind = "create" ->
              IF c.sess = "none" /\ ~c.late THEN Ok("open", {"open"}) ELSE Failed
         [] kind = "action" ->
              \/ Failed
              \/ InTime /\ Ok("open", {"act"})
              \/ InTime /\ \E e \in {"settled", "closed"} : Ok(e, {"act", "end"})
         [] kind = "abort" ->
              IF InTime THEN Ok("aborted", {"end"}) ELSE Failed
         [] kind = "expire" ->
              IF c.sess = "open" /\ c.late THEN Ok("expired", {"end"}) ELSE Failed
    /\ UNCHANGED <<runs, slot, lease, view, up, th, pending, faults>>

(* The deadline of a session, once it has been fixed.                      *)
Deadline(r) ==
    /\ Expires /\ runs[r].session /\ ~chain[r].late
    /\ chain' = [chain EXCEPT ![r].late = TRUE]
    /\ UNCHANGED <<runs, slot, lease, view, up, th, pending, faults>>

(* expireSession is anyone's.                                              *)
ExpireByAnyone(r) ==
    /\ chain[r].sess = "open" /\ chain[r].late
    /\ chain' = [chain EXCEPT ![r].sess = "expired", ![r].soft = @ \cup Fresh({"end"})]
    /\ UNCHANGED <<runs, slot, lease, view, up, th, pending, faults>>

(* Every block mined so far reaches the run's threshold.                   *)
Confirm(r) ==
    /\ chain[r].soft # {}
    /\ chain' = [chain EXCEPT ![r].soft = {}]
    /\ UNCHANGED <<runs, slot, lease, view, up, th, pending, faults>>

(* Blocks below the threshold are replaced by blocks without what they     *)
(* held: all of it, or the ending alone when its block was a later one.    *)
Dropped(r) ==
    {chain[r].soft}
      \cup (IF "end" \in chain[r].soft /\ chain[r].sess \in {"aborted", "expired"}
            THEN {{"end"}} ELSE {})

Undone(d, kind, sess) ==
    \/ kind = "create" /\ "open" \in d
    \/ kind = "action" /\ "act" \in d
    \/ kind = "abort" /\ "end" \in d /\ sess = "aborted"
    \/ kind = "expire" /\ "end" \in d /\ sess = "expired"

Recorded(r, d) ==
    \/ "open" \in d /\ view[r].sess # "none"
    \/ "act" \in d /\ view[r].acted
    \/ "end" \in d /\ view[r].sess \in Endings

Reorg(r) ==
    LET c == chain[r] IN
    /\ Fault("reorg")
    /\ \E d \in Dropped(r) \ {{}} :
          chain' = [chain EXCEPT ![r] =
            [sess |-> IF "open" \in d THEN "none"
                      ELSE IF "end" \in d THEN "open" ELSE c.sess,
             soft |-> c.soft \ d, late |-> c.late,
             forked |-> c.forked \/ Recorded(r, d),
             tx |-> [x \in TxIds |->
                        IF c.tx[x] = "ok" /\ Undone(d, x[1], c.sess)
                        THEN "pool" ELSE c.tx[x]]]]
    /\ UNCHANGED <<runs, slot, lease, view, up, th, pending>>

-----------------------------------------------------------------------------
(* Specification *)

Request(t) ==
    \E r \in Runs :
        \/ \E mode \in {"start", "step"} : Start(t, r, mode)
        \/ Step(t, r) \/ Resume(t, r) \/ Abort(t, r)

Serve(t) ==
    \/ HoldToPrepare(t) \/ Prepare(t) \/ BeginStep(t)
    \/ Resumed(t) \/ Recovered(t) \/ Aborted(t)
    \/ TakeOver(t)

Sync(t) ==
    \/ Reconcile(t) \/ Poll(t) \/ Report(t) \/ PauseForReorg(t)
    \/ RecordTerminal(t) \/ Finish(t)

Drive(t) ==
    \/ Quiet(t) \/ Tick(t) \/ EndWithoutSession(t)
    \/ ResendRefused(t) \/ Terminate(t) \/ EndSession(t) \/ Send(t)
    \/ Fund(t) \/ OpenSession(t) \/ CreateSession(t) \/ AwaitSession(t)
    \/ SetupDone(t) \/ SetupFailed(t)
    \/ BeginTurn(t) \/ AskAgain(t) \/ Ask(t) \/ DeadlinePassed(t)
    \/ AgentRefused(t) \/ RecordSigned(t) \/ SubmitAgain(t) \/ Submit(t)
    \/ FollowTurn(t) \/ TurnConfirmed(t)

Work(t) == Serve(t) \/ Sync(t) \/ Drive(t)

Process(p) ==
    \/ StartProcess(p) \/ Crash(p) \/ Close(p)
    \/ \E r \in Runs : Heartbeat(p, r)

Chain(r) ==
    \/ \E x \in TxIds : Mine(r, x)
    \/ Deadline(r) \/ ExpireByAnyone(r) \/ Confirm(r) \/ Reorg(r)

Next ==
    \/ \E t \in Threads : Request(t) \/ Work(t)
    \/ \E p \in Procs : Process(p)
    \/ \E r \in Runs : Validate(r) \/ Pause(r) \/ LeaseExpires(r) \/ Chain(r)

Spec == Init /\ [][Next]_vars

(* The event loop serves every thread; blocks are mined, deadlines pass,   *)
(* an unrenewed lease expires, and a dead process is started again.        *)
FairSpec ==
    /\ Spec
    /\ \A t \in Threads : WF_vars(Work(t))
    /\ \A p \in Procs : WF_vars(StartProcess(p))
    /\ \A r \in Runs :
          /\ \A x \in TxIds : WF_vars(Mine(r, x))
          /\ WF_vars(Confirm(r)) /\ WF_vars(Deadline(r))
          /\ WF_vars(LeaseExpires(r))

-----------------------------------------------------------------------------
(* Properties *)

Tx == {"none", "new", "saved", "pool", "ok", "failed"}
Steps == {"off", "tick", "quiet", "hold", "prepare", "step", "reconcile",
          "resume", "recover", "abort", "takeover", "end",
          "finish", "poll", "polled", "pause_for_reorg", "outcome", "resend",
          "terminate", "end_session", "set_up", "create", "send", "set_up_done",
          "setup_failed", "turn", "ask", "sign", "submit", "deadline",
          "refused", "confirmed"}
Sessions == {"none", "open"} \cup Endings

TypeOK ==
    /\ runs \in [Runs ->
         [state : States, cause : Causes, term : Terminations,
          outcome : Outcomes, session : BOOLEAN, funded : BOOLEAN,
          setUp : BOOLEAN, turn : Turns, reorg : BOOLEAN]]
    /\ slot \in Runs \cup {NoRun}
    /\ lease \in [Runs -> [holder : Procs \cup {NoProc}, live : BOOLEAN]]
    /\ \A r \in Runs :
         /\ chain[r].sess \in Sessions /\ view[r].sess \in Sessions
         /\ chain[r].soft \cup view[r].soft \subseteq {"open", "act", "end"}
         /\ chain[r].tx \in [TxIds -> Tx] /\ view[r].failed \subseteq TxIds
    /\ up \subseteq Procs /\ pending \subseteq Procs \X Runs
    /\ \A t \in Threads : th[t].at \in Steps /\ th[t].given \in Givens

(* A run that may touch the chain holds the one active-run row: whatever   *)
(* requests, restarts and endings race, no two runs are active, and an     *)
(* active run's row is never given to another (ADR-019).                   *)
ActiveHoldsSlot == \A r \in Runs : runs[r].state \in Active => slot = r

(* A recorded outcome is how the session ended on chain, in blocks that    *)
(* are past the threshold, and only a finished run has one.                *)
OutcomeFromChain ==
    \A r \in Runs : runs[r].outcome # "pending" =>
        /\ chain[r].sess = runs[r].outcome /\ "end" \notin chain[r].soft
        /\ runs[r].state \in Finished

(* A run given up as failed set-up with no outcome has no session: none    *)
(* was opened, and no createSession is on its way (driver._sessionless).   *)
FailedSetupHasNoSession ==
    \A r \in Runs :
        runs[r].state = "failed_setup" /\ runs[r].outcome = "pending" =>
            /\ chain[r].sess = "none"
            /\ \A x \in {"create"} \X Procs : chain[r].tx[x] \notin {"new", "saved", "pool"}

(* Once a termination is recorded nothing is signed into the run, however  *)
(* long the agent took to answer and whoever drives it (ADR-070).          *)
NothingSignedOnceEnding ==
    [][\A r \in Runs :
        runs[r].turn # "signed" /\ runs'[r].turn = "signed" => runs[r].term = "none"]_vars

(* One process at a time drives a run: a task is inside a tick only in the *)
(* process that the lease is for, through restarts, shutdowns and requests *)
(* whose own lease runs out (architecture 8).                              *)
Inside(p, r) == th[<<p, r>>].at \notin {"off", "quiet", "tick"}
OneDriver ==
    \A r \in Runs : \A p, q \in Procs : Inside(p, r) /\ Inside(q, r) => p = q

(* A finished run never changes again: neither its state nor its outcome,  *)
(* whatever task, request or process still acts on what it read before.    *)
FinishedIsFinal ==
    [][\A r \in Runs : runs[r].state \in Finished =>
        runs'[r].state = runs[r].state /\ runs'[r].outcome = runs[r].outcome]_vars

(* The controller only takes transitions that architecture 6.1 draws.      *)
OnlyDrawnTransitions ==
    [][\A r \in Runs : runs'[r].state # runs[r].state =>
        <<runs[r].state, runs'[r].state>> \in Transitions]_vars

(* No turn begins on a history that a reorganisation undid before the      *)
(* operator was shown it: each chain.reorg pauses the run first (FR-E4).   *)
NoTurnOnUnseenReorg ==
    [][\A r \in Runs :
        runs[r].turn = "none" /\ runs'[r].turn = "deciding" => ~runs[r].reorg]_vars

(* An operator's recovery decides from the chain: a run whose session is   *)
(* over on chain, past the threshold, as its own poll recorded, is not     *)
(* taken out of recovery to go on (controller._recover_run).               *)
RecoveryDecidesFromChain ==
    [][\A r \in Runs :
        runs[r].state = "recovery_required" /\ runs'[r].state \in {"paused", "preparing"}
            => ~EndConfirmed(r)]_vars

(* A recovery was recorded and every thread of this run has come to rest.  *)
GaveUp(r) ==
    /\ runs[r].state = "recovery_required"
    /\ \A t \in Threads : R(t) = r => th[t].at = "off"

(* An accepted abort, and every termination a turn or a deadline recorded, *)
(* ends the run, unless a person is asked for: no wake-up is lost between  *)
(* the request and the task that was about to stop.                        *)
TerminationEnds ==
    \A r \in Runs : runs[r].term # "none" ~> runs[r].state \in Finished \/ GaveUp(r)

=============================================================================
