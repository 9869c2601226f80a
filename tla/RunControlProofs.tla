-------------------------- MODULE RunControlProofs --------------------------
(***************************************************************************)
(* What holds of RunControl for any number of runs, processes, requests    *)
(* and faults: whoever holds the slot, an outcome is the chain's, and only *)
(* the transitions drawn are taken.                                        *)
(*                                                                         *)
(* The invariants are proved together.  Each step is first shown to have   *)
(* an effect of a few kinds (RunsStep, SlotStep, ViewStep, ChainStep,      *)
(* ThreadsStep); that a step of these kinds keeps the invariants is shown  *)
(* once (StepKeepsInv).                                                    *)
(*                                                                         *)
(* From "The lease" on, the module is about two processes that act on one  *)
(* run through its lease: one of them at a time drives it, and a run given *)
(* up as failed set-up has no session.                                     *)
(***************************************************************************)
EXTENDS RunControl, TLAPS

-----------------------------------------------------------------------------
(* The inductive invariant *)

Softs == {"open", "act", "end"}

RunRow ==
    [state : States, cause : Causes, term : Terminations,
     outcome : Outcomes, session : BOOLEAN, funded : BOOLEAN,
     setUp : BOOLEAN, turn : Turns, reorg : BOOLEAN]
LeaseRow == [holder : Procs \cup {NoProc}, live : BOOLEAN]
ChainRow ==
    [sess : Sessions, soft : SUBSET Softs, late : BOOLEAN,
     forked : BOOLEAN, tx : [TxIds -> Tx]]
ViewRow ==
    [sess : Sessions, soft : SUBSET Softs, failed : SUBSET TxIds, acted : BOOLEAN]
Thread ==
    [at : Steps, run : Runs \cup {NoRun}, tx : TxIds \cup {NoTx}, given : Givens]

TypeInv ==
    /\ runs \in [Runs -> RunRow]
    /\ slot \in Runs \cup {NoRun}
    /\ lease \in [Runs -> LeaseRow]
    /\ chain \in [Runs -> ChainRow]
    /\ view \in [Runs -> ViewRow]
    /\ th \in [Threads -> Thread]
    /\ up \subseteq Procs
    /\ pending \subseteq Procs \X Runs

(* The end is past the threshold.                                          *)
Final(row) == row.sess \in Endings /\ "end" \notin row.soft

(* What a thread at a step has established, and no other can undo.         *)
ThreadInv(t) ==
    /\ th[t].at # "off" => th[t].run \in Runs
    /\ th[t].at \in {"hold", "prepare"} =>
         /\ th[t].given \in {"start", "step"}
         /\ runs[th[t].run].state \notin Finished => slot = th[t].run
    /\ th[t].at = "finish" => runs[th[t].run].state \in Finished
    /\ th[t].at = "pause_for_reorg" =>
         th[t].given \in {"preparing", "running", "paused"}
    /\ th[t].at = "outcome" => th[t].given \in Finished /\ Final(view[th[t].run])
    /\ th[t].at = "send" => th[t].tx \in TxIds
    /\ th[t].at = "end_session" => th[t].given \in {"abort", "expire"}

(* A session's end is in no earlier block than its opening.                *)
ChainInv ==
    \A r \in Runs :
        /\ OneBlock => chain[r].soft = {}
        /\ chain[r].sess \in Endings /\ "open" \in chain[r].soft => "end" \in chain[r].soft

(* What the indexer saw past the threshold is the chain's.                 *)
ViewInv ==
    \A r \in Runs : Final(view[r]) => Final(chain[r]) /\ chain[r].sess = view[r].sess

IInv ==
    /\ TypeInv
    /\ \A t \in Threads : ThreadInv(t)
    /\ ChainInv /\ ViewInv
    /\ ActiveHoldsSlot /\ OutcomeFromChain

-----------------------------------------------------------------------------
(* What a step does *)

(* Only drawn transitions; a run becomes active holding the slot; an       *)
(* outcome is recorded once, with the end of the run, from the chain; a    *)
(* turn is signed before any termination.                                  *)
Unsigned(r) == runs[r].turn # "signed"
RunsStep ==
    /\ runs' \in [Runs -> RunRow]
    /\ \A r \in Runs :
        /\ \/ runs'[r].state = runs[r].state
           \/ <<runs[r].state, runs'[r].state>> \in Transitions
        /\ runs'[r].state \in Active => runs[r].state \in Active \/ slot' = r
        /\ \/ runs'[r].outcome = runs[r].outcome
           \/ /\ runs[r].state \notin Finished /\ runs'[r].state \in Finished
              /\ Final(chain[r]) /\ runs'[r].outcome = chain[r].sess
        /\ Unsigned(r) /\ runs'[r].turn = "signed" => runs[r].term = "none"

(* The slot is only taken when it is free, and only a finished run's is    *)
(* given up.                                                               *)
SlotStep ==
    /\ slot' \in Runs \cup {NoRun}
    /\ slot' # slot =>
        \/ slot = NoRun
        \/ slot \in Runs /\ runs[slot].state \in Finished

ViewStep ==
    /\ view' \in [Runs -> ViewRow]
    /\ \A r \in Runs :
        /\ Final(view[r]) => Final(view'[r])
        /\ Final(view'[r]) => Final(chain[r]) /\ chain[r].sess = view'[r].sess

ChainStep ==
    /\ chain' \in [Runs -> ChainRow]
    /\ ChainInv'
    /\ \A r \in Runs :
        Final(chain[r]) => Final(chain'[r]) /\ chain'[r].sess = chain[r].sess

(* Every other thread stays where it was, or is a task just started.       *)
ThreadsStep ==
    /\ th' \in [Threads -> Thread]
    /\ \A t \in Threads :
        \/ th'[t] = th[t]
        \/ ThreadInv(t)'

RestStep ==
    /\ lease' \in [Runs -> LeaseRow]
    /\ up' \subseteq Procs /\ pending' \subseteq Procs \X Runs

LegalStep == RunsStep /\ SlotStep /\ ViewStep /\ ChainStep /\ ThreadsStep /\ RestStep

(* No transition leaves a finished state (states.py:57).                    *)
LEMMA FinishedStays ==
    ASSUME NEW from \in Finished, NEW to, <<from, to>> \in Transitions
    PROVE  FALSE
BY DEF Finished, Transitions

(* Steps of these kinds keep every part of the invariant.                  *)
LEMMA StepKeepsInv ==
    ASSUME IInv, LegalStep
    PROVE  IInv'
<1>1. ASSUME NEW r \in Runs, runs[r].state \in Finished
      PROVE  runs'[r].state \in Finished
    BY <1>1, FinishedStays DEF LegalStep, RunsStep
<1>2. TypeInv'
    BY DEF LegalStep, RunsStep, SlotStep, ViewStep, ChainStep, ThreadsStep, RestStep, TypeInv
<1>3. ASSUME NEW t \in Threads PROVE ThreadInv(t)'
    <2>1. CASE ThreadInv(t)' BY <2>1
    <2>2. CASE th'[t] = th[t]
        <3>1. ThreadInv(t) BY DEF IInv
        <3>2. th[t].at # "off" => th[t].run \in Runs BY <3>1 DEF ThreadInv
        <3>3. th[t].at \in {"hold", "prepare"} /\ runs'[th[t].run].state \notin Finished
                => slot' = th[t].run
            <4>1. ASSUME th[t].at \in {"hold", "prepare"}, runs'[th[t].run].state \notin Finished
                  PROVE  slot' = th[t].run
                <5>1. th[t].run \in Runs BY <3>2, <4>1
                <5>2. runs[th[t].run].state \notin Finished BY <1>1, <4>1, <5>1
                <5>3. slot = th[t].run BY <3>1, <4>1, <5>2 DEF ThreadInv
                <5>4. th[t].run # NoRun BY <5>1, RunControlAssumption
                <5>5. QED BY <5>1, <5>2, <5>3, <5>4 DEF LegalStep, SlotStep
            <4>2. QED BY <4>1
        <3>4. th[t].at = "finish" => runs'[th[t].run].state \in Finished
            BY <1>1, <3>1, <3>2 DEF ThreadInv
        <3>5. th[t].at = "outcome" => Final(view'[th[t].run])
            BY <3>1, <3>2 DEF ThreadInv, LegalStep, ViewStep
        <3>6. QED BY <2>2, <3>1, <3>2, <3>3, <3>4, <3>5 DEF ThreadInv, Final
    <2>3. QED BY <2>1, <2>2 DEF LegalStep, ThreadsStep
<1>4. ChainInv' BY DEF LegalStep, ChainStep
<1>5. ViewInv' BY DEF LegalStep, ViewStep, ChainStep, ViewInv, Final
<1>6. ActiveHoldsSlot'
    <2>1. ASSUME NEW r \in Runs, runs'[r].state \in Active PROVE slot' = r
        <3>1. CASE runs[r].state \in Active
            <4>1. slot = r BY <3>1 DEF IInv, ActiveHoldsSlot
            <4>2. runs[r].state \notin Finished BY <3>1 DEF Active, Finished
            <4>3. r # NoRun BY RunControlAssumption
            <4>4. QED BY <4>1, <4>2, <4>3 DEF LegalStep, SlotStep
        <3>2. QED BY <2>1, <3>1 DEF LegalStep, RunsStep
    <2>2. QED BY <2>1 DEF ActiveHoldsSlot
<1>7. OutcomeFromChain'
    <2>1. ASSUME NEW r \in Runs, runs'[r].outcome # "pending"
          PROVE  /\ chain'[r].sess = runs'[r].outcome /\ "end" \notin chain'[r].soft
                 /\ runs'[r].state \in Finished
        <3>1. CASE runs'[r].outcome = runs[r].outcome
            <4>1. /\ chain[r].sess = runs[r].outcome /\ "end" \notin chain[r].soft
                  /\ runs[r].state \in Finished
                BY <2>1, <3>1 DEF IInv, OutcomeFromChain
            <4>2. runs[r].outcome \in Endings
                BY <2>1, <3>1 DEF IInv, TypeInv, RunRow, Outcomes
            <4>3. Final(chain[r]) BY <4>1, <4>2 DEF Final
            <4>4. QED BY <1>1, <3>1, <4>1, <4>3 DEF LegalStep, ChainStep, Final
        <3>2. CASE Final(chain[r]) /\ runs'[r].outcome = chain[r].sess /\ runs'[r].state \in Finished
            BY <3>2 DEF LegalStep, ChainStep, Final
        <3>3. QED BY <3>1, <3>2 DEF LegalStep, RunsStep
    <2>2. QED BY <2>1 DEF OutcomeFromChain
<1>8. QED BY <1>2, <1>3, <1>4, <1>5, <1>6, <1>7 DEF IInv

-----------------------------------------------------------------------------
(* The rows: what the helpers of the specification do *)

LEMMA RunsUnchanged ==
    ASSUME IInv, UNCHANGED runs PROVE RunsStep
BY DEF IInv, TypeInv, RunsStep, Unsigned

LEMMA RunsTyped == ASSUME IInv PROVE runs \in [Runs -> RunRow]
BY DEF IInv, TypeInv

LEMMA RunsFields ==
    ASSUME IInv, runs' \in [Runs -> RunRow],
           \A r \in Runs : /\ runs'[r].state = runs[r].state
                           /\ runs'[r].outcome = runs[r].outcome
                           /\ \/ runs'[r].turn \in {runs[r].turn, "none", "deciding", "sent"}
                              \/ runs[r].term = "none"
    PROVE  RunsStep
BY DEF RunsStep, Unsigned

LEMMA RunMarked ==
    ASSUME IInv, NEW r \in Runs, NEW row \in RunRow,
           runs' = [runs EXCEPT ![r] = row],
           row.state = runs[r].state, row.outcome = runs[r].outcome,
           row.turn = runs[r].turn
    PROVE  RunsStep
<1>1. runs \in [Runs -> RunRow] BY RunsTyped
<1>2. /\ runs' \in [Runs -> RunRow] /\ runs'[r] = row
      /\ \A q \in Runs \ {r} : runs'[q] = runs[q]
    BY <1>1
<1>3. \A q \in Runs : /\ runs'[q].state = runs[q].state
                      /\ runs'[q].outcome = runs[q].outcome
                      /\ runs'[q].turn = runs[q].turn
    BY <1>2
<1>4. QED BY <1>2, <1>3, RunsFields

LEMMA MoveIsStep ==
    ASSUME IInv, NEW r \in Runs, NEW s \in States, NEW c \in Causes,
           MoveFor(r, s, c),
           runs[r].state = s \/ <<runs[r].state, s>> \in Transitions,
           s \in Active => runs[r].state \in Active \/ slot' = r
    PROVE  RunsStep
<1>1. runs \in [Runs -> RunRow] BY DEF IInv, TypeInv
<1>2. /\ runs' \in [Runs -> RunRow]
      /\ runs'[r].state = s /\ runs'[r].outcome = runs[r].outcome
      /\ runs'[r].turn = runs[r].turn
      /\ \A q \in Runs : q # r => runs'[q] = runs[q]
    BY ZenonT(60), <1>1 DEF MoveFor, Moved, RunRow
<1>3. QED BY <1>2 DEF RunsStep, Unsigned

LEMMA RecoverIsStep ==
    ASSUME IInv, NEW r \in Runs, Recover(r)
    PROVE  RunsStep
<1>1. runs \in [Runs -> RunRow] BY DEF IInv, TypeInv
<1>2. CASE runs[r].state \in Active
    <2>1. MoveFor(r, "recovery_required", "other")
        BY <1>2 DEF Recover, Recovering, MoveFor
    <2>2. \/ runs[r].state = "recovery_required"
          \/ <<runs[r].state, "recovery_required">> \in Transitions
        BY <1>2 DEF Active, Transitions
    <2>3. QED BY <1>2, <2>1, <2>2, MoveIsStep DEF States, Active, Causes
<1>3. CASE runs[r].state \notin Active
    BY <1>1, <1>3, RunsFields DEF Recover, Recovering
<1>4. QED BY <1>2, <1>3

LEMMA TerminationIsStep ==
    ASSUME IInv, NEW r \in Runs, NEW c \in Terminations, RequestTermination(r, c)
    PROVE  RunsStep
<1>1. runs \in [Runs -> RunRow] BY DEF IInv, TypeInv
<1>2. QED BY <1>1, RunsFields DEF RequestTermination, Ending, RunRow

LEMMA SlotUnchanged ==
    ASSUME IInv, UNCHANGED slot PROVE SlotStep
BY DEF IInv, TypeInv, SlotStep

LEMMA ViewUnchanged ==
    ASSUME IInv, UNCHANGED view PROVE ViewStep
BY DEF IInv, TypeInv, ViewInv, ViewStep

LEMMA ChainUnchanged ==
    ASSUME IInv, UNCHANGED chain PROVE ChainStep
BY DEF IInv, TypeInv, ChainInv, ChainStep

LEMMA ChainTx ==
    ASSUME IInv, NEW r \in Runs, NEW f \in [TxIds -> Tx],
           chain' = [chain EXCEPT ![r].tx = f]
    PROVE  ChainStep
<1>1. chain \in [Runs -> ChainRow] BY DEF IInv, TypeInv
<1>2. /\ chain' \in [Runs -> ChainRow]
      /\ \A q \in Runs : chain'[q].sess = chain[q].sess /\ chain'[q].soft = chain[q].soft
    BY <1>1 DEF ChainRow
<1>3. QED BY <1>2 DEF ChainStep, ChainInv, IInv, Final

LEMMA ChainTxOne ==
    ASSUME IInv, NEW r \in Runs, NEW x \in TxIds, NEW v \in Tx,
           chain' = [chain EXCEPT ![r].tx[x] = v]
    PROVE  ChainStep
<1>1. chain \in [Runs -> ChainRow] BY DEF IInv, TypeInv
<1>2. [chain[r].tx EXCEPT ![x] = v] \in [TxIds -> Tx] BY <1>1 DEF ChainRow
<1>3. chain' = [chain EXCEPT ![r].tx = [chain[r].tx EXCEPT ![x] = v]] OBVIOUS
<1>4. QED BY <1>2, <1>3, ChainTx

LEMMA SentAgainIsStep ==
    ASSUME IInv, NEW r \in Runs, chain' = SentAgain(r)
    PROVE  ChainStep
<1> DEFINE f == [x \in TxIds |-> IF x \in Unsent(r) THEN "pool" ELSE chain[r].tx[x]]
<1>1. f \in [TxIds -> Tx] BY DEF IInv, TypeInv, ChainRow, Tx
<1>2. chain' = [chain EXCEPT ![r].tx = f] BY DEF SentAgain
<1>3. QED BY <1>1, <1>2, ChainTx

LEMMA RefusedAgainIsStep ==
    ASSUME IInv, NEW r \in Runs, RefusedAgain(r)
    PROVE  ChainStep
<1>1. PICK refused \in SUBSET Unsent(r) :
        chain' = [chain EXCEPT ![r].tx =
            [x \in TxIds |-> IF x \in refused THEN "saved" ELSE @[x]]]
    BY DEF RefusedAgain
<1> DEFINE f == [x \in TxIds |-> IF x \in refused THEN "saved" ELSE chain[r].tx[x]]
<1>2. f \in [TxIds -> Tx] BY DEF IInv, TypeInv, ChainRow, Tx
<1>3. chain' = [chain EXCEPT ![r].tx = f] BY <1>1
<1>4. QED BY <1>2, <1>3, ChainTx

LEMMA ForgetIsStep ==
    ASSUME IInv, NEW r \in Runs, ForgetAction(r)
    PROVE  ChainStep /\ ViewStep /\ (Final(view[r]) => Final(view'[r]))
<1> USE DEF Final
<1>1. chain \in [Runs -> ChainRow] /\ view \in [Runs -> ViewRow] BY DEF IInv, TypeInv
<1> DEFINE f == [x \in TxIds |-> IF x \in Actions THEN "none" ELSE chain[r].tx[x]]
<1>2. f \in [TxIds -> Tx] BY <1>1 DEF ChainRow, Tx
<1>3. chain' = [chain EXCEPT ![r].tx = f, ![r].soft = @ \ {"act"}] BY DEF ForgetAction
<1>4. /\ chain' \in [Runs -> ChainRow]
      /\ \A q \in Runs : /\ chain'[q].sess = chain[q].sess
                         /\ chain'[q].soft \subseteq chain[q].soft
                         /\ \A e \in {"open", "end"} :
                                e \in chain[q].soft => e \in chain'[q].soft
    <2> HIDE DEF f
    <2>1. QED BY ZenonT(60), <1>1, <1>2, <1>3 DEF ChainRow
<1>5. ChainStep
    <2>1. ASSUME NEW q \in Runs, OneBlock PROVE chain'[q].soft = {}
        <3>1. chain[q].soft = {} BY <2>1 DEF IInv, ChainInv
        <3>2. QED BY <1>4, <3>1
    <2>2. ASSUME NEW q \in Runs, chain'[q].sess \in Endings, "open" \in chain'[q].soft
          PROVE  "end" \in chain'[q].soft
        BY <1>4, <2>2 DEF IInv, ChainInv
    <2>3. ChainInv' BY <2>1, <2>2 DEF ChainInv
    <2>4. QED BY <1>4, <2>3 DEF ChainStep
<1>6. /\ view' \in [Runs -> ViewRow]
      /\ \A q \in Runs : /\ view'[q].sess = view[q].sess
                         /\ "end" \in view'[q].soft <=> "end" \in view[q].soft
    BY ZenonT(60), <1>1 DEF ForgetAction, ViewRow
<1>7. ViewStep BY <1>6 DEF ViewStep, IInv, ViewInv
<1>8. QED BY <1>5, <1>6, <1>7

LEMMA FinishTurnIsStep ==
    ASSUME IInv, NEW r \in Runs, NEW c \in Terminations, FinishTurn(r, c)
    PROVE  RunsStep /\ ChainStep /\ ViewStep
<1>1. runs \in [Runs -> RunRow] BY DEF IInv, TypeInv
<1>2. RunsStep BY <1>1, RunsFields DEF FinishTurn, Ending, RunRow, Turns
<1>3. QED BY <1>2, ForgetIsStep DEF FinishTurn

-----------------------------------------------------------------------------
(* The threads *)

(* The steps that rest on nothing but the run they are about.              *)
PlainSteps ==
    Steps \ {"off", "hold", "prepare", "finish", "pause_for_reorg", "outcome",
             "send", "end_session"}
Plain(x) == x \in Thread /\ (x.at = "off" \/ (x.at \in PlainSteps /\ x.run \in Runs))

LEMMA PlainThreads ==
    ASSUME IInv, th' \in [Threads -> Thread],
           \A t \in Threads : th'[t] = th[t] \/ Plain(th'[t]) \/ ThreadInv(t)'
    PROVE  ThreadsStep
<1>1. ASSUME NEW t \in Threads, Plain(th'[t]) PROVE ThreadInv(t)'
    BY <1>1 DEF Plain, PlainSteps, ThreadInv
<1>2. QED BY <1>1 DEF ThreadsStep

LEMMA ThreadsUnchanged ==
    ASSUME IInv, UNCHANGED th PROVE ThreadsStep
BY DEF IInv, TypeInv, ThreadsStep

LEMMA TaskIsPlain ==
    ASSUME NEW r \in Runs, NEW s \in PlainSteps
    PROVE  Plain(Task(r, s))
BY DEF Plain, Task, Off, Thread, Givens, Terminations, PlainSteps

LEMMA OneThread ==
    ASSUME IInv, NEW t \in Threads, NEW x \in Thread,
           th' = [th EXCEPT ![t] = x], Plain(x) \/ ThreadInv(t)'
    PROVE  ThreadsStep
<1>1. th \in [Threads -> Thread] BY DEF IInv, TypeInv
<1>2. th' \in [Threads -> Thread] /\ th'[t] = x
      /\ \A u \in Threads \ {t} : th'[u] = th[u]
    BY <1>1
<1>3. QED BY <1>2, PlainThreads

LEMMA GotoIsStep ==
    ASSUME IInv, NEW t \in Threads, NEW s \in PlainSteps, th[t].at # "off", Goto(t, s)
    PROVE  ThreadsStep
<1>1. th[t] \in Thread /\ th[t].run \in Runs BY DEF IInv, TypeInv, ThreadInv
<1> DEFINE x == [th[t] EXCEPT !.at = s]
<1>2. x \in Thread /\ x.at = s /\ x.run = th[t].run BY <1>1 DEF Thread, PlainSteps
<1>3. Plain(x) BY <1>1, <1>2 DEF Plain
<1>4. th' = [th EXCEPT ![t] = x] BY DEF Goto
<1>5. QED BY <1>2, <1>3, <1>4, OneThread

LEMMA ContinueIsStep ==
    ASSUME IInv, NEW t \in Threads, NEW s \in PlainSteps, th[t].at # "off", Continue(t, s)
    PROVE  ThreadsStep
<1>1. R(t) \in Runs BY DEF IInv, ThreadInv, R
<1>2. Plain(Task(R(t), s)) BY <1>1, TaskIsPlain
<1>3. QED BY <1>2, OneThread DEF Continue, Plain

LEMMA LeaveIsStep ==
    ASSUME IInv, NEW t \in Threads, Leave(t) PROVE ThreadsStep
<1>1. Plain(Off) BY DEF Plain, Off, Thread, Steps, Givens, Terminations
<1>2. QED BY <1>1, OneThread DEF Leave, Plain

LEMMA ScheduleIsStep ==
    ASSUME IInv, NEW t \in Threads, th[t].at # "off", ScheduleAndLeave(t)
    PROVE  ThreadsStep /\ pending' \subseteq Procs \X Runs
<1>1. th \in [Threads -> Thread] /\ R(t) \in Runs BY DEF IInv, TypeInv, ThreadInv, R
<1>2. Proc(t) \in Procs BY RunControlAssumption DEF Threads, Proc
<1> DEFINE threads == [th EXCEPT ![t] = Off]
           task == <<Proc(t), R(t)>>
<1>3. Plain(Off) BY DEF Plain, Off, Thread, Steps, Givens, Terminations
<1>4. Plain(Task(R(t), "quiet")) BY <1>1, TaskIsPlain DEF PlainSteps, Steps
<1>5. /\ threads \in [Threads -> Thread]
      /\ \A u \in Threads : threads[u] = th[u] \/ Plain(threads[u])
    BY <1>1, <1>3 DEF Plain
<1>6. th' = IF threads[task].at = "off"
            THEN [threads EXCEPT ![task] = Task(R(t), "quiet")] ELSE threads
    BY DEF ScheduleAndLeave, Scheduled
<1>7. /\ th' \in [Threads -> Thread]
      /\ \A u \in Threads : th'[u] = threads[u] \/ Plain(th'[u])
    <2> HIDE DEF threads, task
    <2>1. QED BY <1>4, <1>5, <1>6 DEF Plain
<1>8. \A u \in Threads : th'[u] = th[u] \/ Plain(th'[u])
    <2> HIDE DEF threads
    <2>1. QED BY <1>5, <1>7
<1>9. pending' \subseteq Procs \X Runs
    BY <1>1, <1>2 DEF ScheduleAndLeave, Scheduled, IInv, TypeInv
<1>10. QED BY <1>7, <1>8, <1>9, PlainThreads

LEMMA ActingIsPlain ==
    ASSUME IInv, NEW r \in Runs, NEW run \in RunRow
    PROVE  Plain(Acting(r, run))
<1>1. Kept(run) \in Givens BY DEF Kept, RunRow, Givens, Terminations
<1> DEFINE s == IF run.term # "none" THEN "terminate"
                ELSE IF run.state = "preparing" THEN "set_up" ELSE "turn"
           x == [Task(r, s) EXCEPT !.given = Kept(run)]
<1>2. s \in PlainSteps BY DEF PlainSteps, Steps
<1>3. Plain(Task(r, s)) BY <1>2, TaskIsPlain
<1>4. Plain(x)
    <2> HIDE DEF s
    <2>1. QED BY <1>1, <1>3 DEF Plain, Thread
<1>5. Plain(Task(r, "quiet")) BY TaskIsPlain DEF PlainSteps, Steps
<1>6. QED BY <1>4, <1>5 DEF Acting

LEMMA SyncedIsStep ==
    ASSUME IInv, NEW t \in Threads, th[t].at # "off", NEW run \in RunRow, Synced(t, run)
    PROVE  ThreadsStep
<1>1. th[t] \in Thread /\ R(t) \in Runs /\ R(t) = th[t].run BY DEF IInv, TypeInv, ThreadInv, R
<1>2. Plain([th[t] EXCEPT !.at = "recover"])
    BY <1>1 DEF Plain, Thread, PlainSteps, Steps
<1>3. Plain(Task(R(t), "resend")) BY <1>1, TaskIsPlain DEF PlainSteps, Steps
<1>4. Plain(Acting(R(t), run)) BY <1>1, ActingIsPlain
<1>5. PICK x : th' = [th EXCEPT ![t] = x] /\ Plain(x)
    BY <1>2, <1>3, <1>4 DEF Synced
<1>6. QED BY <1>5, OneThread DEF Plain

(* What becomes of an exception: the run goes to recovery, or the request  *)
(* answers an error.                                                       *)
LEMMA FailsIsStep ==
    ASSUME IInv, NEW t \in Threads, th[t].at # "off", Fails(t)
    PROVE  RunsStep /\ ThreadsStep
<1>1. R(t) \in Runs BY DEF IInv, ThreadInv, R
<1>2. CASE Recover(R(t)) /\ Idle(t)
    BY <1>1, <1>2, RecoverIsStep, ContinueIsStep DEF Idle, PlainSteps, Steps
<1>3. CASE Leave(t) /\ UNCHANGED runs BY <1>3, LeaveIsStep, RunsUnchanged
<1>4. QED BY <1>2, <1>3 DEF Fails

LEMMA OutageIsStep ==
    ASSUME IInv, NEW t \in Threads, th[t].at # "off", Outage(t)
    PROVE  RunsStep /\ ThreadsStep
<1>1. R(t) \in Runs BY DEF IInv, ThreadInv, R
<1>2. CASE Recover(R(t)) /\ Idle(t)
    BY <1>1, <1>2, RecoverIsStep, ContinueIsStep DEF Idle, PlainSteps, Steps
<1>3. CASE Again(t) /\ UNCHANGED runs
    BY <1>3, ContinueIsStep, RunsUnchanged DEF Again, PlainSteps, Steps
<1>4. CASE Leave(t) /\ (IF runs[R(t)].state = "recovery_required"
                        THEN Move(R(t), "recovery_required") ELSE UNCHANGED runs)
    <2>1. RunsStep
        BY <1>1, <1>4, MoveIsStep, RunsUnchanged DEF Move, States, Active, Causes
    <2>2. QED BY <1>4, <2>1, LeaveIsStep
<1>5. QED BY <1>2, <1>3, <1>4 DEF Outage

LEMMA AgentUnavailableIsStep ==
    ASSUME IInv, NEW t \in Threads, th[t].at # "off", AgentUnavailable(t)
    PROVE  RunsStep /\ ThreadsStep
<1>1. R(t) \in Runs BY DEF IInv, ThreadInv, R
<1>2. CASE Recover(R(t)) /\ Idle(t)
    BY <1>1, <1>2, RecoverIsStep, ContinueIsStep DEF Idle, PlainSteps, Steps
<1>3. CASE Again(t) /\ UNCHANGED runs
    BY <1>3, ContinueIsStep, RunsUnchanged DEF Again, PlainSteps, Steps
<1>4. QED BY <1>2, <1>3 DEF AgentUnavailable

-----------------------------------------------------------------------------
(* The operator's requests *)

LEMMA Still ==
    ASSUME IInv
    PROVE  /\ UNCHANGED runs => RunsStep
           /\ UNCHANGED slot => SlotStep
           /\ UNCHANGED view => ViewStep
           /\ UNCHANGED chain => ChainStep
           /\ UNCHANGED th => ThreadsStep
           /\ UNCHANGED <<lease, up, pending>> => RestStep
BY RunsUnchanged, SlotUnchanged, ViewUnchanged, ChainUnchanged, ThreadsUnchanged
   DEF RestStep, IInv, TypeInv

LEMMA ThreadFacts ==
    ASSUME IInv, NEW t \in Threads, th[t].at # "off"
    PROVE  /\ R(t) \in Runs /\ R(t) = th[t].run /\ Proc(t) \in Procs
           /\ th[t] \in Thread /\ ThreadInv(t)
BY RunControlAssumption DEF IInv, TypeInv, ThreadInv, R, Threads, Proc

LEMMA HoldIsStep ==
    ASSUME IInv, NEW p \in Procs, NEW r \in Runs, Hold(p, r)
    PROVE  lease' \in [Runs -> LeaseRow]
BY DEF IInv, TypeInv, Hold, LeaseRow

LEMMA ReleasedType ==
    ASSUME IInv, NEW p \in Procs, NEW r \in Runs
    PROVE  Released(p, r) \in [Runs -> LeaseRow]
BY DEF IInv, TypeInv, Released, LeaseRow

LEMMA BeginIsStep ==
    ASSUME IInv, NEW t \in Threads, NEW r \in Runs, NEW s \in PlainSteps,
           NEW g \in Givens, Begin(t, r, s, g)
    PROVE  ThreadsStep
<1>1. Plain([Off EXCEPT !.at = s, !.run = r, !.given = g])
    BY DEF Plain, PlainSteps, Thread, Off, Givens, Terminations
<1>2. QED BY <1>1, OneThread DEF Begin, Plain

LEMMA ValidateStep ==
    ASSUME IInv, NEW r \in Runs, Validate(r) PROVE LegalStep
<1>1. RunsStep
    BY MoveIsStep DEF Validate, Move, States, Active, Finished, Causes, Transitions
<1>2. QED BY <1>1, Still DEF Validate, LegalStep

LEMMA StartStep ==
    ASSUME IInv, NEW t \in Threads, NEW r \in Runs, NEW mode \in {"start", "step"},
           Start(t, r, mode)
    PROVE  LegalStep
<1>1. SlotStep BY DEF Start, SlotStep
<1> DEFINE x == [Off EXCEPT !.at = "hold", !.run = r, !.given = mode]
<1>2. x \in Thread /\ x.at = "hold" /\ x.run = r /\ x.given = mode
    BY DEF Off, Thread, Steps, Givens, Causes, Terminations
<1>3. th' = [th EXCEPT ![t] = x] BY DEF Start, Begin
<1>4. ThreadInv(t)'
    <2>1. th'[t] = x BY <1>2, <1>3 DEF IInv, TypeInv
    <2>2. QED BY <1>2, <2>1 DEF ThreadInv, Start
<1>5. ThreadsStep BY <1>2, <1>3, <1>4, OneThread
<1>6. QED BY <1>1, <1>5, Still DEF Start, LegalStep

LEMMA HoldToPrepareStep ==
    ASSUME IInv, NEW t \in Threads, HoldToPrepare(t) PROVE LegalStep
<1>1. th[t].at = "hold" BY DEF HoldToPrepare, At
<1> USE ThreadFacts, <1>1
<1>2. ThreadsStep /\ lease' \in [Runs -> LeaseRow]
    <2>1. CASE Hold(Proc(t), R(t)) /\ Goto(t, "prepare")
        <3> DEFINE x == [th[t] EXCEPT !.at = "prepare"]
        <3>1. /\ x \in Thread /\ x.at = "prepare"
              /\ x.run = th[t].run /\ x.given = th[t].given
            BY DEF Thread, Steps
        <3>2. th' = [th EXCEPT ![t] = x] BY <2>1 DEF Goto
        <3>3. th'[t] = x BY <3>1, <3>2 DEF IInv, TypeInv
        <3>4. ThreadInv(t)' BY <3>1, <3>3 DEF ThreadInv, HoldToPrepare
        <3>5. ThreadsStep BY <3>1, <3>2, <3>4, OneThread
        <3>6. QED BY <2>1, <3>5, HoldIsStep
    <2>2. CASE Leave(t) /\ UNCHANGED lease BY <2>2, LeaveIsStep DEF IInv, TypeInv
    <2>3. QED BY <2>1, <2>2 DEF HoldToPrepare
<1>3. RestStep BY <1>2 DEF HoldToPrepare, RestStep, IInv, TypeInv
<1>4. QED BY <1>2, <1>3, Still DEF HoldToPrepare, LegalStep

LEMMA PrepareStep ==
    ASSUME IInv, NEW t \in Threads, Prepare(t) PROVE LegalStep
<1>1. th[t].at = "prepare" BY DEF Prepare, At
<1> USE ThreadFacts, <1>1
<1>2. CASE /\ runs[R(t)].state = "validated"
           /\ MoveFor(R(t), "preparing", th[t].given) /\ ScheduleAndLeave(t)
    <2>1. th[t].given \in Causes BY DEF ThreadInv, Causes
    <2>2. slot' = R(t) BY <1>2 DEF ThreadInv, Finished, Prepare
    <2>3. RunsStep BY <1>2, <2>1, <2>2, MoveIsStep DEF States, Active, Transitions
    <2>4. ThreadsStep /\ RestStep
        BY <1>2, ScheduleIsStep DEF Prepare, RestStep, IInv, TypeInv
    <2>5. QED BY <2>3, <2>4, Still DEF Prepare, LegalStep
<1>3. CASE Leave(t) /\ UNCHANGED <<runs, pending>>
    BY <1>3, LeaveIsStep, Still DEF Prepare, LegalStep
<1>4. QED BY <1>2, <1>3 DEF Prepare

LEMMA StepStep ==
    ASSUME IInv, NEW t \in Threads, NEW r \in Runs, Step(t, r) PROVE LegalStep
<1>1. ThreadsStep BY BeginIsStep DEF Step, PlainSteps, Steps, Givens, Causes
<1>2. QED BY <1>1, Still DEF Step, LegalStep

LEMMA BeginStepStep ==
    ASSUME IInv, NEW t \in Threads, BeginStep(t) PROVE LegalStep
<1>1. th[t].at = "step" BY DEF BeginStep, At
<1> USE ThreadFacts, <1>1
<1>2. CASE /\ runs[R(t)].state = "paused"
           /\ MoveFor(R(t), "paused", "step") /\ ScheduleAndLeave(t)
    <2>1. RunsStep BY <1>2, MoveIsStep DEF States, Active, Causes
    <2>2. ThreadsStep /\ RestStep
        BY <1>2, ScheduleIsStep DEF BeginStep, RestStep, IInv, TypeInv
    <2>3. QED BY <2>1, <2>2, Still DEF BeginStep, LegalStep
<1>3. CASE Leave(t) /\ UNCHANGED <<runs, pending>>
    BY <1>3, LeaveIsStep, Still DEF BeginStep, LegalStep
<1>4. QED BY <1>2, <1>3 DEF BeginStep

LEMMA PauseStep ==
    ASSUME IInv, NEW r \in Runs, Pause(r) PROVE LegalStep
<1>1. RunsStep BY MoveIsStep DEF Pause, Move, States, Active, Causes, Transitions
<1>2. QED BY <1>1, Still DEF Pause, LegalStep

LEMMA ResumeStep ==
    ASSUME IInv, NEW t \in Threads, NEW r \in Runs, Resume(t, r) PROVE LegalStep
<1>1. Proc(t) \in Procs BY RunControlAssumption DEF Threads, Proc
<1>2. ThreadsStep BY BeginIsStep DEF Resume, PlainSteps, Steps, Givens
<1>3. RestStep BY <1>1, HoldIsStep DEF Resume, RestStep, IInv, TypeInv
<1>4. QED BY <1>2, <1>3, Still DEF Resume, LegalStep

LEMMA ResumedStep ==
    ASSUME IInv, NEW t \in Threads, Resumed(t) PROVE LegalStep
<1>1. th[t].at = "resume" BY DEF Resumed, At
<1> USE ThreadFacts, <1>1
<1>2. CASE runs[R(t)].state = "paused" /\ Move(R(t), "running") /\ ScheduleAndLeave(t)
    <2>1. RunsStep BY <1>2, MoveIsStep DEF Move, States, Active, Causes, Transitions
    <2>2. ThreadsStep /\ RestStep
        BY <1>2, ScheduleIsStep DEF Resumed, RestStep, IInv, TypeInv
    <2>3. QED BY <2>1, <2>2, Still DEF Resumed, LegalStep
<1>3. CASE Leave(t) /\ UNCHANGED <<runs, pending>>
    BY <1>3, LeaveIsStep, Still DEF Resumed, LegalStep
<1>4. QED BY <1>2, <1>3 DEF Resumed

LEMMA RecoveredStep ==
    ASSUME IInv, NEW t \in Threads, Recovered(t) PROVE LegalStep
<1>1. th[t].at = "recover" BY DEF Recovered, At
<1> USE ThreadFacts, <1>1
<1>2. CASE /\ runs[R(t)].state = "recovery_required"
           /\ Move(R(t), IF runs[R(t)].setUp THEN "paused" ELSE "preparing")
           /\ ScheduleAndLeave(t)
    <2>1. RunsStep BY <1>2, MoveIsStep DEF Move, States, Active, Causes, Transitions
    <2>2. ThreadsStep /\ RestStep
        BY <1>2, ScheduleIsStep DEF Recovered, RestStep, IInv, TypeInv
    <2>3. QED BY <2>1, <2>2, Still DEF Recovered, LegalStep
<1>3. CASE Leave(t) /\ UNCHANGED <<runs, pending>>
    BY <1>3, LeaveIsStep, Still DEF Recovered, LegalStep
<1>4. QED BY <1>2, <1>3 DEF Recovered

LEMMA AbortStep ==
    ASSUME IInv, NEW t \in Threads, NEW r \in Runs, Abort(t, r) PROVE LegalStep
<1>1. Proc(t) \in Procs BY RunControlAssumption DEF Threads, Proc
<1>2. ThreadsStep BY BeginIsStep DEF Abort, PlainSteps, Steps, Givens, Terminations
<1>3. RestStep BY <1>1, HoldIsStep DEF Abort, RestStep, IInv, TypeInv
<1>4. QED BY <1>2, <1>3, Still DEF Abort, LegalStep

LEMMA AbortedStep ==
    ASSUME IInv, NEW t \in Threads, Aborted(t) PROVE LegalStep
<1>1. th[t].at = "abort" BY DEF Aborted, At
<1> USE ThreadFacts, <1>1
<1>2. RunsStep BY TerminationIsStep DEF Aborted, Terminations
<1>3. ThreadsStep /\ RestStep
    BY ScheduleIsStep DEF Aborted, RestStep, IInv, TypeInv
<1>4. QED BY <1>2, <1>3, Still DEF Aborted, LegalStep

LEMMA ReconcileStep ==
    ASSUME IInv, NEW t \in Threads, Reconcile(t) PROVE LegalStep
<1>1. th[t].at = "reconcile" BY DEF Reconcile, At
<1> USE ThreadFacts, <1>1
<1>2. RunsStep /\ ChainStep
    BY RecoverIsStep, Still, SentAgainIsStep, RefusedAgainIsStep DEF Reconcile
<1>3. \/ Goto(t, "resume") /\ UNCHANGED pending
      \/ Goto(t, "poll") /\ UNCHANGED pending
      \/ Goto(t, "polled") /\ UNCHANGED pending
      \/ Leave(t) /\ UNCHANGED pending
      \/ ScheduleAndLeave(t)
    BY DEF Reconcile
<1>4. ThreadsStep /\ pending' \subseteq Procs \X Runs
    BY <1>3, GotoIsStep, LeaveIsStep, ScheduleIsStep
       DEF IInv, TypeInv, PlainSteps, Steps
<1>5. RestStep BY <1>4 DEF Reconcile, RestStep, IInv, TypeInv
<1>6. QED BY <1>2, <1>4, <1>5, Still DEF Reconcile, LegalStep

-----------------------------------------------------------------------------
(* Processes *)

LEMMA StartProcessStep ==
    ASSUME IInv, NEW p \in Procs, StartProcess(p) PROVE LegalStep
<1>1. SlotStep BY DEF StartProcess, SlotStep, Stale, IInv, TypeInv
<1>2. ThreadsStep
    <2>1. CASE UNCHANGED th BY <2>1, Still
    <2>2. CASE slot # NoRun /\ th' # th
        <3>1. slot \in Runs BY <2>2 DEF IInv, TypeInv
        <3> DEFINE t == <<p, "boot">>
                   g == IF runs[slot].state \in {"preparing", "running", "paused"}
                        THEN "boot" ELSE "none"
                   x == [Task(slot, "takeover") EXCEPT !.given = g]
        <3>2. Plain(Task(slot, "takeover")) BY <3>1, TaskIsPlain DEF PlainSteps, Steps
        <3>3. g \in Givens BY DEF Givens, Terminations
        <3>4. Plain(x)
            <4> HIDE DEF g
            <4>1. QED BY <3>2, <3>3 DEF Plain, Thread
        <3>5. th' = [th EXCEPT ![t] = x] BY <2>2 DEF StartProcess
        <3>6. t \in Threads BY DEF Threads
        <3>7. QED BY <3>4, <3>5, <3>6, OneThread DEF Plain
    <2>3. QED BY <2>1, <2>2 DEF StartProcess
<1>3. RestStep BY DEF StartProcess, RestStep, IInv, TypeInv
<1>4. QED BY <1>1, <1>2, <1>3, Still DEF StartProcess, LegalStep

LEMMA TakeOverStep ==
    ASSUME IInv, NEW t \in Threads, TakeOver(t) PROVE LegalStep
<1>1. th[t].at = "takeover" BY DEF TakeOver, At
<1> USE ThreadFacts, <1>1
<1>2. ThreadsStep /\ pending' \subseteq Procs \X Runs
    BY GotoIsStep, ScheduleIsStep DEF TakeOver, PlainSteps, Steps, IInv, TypeInv
<1>3. RestStep BY <1>2, HoldIsStep DEF TakeOver, RestStep, IInv, TypeInv
<1>4. QED BY <1>2, <1>3, Still DEF TakeOver, LegalStep

LEMMA EndsIsStep ==
    ASSUME IInv, NEW p \in Procs, Ends(p)
    PROVE  ThreadsStep /\ up' \subseteq Procs /\ pending' \subseteq Procs \X Runs
<1>1. Plain(Off) BY DEF Plain, Off, Thread, Steps, Givens, Terminations
<1>2. /\ th' \in [Threads -> Thread]
      /\ \A t \in Threads : th'[t] = th[t] \/ Plain(th'[t])
    BY <1>1 DEF Ends, IInv, TypeInv, Plain
<1>3. QED BY <1>2, PlainThreads DEF Ends, IInv, TypeInv

LEMMA CrashStep ==
    ASSUME IInv, NEW p \in Procs, Crash(p) PROVE LegalStep
BY EndsIsStep, Still DEF Crash, RestStep, LegalStep, IInv, TypeInv

LEMMA CloseStep ==
    ASSUME IInv, NEW p \in Procs, Close(p) PROVE LegalStep
<1>1. lease' \in [Runs -> LeaseRow]
    <2>1. CASE slot = NoRun BY <2>1 DEF Close, IInv, TypeInv
    <2>2. CASE slot # NoRun
        <3>1. slot \in Runs BY <2>2 DEF IInv, TypeInv
        <3>2. QED BY <2>2, <3>1, ReleasedType DEF Close
    <2>3. QED BY <2>1, <2>2
<1>2. QED BY <1>1, EndsIsStep, Still DEF Close, RestStep, LegalStep

LEMMA LeaseExpiresStep ==
    ASSUME IInv, NEW r \in Runs, LeaseExpires(r) PROVE LegalStep
<1>1. lease' \in [Runs -> LeaseRow] BY DEF LeaseExpires, IInv, TypeInv, LeaseRow
<1>2. RestStep BY <1>1 DEF LeaseExpires, RestStep, IInv, TypeInv
<1>3. QED BY <1>2, Still DEF LeaseExpires, LegalStep

LEMMA HeartbeatStep ==
    ASSUME IInv, NEW p \in Procs, NEW r \in Runs, Heartbeat(p, r) PROVE LegalStep
<1>1. RestStep BY HoldIsStep DEF Heartbeat, RestStep, IInv, TypeInv
<1>2. QED BY <1>1, Still DEF Heartbeat, LegalStep

-----------------------------------------------------------------------------
(* The driver *)

(* A step of thread t that may go on, or come to rest.                     *)
LEMMA AgainIsStep ==
    ASSUME IInv, NEW t \in Threads, th[t].at # "off",
           Again(t) \/ Idle(t) \/ Leave(t)
    PROVE  ThreadsStep
BY ContinueIsStep, LeaveIsStep DEF Again, Idle, PlainSteps, Steps

LEMMA RecoverOfTask ==
    ASSUME IInv, NEW t \in Threads, th[t].at # "off", Recover(R(t))
    PROVE  RunsStep
BY ThreadFacts, RecoverIsStep

LEMMA MoveOfTask ==
    ASSUME IInv, NEW t \in Threads, th[t].at # "off", NEW s \in States,
           Move(R(t), s),
           runs[R(t)].state = s \/ <<runs[R(t)].state, s>> \in Transitions,
           s \in Active => runs[R(t)].state \in Active
    PROVE  RunsStep
BY ThreadFacts, MoveIsStep DEF Move, Causes

(* A thread about to finish has moved its run to a finished state.         *)
LEMMA ToFinish ==
    ASSUME IInv, NEW t \in Threads, th[t].at # "off",
           NEW x \in Thread, x.at = "finish", x.run = R(t),
           th' = [th EXCEPT ![t] = x], runs'[R(t)].state \in Finished
    PROVE  ThreadsStep
<1>1. th'[t] = x BY DEF IInv, TypeInv
<1>2. ThreadInv(t)' BY <1>1, ThreadFacts DEF ThreadInv
<1>3. QED BY <1>2, OneThread

LEMMA GotoFinish ==
    ASSUME IInv, NEW t \in Threads, th[t].at # "off", Goto(t, "finish"),
           Move(R(t), "failed_setup")
    PROVE  ThreadsStep
<1> USE ThreadFacts
<1>1. runs'[R(t)].state = "failed_setup"
    BY DEF Move, MoveFor, Moved, IInv, TypeInv, RunRow
<1> DEFINE x == [th[t] EXCEPT !.at = "finish"]
<1>2. x \in Thread /\ x.at = "finish" /\ x.run = R(t) BY DEF Thread, Steps
<1>3. th' = [th EXCEPT ![t] = x] BY DEF Goto
<1>4. QED BY <1>1, <1>2, <1>3, ToFinish DEF Finished

LEMMA QuietStep ==
    ASSUME IInv, NEW t \in Threads, Quiet(t) PROVE LegalStep
<1>1. th[t].at = "quiet" BY DEF Quiet, At
<1>2. ThreadsStep BY <1>1, AgainIsStep DEF Quiet
<1>3. RestStep BY DEF Quiet, RestStep, IInv, TypeInv
<1>4. QED BY <1>2, <1>3, Still DEF Quiet, LegalStep

LEMMA TickStep ==
    ASSUME IInv, NEW t \in Threads, Tick(t) PROVE LegalStep
<1>1. th[t].at = "tick" BY DEF Tick, At
<1> USE ThreadFacts, <1>1
<1>2. ThreadsStep BY ContinueIsStep, AgainIsStep DEF Tick, PlainSteps, Steps
<1>3. RestStep BY HoldIsStep DEF Tick, RestStep, IInv, TypeInv
<1>4. QED BY <1>2, <1>3, Still DEF Tick, LegalStep

LEMMA EndWithoutSessionStep ==
    ASSUME IInv, NEW t \in Threads, EndWithoutSession(t) PROVE LegalStep
<1>1. th[t].at = "end" BY DEF EndWithoutSession, At
<1> USE <1>1
<1>2. RunsStep /\ ThreadsStep
    <2>1. CASE /\ runs[R(t)].state \in {"preparing", "recovery_required"}
               /\ Move(R(t), "failed_setup") /\ Goto(t, "finish")
        BY <2>1, MoveOfTask, GotoFinish DEF States, Active, Finished, Transitions
    <2>2. CASE Idle(t) /\ UNCHANGED runs BY <2>2, AgainIsStep, Still
    <2>3. QED BY <2>1, <2>2 DEF EndWithoutSession
<1>3. QED BY <1>2, Still DEF EndWithoutSession, LegalStep

LEMMA FinishStep ==
    ASSUME IInv, NEW t \in Threads, Finish(t) PROVE LegalStep
<1>1. th[t].at = "finish" BY DEF Finish, At
<1> USE ThreadFacts, <1>1
<1>2. SlotStep BY DEF Finish, SlotStep, ThreadInv, IInv, TypeInv
<1>3. ThreadsStep BY SyncedIsStep, AgainIsStep DEF Finish, IInv, TypeInv
<1>4. RestStep BY ReleasedType DEF Finish, RestStep, IInv, TypeInv
<1>5. QED BY <1>2, <1>3, <1>4, Still DEF Finish, LegalStep

LEMMA PolledIsStep ==
    ASSUME IInv, NEW r \in Runs, Polled(r)
    PROVE  RunsStep /\ ViewStep /\ ChainStep
<1>1. /\ runs \in [Runs -> RunRow] /\ chain \in [Runs -> ChainRow]
      /\ view \in [Runs -> ViewRow]
    BY DEF IInv, TypeInv
<1>2. CASE UNCHANGED <<runs, view, chain>> BY <1>2, Still
<1>3. CASE Watched(r)
    <2> DEFINE failed == {x \in TxIds : chain[r].tx[x] = "failed"}
               acted == \E p \in Procs : chain[r].tx[<<"action", p>>] = "ok"
               v == [sess |-> chain[r].sess, soft |-> chain[r].soft,
                     failed |-> failed, acted |-> acted]
               reorg == runs[r].reorg \/ chain[r].forked
    <2>1. view' = [view EXCEPT ![r] = v] BY <1>3 DEF Polled
    <2>2. acted \in BOOLEAN /\ failed \subseteq TxIds /\ reorg \in BOOLEAN OBVIOUS
    <2>3. v \in ViewRow /\ v.sess = chain[r].sess /\ v.soft = chain[r].soft
        <3> HIDE DEF failed, acted
        <3>1. QED BY <1>1, <2>2 DEF ViewRow, ChainRow
    <2>4. /\ view' \in [Runs -> ViewRow] /\ view'[r] = v
          /\ \A q \in Runs \ {r} : view'[q] = view[q]
        <3> HIDE DEF v
        <3>1. QED BY <1>1, <2>1, <2>3
    <2>5. ViewStep
        <3> HIDE DEF v
        <3>1. \A q \in Runs : Final(view[q]) => Final(chain[q]) /\ chain[q].sess = view[q].sess
            BY DEF IInv, ViewInv
        <3>2. ASSUME NEW q \in Runs
              PROVE  /\ Final(view[q]) => Final(view'[q])
                     /\ Final(view'[q]) => Final(chain[q]) /\ chain[q].sess = view'[q].sess
            BY <2>3, <2>4, <3>1 DEF Final
        <3>3. QED BY <2>4, <3>2 DEF ViewStep
    <2>6. RunsStep
        <3>1. runs' = [runs EXCEPT ![r].reorg = reorg] BY <1>3 DEF Polled
        <3> HIDE DEF reorg
        <3>2. QED BY <1>1, <2>2, <3>1, RunsFields DEF RunRow
    <2>7. ChainStep
        <3>1. /\ chain' \in [Runs -> ChainRow]
              /\ \A q \in Runs : /\ chain'[q].sess = chain[q].sess
                                 /\ chain'[q].soft = chain[q].soft
            <4>1. chain' = [chain EXCEPT ![r].forked = FALSE] BY <1>3 DEF Polled
            <4>2. QED BY ZenonT(60), <1>1, <4>1 DEF ChainRow
        <3>2. QED BY <3>1 DEF ChainStep, ChainInv, IInv, Final
    <2>8. QED BY <2>5, <2>6, <2>7
<1>4. QED BY <1>2, <1>3 DEF Polled

LEMMA RecoveringType ==
    ASSUME NEW run \in RunRow PROVE Recovering(run) \in RunRow
BY DEF Recovering, Moved, RunRow, States, Active, Causes

LEMMA PollStep ==
    ASSUME IInv, NEW t \in Threads, Poll(t) PROVE LegalStep
<1>1. th[t].at = "poll" BY DEF Poll, At
<1> USE ThreadFacts, <1>1
<1>2. RunsStep /\ ViewStep /\ ChainStep /\ ThreadsStep
    <2>1. CASE Polled(R(t)) /\ Goto(t, "polled")
        BY <2>1, PolledIsStep, GotoIsStep DEF PlainSteps, Steps
    <2>2. CASE Outage(t) /\ UNCHANGED <<view, chain>>
        BY <2>2, OutageIsStep, Still
    <2>3. CASE /\ Recover(R(t)) /\ Synced(t, Recovering(runs[R(t)]))
               /\ UNCHANGED <<view, chain>>
        <3>1. Recovering(runs[R(t)]) \in RunRow BY RecoveringType DEF IInv, TypeInv
        <3>2. QED BY <2>3, <3>1, RecoverIsStep, SyncedIsStep, Still
    <2>4. QED BY <2>1, <2>2, <2>3 DEF Poll
<1>3. QED BY <1>2, Still DEF Poll, LegalStep

LEMMA ReportStep ==
    ASSUME IInv, NEW t \in Threads, Report(t) PROVE LegalStep
<1>1. th[t].at = "polled" BY DEF Report, At
<1> USE ThreadFacts, <1>1
<1> DEFINE r == R(t)
<1>2. runs \in [Runs -> RunRow] /\ th \in [Threads -> Thread] BY DEF IInv, TypeInv
<1>3. RunsStep /\ ViewStep /\ ChainStep /\ ThreadsStep
    <2>1. CASE /\ ReorgDue(r)
               /\ th' = [th EXCEPT ![t].at = "pause_for_reorg", ![t].given = runs[r].state]
               /\ UNCHANGED <<runs, view, chain>>
        <3> DEFINE x == [th[t] EXCEPT !.at = "pause_for_reorg", !.given = runs[r].state]
        <3>1. /\ x \in Thread /\ x.at = "pause_for_reorg" /\ x.run = th[t].run
              /\ x.given = runs[r].state
            BY ZenonT(60), <1>2 DEF Thread, RunRow, Steps, Givens
        <3>2. th' = [th EXCEPT ![t] = x] BY <2>1
        <3>3. th'[t] = x BY <1>2, <3>1, <3>2
        <3>4. ThreadInv(t)' BY <2>1, <3>1, <3>3 DEF ThreadInv, ReorgDue
        <3>5. QED BY <2>1, <3>1, <3>2, <3>4, OneThread, Still
    <2>2. CASE /\ Recordable(r)
               /\ runs' = [runs EXCEPT ![r].turn = "none"] /\ ForgetAction(r)
               /\ th' = [th EXCEPT ![t].at = "outcome", ![t].given = TerminalTarget(r)]
        <3>1. RunsStep BY <1>2, <2>2, RunsFields DEF RunRow, Turns
        <3>2. ViewStep /\ ChainStep /\ (Final(view[r]) => Final(view'[r]))
            BY <2>2, ForgetIsStep
        <3>3. Final(view[r])
            BY <2>2 DEF Recordable, TerminalDue, EndConfirmed, EndSeen, Final
        <3>4. TerminalTarget(r) \in Finished BY DEF TerminalTarget, Finished
        <3>5. TerminalTarget(r) \in Givens BY <3>4 DEF Givens, States
        <3> DEFINE x == [th[t] EXCEPT !.at = "outcome", !.given = TerminalTarget(r)]
        <3>6. /\ x \in Thread /\ x.at = "outcome" /\ x.run = r
              /\ x.given = TerminalTarget(r)
            BY ZenonT(60), <3>5 DEF Thread, Steps
        <3>7. th' = [th EXCEPT ![t] = x] BY <2>2
        <3>8. th'[t] = x BY <1>2, <3>6, <3>7
        <3>9. ThreadInv(t)' BY <3>2, <3>3, <3>4, <3>6, <3>8 DEF ThreadInv, Final
        <3>10. QED BY <3>1, <3>2, <3>6, <3>7, <3>9, OneThread
    <2>3. CASE UNCHANGED <<runs, view, chain>> /\ Synced(t, runs[r])
        BY <1>2, <2>3, SyncedIsStep, Still
    <2>4. CASE /\ Recover(r) /\ UNCHANGED <<view, chain>>
               /\ Synced(t, Recovering(runs[r]))
        <3>1. Recovering(runs[r]) \in RunRow BY <1>2, RecoveringType
        <3>2. QED BY <2>4, <3>1, RecoverIsStep, SyncedIsStep, Still
    <2>5. QED BY <2>1, <2>2, <2>3, <2>4 DEF Report
<1>4. QED BY <1>3, Still DEF Report, LegalStep

LEMMA PauseForReorgStep ==
    ASSUME IInv, NEW t \in Threads, PauseForReorg(t) PROVE LegalStep
<1>1. th[t].at = "pause_for_reorg" BY DEF PauseForReorg, At
<1> USE ThreadFacts, <1>1
<1> DEFINE r == R(t)
           target == IF th[t].given = "preparing" THEN "preparing" ELSE "paused"
<1>2. RunsStep /\ ThreadsStep
    <2>1. CASE /\ runs[r].state = th[t].given
               /\ runs' = [runs EXCEPT ![r] =
                    [Moved(@, target, "other") EXCEPT !.reorg = FALSE]]
               /\ th' = [th EXCEPT ![t] = [Task(r, "reconcile") EXCEPT !.given = "reorg"]]
        <3>1. runs \in [Runs -> RunRow] BY DEF IInv, TypeInv
        <3>2. runs[r].state \in {"preparing", "running", "paused"}
            BY <2>1 DEF ThreadInv
        <3>3. /\ target \in {"preparing", "paused"}
              /\ target = runs[r].state \/ <<runs[r].state, target>> \in Transitions
            BY <2>1, <3>2 DEF Transitions
        <3>4. /\ runs' \in [Runs -> RunRow] /\ runs'[r].state = target
              /\ runs'[r].outcome = runs[r].outcome /\ runs'[r].turn = runs[r].turn
              /\ \A q \in Runs \ {r} : runs'[q] = runs[q]
            <4> HIDE DEF target
            <4>1. QED BY <2>1, <3>1, <3>3, ZenonT(60)
                     DEF Moved, RunRow, States, Active, Causes
        <3>5. RunsStep
            <4> HIDE DEF target
            <4>1. QED BY <3>2, <3>3, <3>4 DEF RunsStep, Active, Unsigned
        <3>6. Plain(Task(r, "reconcile")) BY TaskIsPlain DEF PlainSteps, Steps
        <3>7. Plain([Task(r, "reconcile") EXCEPT !.given = "reorg"])
            BY <3>6 DEF Plain, Thread, Givens
        <3>8. QED BY <2>1, <3>5, <3>7, OneThread DEF Plain
    <2>2. CASE Fails(t) BY <2>2, FailsIsStep
    <2>3. QED BY <2>1, <2>2 DEF PauseForReorg
<1>3. QED
    <2>1. UNCHANGED <<slot, lease, view, chain, up, pending>> BY DEF PauseForReorg
    <2>2. QED BY <1>2, <2>1, Still DEF LegalStep

LEMMA RecordTerminalStep ==
    ASSUME IInv, NEW t \in Threads, RecordTerminal(t) PROVE LegalStep
<1>1. th[t].at = "outcome" BY DEF RecordTerminal, At
<1> USE ThreadFacts, <1>1
<1> DEFINE r == R(t) target == th[t].given
<1>2. runs \in [Runs -> RunRow] /\ th \in [Threads -> Thread] BY DEF IInv, TypeInv
<1>3. RunsStep /\ ThreadsStep
    <2>1. CASE Synced(t, runs[r]) /\ UNCHANGED runs BY <1>2, <2>1, SyncedIsStep, Still
    <2>2. CASE /\ Allowed(runs[r].state, target)
               /\ runs' = [runs EXCEPT ![r] =
                    [Moved(@, target, "other") EXCEPT !.outcome = view[r].sess]]
               /\ th' = [th EXCEPT ![t].at = "finish", ![t].given = "recorded"]
        <3>1. target \in Finished /\ Final(view[r]) BY DEF ThreadInv
        <3>2. Final(chain[r]) /\ chain[r].sess = view[r].sess
            BY <3>1 DEF IInv, ViewInv
        <3>3. runs[r].state \notin Finished BY <2>2, FinishedStays DEF Allowed
        <3>4. /\ runs' \in [Runs -> RunRow] /\ runs'[r].state = target
              /\ runs'[r].outcome = view[r].sess /\ runs'[r].turn = runs[r].turn
              /\ \A q \in Runs \ {r} : runs'[q] = runs[q]
            BY <1>2, <2>2, <3>1, ZenonT(60)
               DEF Moved, RunRow, States, Causes, Outcomes, Final
        <3>5. target \notin Active BY <3>1 DEF Active, Finished
        <3>6. RunsStep
            BY <2>2, <3>1, <3>2, <3>3, <3>4, <3>5 DEF RunsStep, Allowed, Unsigned
        <3> DEFINE x == [th[t] EXCEPT !.at = "finish", !.given = "recorded"]
        <3>7. x \in Thread /\ x.at = "finish" /\ x.run = r BY ZenonT(60) DEF Thread, Steps, Givens
        <3>8. th' = [th EXCEPT ![t] = x] BY <2>2
        <3>9. QED BY <3>1, <3>4, <3>6, <3>7, <3>8, ToFinish
    <2>3. CASE Fails(t) BY <2>3, FailsIsStep
    <2>4. QED BY <2>1, <2>2, <2>3 DEF RecordTerminal
<1>4. QED
    <2>1. UNCHANGED <<slot, lease, view, chain, up, pending>> BY DEF RecordTerminal
    <2>2. QED BY <1>3, <2>1, Still DEF LegalStep

LEMMA ResendRefusedStep ==
    ASSUME IInv, NEW t \in Threads, ResendRefused(t) PROVE LegalStep
<1>1. th[t].at = "resend" BY DEF ResendRefused, At
<1> USE ThreadFacts, <1>1
<1> DEFINE r == R(t)
<1>2. RunsStep /\ ChainStep /\ ThreadsStep
    <2>1. CASE /\ chain' = SentAgain(r) /\ UNCHANGED runs
               /\ th' = [th EXCEPT ![t] = Acting(r, runs[r])]
        <3>1. Plain(Acting(r, runs[r])) BY ActingIsPlain DEF IInv, TypeInv
        <3>2. ThreadsStep BY <2>1, <3>1, OneThread DEF Plain
        <3>3. QED BY <2>1, <3>2, SentAgainIsStep, Still
    <2>2. CASE Recover(r) /\ Idle(t) /\ RefusedAgain(r)
        BY <2>2, RecoverIsStep, AgainIsStep, RefusedAgainIsStep
    <2>3. CASE Outage(t) /\ UNCHANGED chain BY <2>3, OutageIsStep, Still
    <2>4. QED BY <2>1, <2>2, <2>3 DEF ResendRefused
<1>3. QED BY <1>2, Still DEF ResendRefused, LegalStep

LEMMA PersistIsStep ==
    ASSUME IInv, NEW t \in Threads, th[t].at # "off", NEW kind \in TxKinds,
           Persist(t, kind)
    PROVE  RunsStep /\ ChainStep /\ ThreadsStep
<1> USE ThreadFacts
<1> DEFINE r == R(t) x == <<kind, Proc(t)>>
<1>1. CASE /\ chain' = [chain EXCEPT ![r].tx[x] = "new"]
           /\ th' = [th EXCEPT ![t] = [Task(r, "send") EXCEPT !.tx = x]]
           /\ UNCHANGED runs
    <2>1. x \in TxIds BY DEF TxIds
    <2>2. ChainStep BY <1>1, <2>1, ChainTxOne DEF Tx
    <2> DEFINE y == [Task(r, "send") EXCEPT !.tx = x]
    <2>3. y \in Thread /\ y.at = "send" /\ y.run = r /\ y.tx = x
        BY <2>1 DEF Task, Off, Thread, Steps, Givens, Terminations
    <2>4. th'[t] = y BY <1>1, <2>3 DEF IInv, TypeInv
    <2>5. ThreadInv(t)' BY <2>1, <2>3, <2>4 DEF ThreadInv
    <2>6. QED BY <1>1, <2>2, <2>3, <2>5, OneThread, Still
<1>2. CASE Fails(t) /\ UNCHANGED chain BY <1>2, FailsIsStep, Still
<1>3. QED BY <1>1, <1>2 DEF Persist

LEMMA SendStep ==
    ASSUME IInv, NEW t \in Threads, Send(t) PROVE LegalStep
<1>1. th[t].at = "send" BY DEF Send, At
<1> USE ThreadFacts, <1>1
<1> DEFINE r == R(t) x == th[t].tx
<1>2. x \in TxIds BY DEF ThreadInv
<1>3. ChainStep
    <2>1. chain[r].tx[x] \in Tx BY <1>2 DEF IInv, TypeInv, ChainRow
    <2> DEFINE v == IF chain[r].tx[x] \in {"new", "saved"} THEN "pool" ELSE chain[r].tx[x]
    <2>2. v \in Tx BY <2>1 DEF Tx
    <2>3. \/ chain' = [chain EXCEPT ![r].tx[x] = v]
          \/ chain' = [chain EXCEPT ![r].tx[x] = "saved"]
        BY DEF Send
    <2>4. CASE chain' = [chain EXCEPT ![r].tx[x] = v]
        <3> HIDE DEF v
        <3>1. QED BY <1>2, <2>2, <2>4, ChainTxOne
    <2>5. CASE chain' = [chain EXCEPT ![r].tx[x] = "saved"]
        BY <1>2, <2>5, ChainTxOne DEF Tx
    <2>6. QED BY <2>3, <2>4, <2>5
<1>4. RunsStep
    <2>1. CASE UNCHANGED runs BY <2>1, Still
    <2>2. CASE runs' = [runs EXCEPT ![r].turn = "sent"]
        BY <2>2, RunsFields DEF IInv, TypeInv, RunRow, Turns
    <2>3. QED BY <2>1, <2>2 DEF Send
<1>5. ThreadsStep BY AgainIsStep DEF Send
<1>6. QED BY <1>3, <1>4, <1>5, Still DEF Send, LegalStep

LEMMA EndByIsStep ==
    ASSUME IInv, NEW t \in Threads, th[t].at # "off", NEW kind \in {"abort", "expire"},
           EndBy(t, kind)
    PROVE  ThreadsStep
<1> USE ThreadFacts
<1> DEFINE x == [Task(R(t), "end_session") EXCEPT !.given = kind]
<1>1. x \in Thread /\ x.at = "end_session" /\ x.run = R(t) /\ x.given = kind
    BY DEF Task, Off, Thread, Steps, Givens, Terminations
<1>2. th' = [th EXCEPT ![t] = x] BY DEF EndBy
<1>3. th'[t] = x BY <1>1, <1>2 DEF IInv, TypeInv
<1>4. ThreadInv(t)' BY <1>1, <1>3 DEF ThreadInv
<1>5. QED BY <1>1, <1>2, <1>4, OneThread

LEMMA TerminateStep ==
    ASSUME IInv, NEW t \in Threads, Terminate(t) PROVE LegalStep
<1>1. th[t].at = "terminate" BY DEF Terminate, At
<1> USE <1>1
<1>2. RunsStep /\ ThreadsStep
    BY RecoverOfTask, AgainIsStep, EndByIsStep, Still DEF Terminate
<1>3. QED BY <1>2, Still DEF Terminate, LegalStep

LEMMA EndSessionStep ==
    ASSUME IInv, NEW t \in Threads, EndSession(t) PROVE LegalStep
<1>1. th[t].at = "end_session" BY DEF EndSession, At
<1>2. th[t].given \in TxKinds BY <1>1, ThreadFacts DEF ThreadInv, TxKinds
<1>3. RunsStep /\ ChainStep /\ ThreadsStep BY <1>1, <1>2, PersistIsStep DEF EndSession
<1>4. QED BY <1>3, Still DEF EndSession, LegalStep

-----------------------------------------------------------------------------
(* Set-up *)

LEMMA FundStep ==
    ASSUME IInv, NEW t \in Threads, Fund(t) PROVE LegalStep
<1>1. th[t].at = "set_up" BY DEF Fund, At
<1> USE ThreadFacts, <1>1
<1> DEFINE r == R(t)
<1>2. RunsStep /\ ThreadsStep
    <2>1. CASE runs' = [runs EXCEPT ![r].funded = TRUE] /\ Again(t)
        <3> DEFINE row == [runs[r] EXCEPT !.funded = TRUE]
        <3>1. runs[r] \in RunRow BY RunsTyped
        <3>2. /\ row \in RunRow /\ row.state = runs[r].state
              /\ row.outcome = runs[r].outcome /\ row.turn = runs[r].turn
            BY <3>1 DEF RunRow
        <3>3. runs' = [runs EXCEPT ![r] = row] BY <2>1
        <3> HIDE DEF row
        <3>4. RunsStep BY <3>2, <3>3, RunMarked
        <3>5. QED BY <2>1, <3>4, AgainIsStep
    <2>2. CASE Continue(t, "setup_failed") /\ UNCHANGED runs
        BY <2>2, ContinueIsStep, Still DEF PlainSteps, Steps
    <2>3. CASE Recover(r) /\ Idle(t) BY <2>3, RecoverIsStep, AgainIsStep
    <2>4. CASE AgentUnavailable(t) BY <2>4, AgentUnavailableIsStep
    <2>5. QED BY <2>1, <2>2, <2>3, <2>4 DEF Fund
<1>3. QED BY <1>2, Still DEF Fund, LegalStep

LEMMA OpenSessionStep ==
    ASSUME IInv, NEW t \in Threads, OpenSession(t) PROVE LegalStep
<1>1. th[t].at = "set_up" BY DEF OpenSession, At
<1> USE ThreadFacts, <1>1
<1> DEFINE r == R(t)
           row == [runs[r] EXCEPT !.session = TRUE]
<1>2. RunsStep
    <2>1. runs[r] \in RunRow BY RunsTyped
    <2>2. /\ row \in RunRow /\ row.state = runs[r].state
          /\ row.outcome = runs[r].outcome /\ row.turn = runs[r].turn
        BY <2>1 DEF RunRow
    <2>3. runs' = [runs EXCEPT ![r] = row] BY DEF OpenSession
    <2> HIDE DEF row
    <2>4. QED BY <2>2, <2>3, RunMarked
<1>3. ThreadsStep BY ContinueIsStep DEF OpenSession, PlainSteps, Steps
<1>4. QED BY <1>2, <1>3, Still DEF OpenSession, LegalStep

LEMMA CreateSessionStep ==
    ASSUME IInv, NEW t \in Threads, CreateSession(t) PROVE LegalStep
<1>1. th[t].at = "create" BY DEF CreateSession, At
<1>2. RunsStep /\ ChainStep /\ ThreadsStep
    BY <1>1, PersistIsStep DEF CreateSession, TxKinds
<1>3. QED BY <1>2, Still DEF CreateSession, LegalStep

LEMMA AwaitSessionStep ==
    ASSUME IInv, NEW t \in Threads, AwaitSession(t) PROVE LegalStep
<1>1. th[t].at = "set_up" BY DEF AwaitSession, At
<1> USE ThreadFacts, <1>1
<1> DEFINE r == R(t)
<1>2. RunsStep /\ ThreadsStep
    <2>1. CASE Continue(t, "setup_failed") /\ UNCHANGED runs
        BY <2>1, ContinueIsStep, Still DEF PlainSteps, Steps
    <2>2. CASE Again(t) /\ UNCHANGED runs BY <2>2, AgainIsStep, Still
    <2>3. CASE runs' = [runs EXCEPT ![r].setUp = TRUE] /\ Goto(t, "set_up_done")
        <3> DEFINE row == [runs[r] EXCEPT !.setUp = TRUE]
        <3>1. runs[r] \in RunRow BY RunsTyped
        <3>2. /\ row \in RunRow /\ row.state = runs[r].state
              /\ row.outcome = runs[r].outcome /\ row.turn = runs[r].turn
            BY <3>1 DEF RunRow
        <3>3. runs' = [runs EXCEPT ![r] = row] BY <2>3
        <3> HIDE DEF row
        <3>4. RunsStep BY <3>2, <3>3, RunMarked
        <3>5. QED BY <2>3, <3>4, GotoIsStep DEF PlainSteps, Steps
    <2>4. CASE RequestTermination(r, "abort") /\ Again(t)
        BY <2>4, TerminationIsStep, AgainIsStep DEF Terminations
    <2>5. CASE Recover(r) /\ Idle(t) BY <2>5, RecoverIsStep, AgainIsStep
    <2>6. CASE AgentUnavailable(t) BY <2>6, AgentUnavailableIsStep
    <2>7. QED BY <2>1, <2>2, <2>3, <2>4, <2>5, <2>6 DEF AwaitSession
<1>3. QED BY <1>2, Still DEF AwaitSession, LegalStep

LEMMA SetupDoneStep ==
    ASSUME IInv, NEW t \in Threads, SetupDone(t) PROVE LegalStep
<1>1. th[t].at = "set_up_done" BY DEF SetupDone, At
<1> USE ThreadFacts, <1>1
<1> DEFINE r == R(t) cause == IF th[t].given = "step" THEN "step" ELSE "other"
<1>2. RunsStep /\ ThreadsStep
    <2>1. CASE runs[r].state = "preparing" /\ Again(t) /\ Move(r, "running")
        BY <2>1, MoveOfTask, AgainIsStep DEF States, Active, Transitions
    <2>2. CASE runs[r].state = "preparing" /\ Again(t) /\ MoveFor(r, "paused", cause)
        <3>1. cause \in Causes BY DEF Causes
        <3> HIDE DEF cause
        <3>2. QED BY <2>2, <3>1, MoveIsStep, AgainIsStep DEF States, Active, Transitions
    <2>3. CASE Fails(t) BY <2>3, FailsIsStep
    <2>4. QED BY <2>1, <2>2, <2>3 DEF SetupDone
<1>3. QED BY <1>2, Still DEF SetupDone, LegalStep

LEMMA SetupFailedStep ==
    ASSUME IInv, NEW t \in Threads, SetupFailed(t) PROVE LegalStep
<1>1. th[t].at = "setup_failed" BY DEF SetupFailed, At
<1> USE <1>1
<1>2. RunsStep /\ ThreadsStep
    <2>1. CASE /\ runs[R(t)].state = "preparing"
               /\ Move(R(t), "failed_setup") /\ Goto(t, "finish")
        BY <2>1, MoveOfTask, GotoFinish DEF States, Active, Finished, Transitions
    <2>2. CASE Fails(t) BY <2>2, FailsIsStep
    <2>3. QED BY <2>1, <2>2 DEF SetupFailed
<1>3. QED BY <1>2, Still DEF SetupFailed, LegalStep

-----------------------------------------------------------------------------
(* Turns *)

LEMMA BeginTurnStep ==
    ASSUME IInv, NEW t \in Threads, BeginTurn(t) PROVE LegalStep
<1>1. th[t].at = "turn" BY DEF BeginTurn, At
<1> USE ThreadFacts, <1>1
<1> DEFINE r == R(t)
<1>2. RunsStep /\ ThreadsStep
    <2>1. CASE RequestTermination(r, "deadline") /\ Again(t)
        BY <2>1, TerminationIsStep, AgainIsStep DEF Terminations
    <2>2. CASE Again(t) /\ UNCHANGED runs BY <2>2, AgainIsStep, Still
    <2>3. CASE runs' = [runs EXCEPT ![r].turn = "deciding"] /\ Continue(t, "ask")
        BY <2>3, RunsFields, ContinueIsStep
           DEF IInv, TypeInv, RunRow, Turns, PlainSteps, Steps
    <2>4. CASE Recover(r) /\ Idle(t) BY <2>4, RecoverIsStep, AgainIsStep
    <2>5. QED BY <2>1, <2>2, <2>3, <2>4 DEF BeginTurn
<1>3. QED BY <1>2, Still DEF BeginTurn, LegalStep

LEMMA AskAgainStep ==
    ASSUME IInv, NEW t \in Threads, AskAgain(t) PROVE LegalStep
<1>1. th[t].at = "turn" BY DEF AskAgain, At
<1> USE ThreadFacts, <1>1
<1>2. CASE FinishTurn(R(t), "none") /\ Again(t)
    BY <1>2, FinishTurnIsStep, AgainIsStep, Still DEF AskAgain, LegalStep, Terminations
<1>3. CASE Continue(t, "ask") /\ UNCHANGED <<runs, chain, view>>
    BY <1>3, ContinueIsStep, Still DEF AskAgain, LegalStep, PlainSteps, Steps
<1>4. QED BY <1>2, <1>3 DEF AskAgain

LEMMA AskStep ==
    ASSUME IInv, NEW t \in Threads, Ask(t) PROVE LegalStep
<1>1. th[t].at = "ask" BY DEF Ask, At
<1> USE ThreadFacts, <1>1
<1> DEFINE r == R(t)
<1>2. RunsStep /\ ViewStep /\ ChainStep /\ ThreadsStep
    <2>1. CASE Continue(t, "sign") /\ UNCHANGED <<runs, view, chain>>
        BY <2>1, ContinueIsStep, Still DEF PlainSteps, Steps
    <2>2. CASE FinishTurn(r, "abort") /\ Again(t)
        BY <2>2, FinishTurnIsStep, AgainIsStep DEF Terminations
    <2>3. CASE Continue(t, "deadline") /\ FinishTurn(r, "none")
        BY <2>3, FinishTurnIsStep, ContinueIsStep DEF Terminations, PlainSteps, Steps
    <2>4. CASE AgentUnavailable(t) /\ UNCHANGED <<view, chain>>
        BY <2>4, AgentUnavailableIsStep, Still
    <2>5. CASE Continue(t, "refused") /\ FinishTurn(r, "none")
        BY <2>5, FinishTurnIsStep, ContinueIsStep DEF Terminations, PlainSteps, Steps
    <2>6. QED BY <2>1, <2>2, <2>3, <2>4, <2>5 DEF Ask
<1>3. QED BY <1>2, Still DEF Ask, LegalStep

LEMMA DeadlinePassedStep ==
    ASSUME IInv, NEW t \in Threads, DeadlinePassed(t) PROVE LegalStep
<1>1. th[t].at = "deadline" BY DEF DeadlinePassed, At
<1>2. RunsStep
    BY <1>1, ThreadFacts, TerminationIsStep DEF DeadlinePassed, Terminations
<1>3. ThreadsStep BY <1>1, AgainIsStep DEF DeadlinePassed
<1>4. QED BY <1>2, <1>3, Still DEF DeadlinePassed, LegalStep

LEMMA AgentRefusedStep ==
    ASSUME IInv, NEW t \in Threads, AgentRefused(t) PROVE LegalStep
<1>1. th[t].at = "refused" BY DEF AgentRefused, At
<1>2. RunsStep /\ ThreadsStep BY <1>1, RecoverOfTask, AgainIsStep DEF AgentRefused
<1>3. QED BY <1>2, Still DEF AgentRefused, LegalStep

LEMMA RecordSignedStep ==
    ASSUME IInv, NEW t \in Threads, RecordSigned(t) PROVE LegalStep
<1>1. th[t].at = "sign" BY DEF RecordSigned, At
<1> USE ThreadFacts, <1>1
<1> DEFINE r == R(t) turn == IF runs[r].turn = "none" THEN "none" ELSE "signed"
<1>2. CASE FinishTurn(r, "none") /\ Again(t)
    BY <1>2, FinishTurnIsStep, AgainIsStep, Still DEF RecordSigned, LegalStep, Terminations
<1>3. CASE /\ runs[r].term = "none" /\ runs' = [runs EXCEPT ![r].turn = turn]
           /\ Continue(t, "submit") /\ UNCHANGED <<chain, view>>
    <2>1. turn \in Turns BY DEF Turns
    <2>2. RunsStep
        <3> HIDE DEF turn
        <3>1. QED BY <1>3, <2>1, RunsFields DEF IInv, TypeInv, RunRow
    <2>3. ThreadsStep BY <1>3, ContinueIsStep DEF PlainSteps, Steps
    <2>4. QED BY <1>3, <2>2, <2>3, Still DEF RecordSigned, LegalStep
<1>4. QED BY <1>2, <1>3 DEF RecordSigned

LEMMA SubmitAgainStep ==
    ASSUME IInv, NEW t \in Threads, SubmitAgain(t) PROVE LegalStep
<1>1. th[t].at = "turn" BY DEF SubmitAgain, At
<1>2. ThreadsStep BY <1>1, ContinueIsStep DEF SubmitAgain, PlainSteps, Steps
<1>3. QED BY <1>2, Still DEF SubmitAgain, LegalStep

LEMMA SubmitStep ==
    ASSUME IInv, NEW t \in Threads, Submit(t) PROVE LegalStep
<1>1. th[t].at = "submit" BY DEF Submit, At
<1> USE ThreadFacts, <1>1
<1> DEFINE r == R(t)
<1>2. RunsStep /\ ChainStep /\ ThreadsStep
    <2>1. CASE Persist(t, "action") BY <2>1, PersistIsStep DEF TxKinds
    <2>2. ASSUME NEW x \in Rows(r, {"action"}),
                 th' = [th EXCEPT ![t] = [Task(r, "send") EXCEPT !.tx = x]],
                 UNCHANGED <<runs, chain>>
          PROVE  RunsStep /\ ChainStep /\ ThreadsStep
        <3>1. x \in TxIds BY DEF Rows, TxIds, TxKinds
        <3> DEFINE y == [Task(r, "send") EXCEPT !.tx = x]
        <3>2. y \in Thread /\ y.at = "send" /\ y.run = r /\ y.tx = x
            BY <3>1 DEF Task, Off, Thread, Steps, Givens, Terminations
        <3>3. th'[t] = y BY <2>2, <3>2 DEF IInv, TypeInv
        <3>4. ThreadInv(t)' BY <3>1, <3>2, <3>3 DEF ThreadInv
        <3>5. QED BY <2>2, <3>2, <3>4, OneThread, Still
    <2>3. QED BY <2>1, <2>2 DEF Submit
<1>3. QED BY <1>2, Still DEF Submit, LegalStep

LEMMA FollowTurnStep ==
    ASSUME IInv, NEW t \in Threads, FollowTurn(t) PROVE LegalStep
<1>1. th[t].at = "turn" BY DEF FollowTurn, At
<1> USE ThreadFacts, <1>1
<1>2. CASE FinishTurn(R(t), "abort") /\ Again(t)
    BY <1>2, FinishTurnIsStep, AgainIsStep, Still DEF FollowTurn, LegalStep, Terminations
<1>3. CASE FinishTurn(R(t), "none") /\ Goto(t, "confirmed")
    BY <1>3, FinishTurnIsStep, GotoIsStep, Still
       DEF FollowTurn, LegalStep, Terminations, PlainSteps, Steps
<1>4. CASE Again(t) /\ UNCHANGED <<runs, view, chain>>
    BY <1>4, AgainIsStep, Still DEF FollowTurn, LegalStep
<1>5. QED BY <1>2, <1>3, <1>4 DEF FollowTurn

LEMMA TurnConfirmedStep ==
    ASSUME IInv, NEW t \in Threads, TurnConfirmed(t) PROVE LegalStep
<1>1. th[t].at = "confirmed" BY DEF TurnConfirmed, At
<1>2. RunsStep
    BY <1>1, MoveOfTask, Still DEF TurnConfirmed, States, Active
<1>3. ThreadsStep BY <1>1, AgainIsStep DEF TurnConfirmed
<1>4. QED BY <1>2, <1>3, Still DEF TurnConfirmed, LegalStep

-----------------------------------------------------------------------------
(* The chain *)

LEMMA ChainChange ==
    ASSUME IInv, NEW r \in Runs, NEW c \in ChainRow,
           chain' = [chain EXCEPT ![r] = c],
           OneBlock => c.soft = {},
           c.sess \in Endings /\ "open" \in c.soft => "end" \in c.soft,
           Final(chain[r]) => Final(c) /\ c.sess = chain[r].sess
    PROVE  ChainStep
<1>1. chain \in [Runs -> ChainRow] BY DEF IInv, TypeInv
<1>2. /\ chain' \in [Runs -> ChainRow] /\ chain'[r] = c
      /\ \A q \in Runs \ {r} : chain'[q] = chain[q]
    BY <1>1
<1>3. ChainInv' BY <1>2 DEF ChainInv, IInv
<1>4. QED BY <1>2, <1>3 DEF ChainStep, Final

(* A block that opens a session, moves it on, or ends it.                  *)
LEMMA SessionChange ==
    ASSUME IInv, NEW r \in Runs, NEW c \in ChainRow,
           chain' = [chain EXCEPT ![r] = c], chain[r].sess \notin Endings,
           NEW fresh \in SUBSET Softs,
           c.soft = chain[r].soft \cup Fresh(fresh),
           c.sess \in Endings => "end" \in fresh
    PROVE  ChainStep
<1>1. OneBlock => c.soft = {} BY DEF IInv, ChainInv, Fresh
<1>2. c.sess \in Endings /\ "open" \in c.soft => "end" \in c.soft
    BY <1>1 DEF Fresh
<1>3. QED BY <1>1, <1>2, ChainChange DEF Final

LEMMA MineStep ==
    ASSUME IInv, NEW r \in Runs, NEW x \in TxIds, Mine(r, x) PROVE LegalStep
<1> DEFINE c == chain[r]
           Ok(sess, fresh) ==
              chain' = [chain EXCEPT ![r] =
                [c EXCEPT !.sess = sess, !.soft = @ \cup Fresh(fresh), !.tx[x] = "ok"]]
           Failed == chain' = [chain EXCEPT ![r].tx[x] = "failed"]
<1>1. c \in ChainRow BY DEF IInv, TypeInv
<1>2. ASSUME NEW sess \in Sessions, NEW fresh \in SUBSET Softs,
             c.sess \notin Endings, sess \in Endings => "end" \in fresh,
             Ok(sess, fresh)
      PROVE  ChainStep
    <2> DEFINE f == [c.tx EXCEPT ![x] = "ok"]
               soft == c.soft \cup Fresh(fresh)
               row == [c EXCEPT !.sess = sess, !.soft = soft, !.tx = f]
    <2>1. f \in [TxIds -> Tx] BY <1>1 DEF ChainRow, Tx
    <2>2. soft \in SUBSET Softs BY <1>1 DEF ChainRow, Fresh
    <2>3. row \in ChainRow /\ row.sess = sess /\ row.soft = soft
        <3> HIDE DEF f, soft, c
        <3>1. QED BY <1>1, <2>1, <2>2 DEF ChainRow
    <2>4. chain' = [chain EXCEPT ![r] = row] BY <1>2
    <2> HIDE DEF row
    <2>5. QED BY <1>2, <2>3, <2>4, SessionChange
<1>3. Failed => ChainStep BY ChainTxOne DEF Tx
<1>4. \/ Failed
      \/ c.sess = "none" /\ Ok("open", {"open"})
      \/ c.sess = "open" /\ Ok("open", {"act"})
      \/ c.sess = "open" /\ \E e \in {"settled", "closed"} : Ok(e, {"act", "end"})
      \/ c.sess = "open" /\ Ok("aborted", {"end"})
      \/ c.sess = "open" /\ Ok("expired", {"end"})
    BY DEF Mine, TxIds, TxKinds
<1>5. "none" \notin Endings /\ "open" \notin Endings BY DEF Endings
<1>6. ChainStep
    <2> HIDE DEF Ok, c
    <2>1. CASE c.sess = "none" /\ Ok("open", {"open"})
        BY <1>2, <1>5, <2>1 DEF Sessions, Softs
    <2>2. CASE c.sess = "open" /\ Ok("open", {"act"})
        BY <1>2, <1>5, <2>2 DEF Sessions, Softs
    <2>3. ASSUME NEW e \in {"settled", "closed"}, c.sess = "open", Ok(e, {"act", "end"})
          PROVE  ChainStep
        <3>1. e \in Sessions BY DEF Sessions, Endings
        <3>2. QED BY <1>2, <1>5, <2>3, <3>1 DEF Softs
    <2>4. CASE c.sess = "open" /\ Ok("aborted", {"end"})
        BY <1>2, <1>5, <2>4 DEF Sessions, Softs, Endings
    <2>5. CASE c.sess = "open" /\ Ok("expired", {"end"})
        BY <1>2, <1>5, <2>5 DEF Sessions, Softs, Endings
    <2>6. QED BY <1>3, <1>4, <2>1, <2>2, <2>3, <2>4, <2>5
<1>7. QED BY <1>6, Still DEF Mine, LegalStep

LEMMA DeadlineStep ==
    ASSUME IInv, NEW r \in Runs, Deadline(r) PROVE LegalStep
<1> DEFINE c == [chain[r] EXCEPT !.late = TRUE]
<1>1. c \in ChainRow /\ c.sess = chain[r].sess /\ c.soft = chain[r].soft
    BY DEF IInv, TypeInv, ChainRow
<1>2. chain' = [chain EXCEPT ![r] = c] BY DEF Deadline
<1> HIDE DEF c
<1>3. ChainStep BY <1>1, <1>2, ChainChange DEF IInv, ChainInv, Final
<1>4. QED BY <1>3, Still DEF Deadline, LegalStep

LEMMA ExpireByAnyoneStep ==
    ASSUME IInv, NEW r \in Runs, ExpireByAnyone(r) PROVE LegalStep
<1> DEFINE soft == chain[r].soft \cup Fresh({"end"})
           c == [chain[r] EXCEPT !.sess = "expired", !.soft = soft]
<1>1. chain \in [Runs -> ChainRow] BY DEF IInv, TypeInv
<1>2. soft \in SUBSET Softs BY <1>1 DEF ChainRow, Fresh, Softs
<1>3. c \in ChainRow /\ c.sess = "expired" /\ c.soft = soft
    <2> HIDE DEF soft
    <2>1. QED BY <1>1, <1>2 DEF ChainRow, Sessions, Endings
<1>4. chain' = [chain EXCEPT ![r] = c] BY <1>1 DEF ExpireByAnyone
<1>5. chain[r].sess \notin Endings BY DEF ExpireByAnyone, Endings
<1>6. {"end"} \in SUBSET Softs BY DEF Softs
<1>7. c.soft = chain[r].soft \cup Fresh({"end"}) BY <1>3
<1> HIDE DEF c, soft
<1>8. ChainStep
    <2> DEFINE fresh == {"end"}
    <2>1. fresh \in SUBSET Softs /\ c.soft = chain[r].soft \cup Fresh(fresh)
          /\ "end" \in fresh
        BY <1>6, <1>7
    <2> HIDE DEF fresh
    <2>2. QED BY <1>3, <1>4, <1>5, <2>1, SessionChange
<1>9. QED BY <1>8, Still DEF ExpireByAnyone, LegalStep

LEMMA ConfirmStep ==
    ASSUME IInv, NEW r \in Runs, Confirm(r) PROVE LegalStep
<1> DEFINE c == [chain[r] EXCEPT !.soft = {}]
<1>1. c \in ChainRow /\ c.sess = chain[r].sess /\ c.soft = {}
    BY DEF IInv, TypeInv, ChainRow
<1>2. chain' = [chain EXCEPT ![r] = c] BY DEF Confirm
<1> HIDE DEF c
<1>3. ChainStep BY <1>1, <1>2, ChainChange DEF Final
<1>4. QED BY <1>3, Still DEF Confirm, LegalStep

LEMMA ReorgStep ==
    ASSUME IInv, NEW r \in Runs, Reorg(r) PROVE LegalStep
<1>1. chain \in [Runs -> ChainRow] BY DEF IInv, TypeInv
<1>2. PICK d \in Dropped(r) \ {{}} :
          chain' = [chain EXCEPT ![r] =
            [sess |-> IF "open" \in d THEN "none"
                      ELSE IF "end" \in d THEN "open" ELSE chain[r].sess,
             soft |-> chain[r].soft \ d, late |-> chain[r].late,
             forked |-> chain[r].forked \/ Recorded(r, d),
             tx |-> [x \in TxIds |->
                        IF chain[r].tx[x] = "ok" /\ Undone(d, x[1], chain[r].sess)
                        THEN "pool" ELSE chain[r].tx[x]]]]
    BY Zenon DEF Reorg
<1> DEFINE sess == IF "open" \in d THEN "none"
                   ELSE IF "end" \in d THEN "open" ELSE chain[r].sess
           soft == chain[r].soft \ d
           forked == chain[r].forked \/ Recorded(r, d)
           f == [x \in TxIds |->
                    IF chain[r].tx[x] = "ok" /\ Undone(d, x[1], chain[r].sess)
                    THEN "pool" ELSE chain[r].tx[x]]
           c == [sess |-> sess, soft |-> soft, late |-> chain[r].late,
                 forked |-> forked, tx |-> f]
<1>3. sess \in Sessions /\ soft \in SUBSET Softs
    BY <1>1 DEF ChainRow, Sessions
<1>4. forked \in BOOLEAN OBVIOUS
<1>5. f \in [TxIds -> Tx] BY <1>1 DEF ChainRow, Tx
<1>6. c \in ChainRow /\ c.sess = sess /\ c.soft = soft
    <2> HIDE DEF sess, soft, forked, f
    <2>1. QED BY <1>1, <1>3, <1>4, <1>5 DEF ChainRow
<1>7. chain' = [chain EXCEPT ![r] = c] BY <1>2, Zenon
<1>8. OneBlock => soft = {} BY DEF IInv, ChainInv
<1>9. sess \in Endings /\ "open" \in soft => "end" \in soft
    BY DEF IInv, ChainInv, Endings
<1>10. Final(chain[r]) => sess = chain[r].sess /\ "end" \notin soft
    <2>1. ASSUME Final(chain[r]) PROVE "open" \notin d /\ "end" \notin d
        <3>1. "open" \notin chain[r].soft BY <2>1 DEF Final, IInv, ChainInv
        <3>2. QED BY <2>1, <3>1 DEF Final, Dropped
    <2>2. QED BY <2>1 DEF Final
<1>11. Final(chain[r]) => Final(c) /\ c.sess = chain[r].sess
    <2> HIDE DEF sess, soft, c
    <2>1. QED BY <1>6, <1>10 DEF Final
<1>12. ChainStep
    <2> HIDE DEF sess, soft, c
    <2>1. QED BY <1>6, <1>7, <1>8, <1>9, <1>11, ChainChange
<1>13. QED BY <1>12, Still DEF Reorg, LegalStep

-----------------------------------------------------------------------------
(* Every step, and the theorems *)

LEMMA InitInv == Init => IInv
<1> SUFFICES ASSUME Init PROVE IInv OBVIOUS
<1>1. TypeInv
    <2>1. runs \in [Runs -> RunRow]
        BY DEF Init, RunRow, States, Causes, Terminations, Outcomes, Turns
    <2>2. lease \in [Runs -> LeaseRow] BY DEF Init, LeaseRow
    <2>3. chain \in [Runs -> ChainRow] BY DEF Init, ChainRow, Sessions, Softs, Tx
    <2>4. view \in [Runs -> ViewRow] BY DEF Init, ViewRow, Sessions, Softs
    <2>5. th \in [Threads -> Thread]
        BY DEF Init, Off, Thread, Steps, Givens, Terminations
    <2>6. QED BY <2>1, <2>2, <2>3, <2>4, <2>5 DEF Init, TypeInv
<1>2. \A t \in Threads : ThreadInv(t) BY DEF Init, Off, ThreadInv
<1>3. ChainInv BY DEF Init, ChainInv
<1>4. ViewInv BY DEF Init, ViewInv, Final, Endings
<1>5. ActiveHoldsSlot BY DEF Init, ActiveHoldsSlot, Active
<1>6. OutcomeFromChain BY DEF Init, OutcomeFromChain
<1>7. QED BY <1>1, <1>2, <1>3, <1>4, <1>5, <1>6 DEF IInv

LEMMA ServeStep ==
    ASSUME IInv, NEW t \in Threads, Request(t) \/ Serve(t) PROVE LegalStep
BY StartStep, StepStep, ResumeStep, AbortStep, HoldToPrepareStep, PrepareStep,
   BeginStepStep, ResumedStep, RecoveredStep, AbortedStep, TakeOverStep
   DEF Request, Serve

LEMMA SyncStep ==
    ASSUME IInv, NEW t \in Threads, Sync(t) PROVE LegalStep
BY ReconcileStep, PollStep, ReportStep, PauseForReorgStep, RecordTerminalStep,
   FinishStep
   DEF Sync

LEMMA DriveStep ==
    ASSUME IInv, NEW t \in Threads, Drive(t) PROVE LegalStep
BY QuietStep, TickStep, EndWithoutSessionStep, ResendRefusedStep, TerminateStep,
   EndSessionStep, SendStep, FundStep, OpenSessionStep, CreateSessionStep,
   AwaitSessionStep, SetupDoneStep, SetupFailedStep, BeginTurnStep, AskAgainStep,
   AskStep, DeadlinePassedStep, AgentRefusedStep, RecordSignedStep,
   SubmitAgainStep, SubmitStep, FollowTurnStep, TurnConfirmedStep
   DEF Drive

LEMMA NextStep ==
    ASSUME IInv, Next PROVE LegalStep
<1>1. ASSUME NEW t \in Threads, Request(t) \/ Work(t) PROVE LegalStep
    BY <1>1, ServeStep, SyncStep, DriveStep DEF Work
<1>2. ASSUME NEW p \in Procs, Process(p) PROVE LegalStep
    BY <1>2, StartProcessStep, CrashStep, CloseStep, HeartbeatStep DEF Process
<1>3. ASSUME NEW r \in Runs, Chain(r) PROVE LegalStep
    BY <1>3, MineStep, DeadlineStep, ExpireByAnyoneStep, ConfirmStep, ReorgStep
       DEF Chain
<1>4. ASSUME NEW r \in Runs, Validate(r) \/ Pause(r) \/ LeaseExpires(r) PROVE LegalStep
    BY <1>4, ValidateStep, PauseStep, LeaseExpiresStep
<1>5. QED BY <1>1, <1>2, <1>3, <1>4 DEF Next

LEMMA StutterStep ==
    ASSUME IInv, UNCHANGED vars PROVE LegalStep
BY Still DEF vars, LegalStep

(* Every step, of any thread, process or block, is of these kinds.         *)
LEMMA EveryStep ==
    ASSUME IInv, [Next]_vars PROVE LegalStep
BY NextStep, StutterStep

(* The invariant that the theorems below are read off.                     *)
THEOREM Invariance == Spec => []IInv
<1>1. IInv /\ [Next]_vars => IInv' BY EveryStep, StepKeepsInv
<1>2. QED BY InitInv, <1>1, PTL DEF Spec

(* The database, the chain and every thread keep their types, whatever     *)
(* runs, processes, requests and faults there are.                         *)
THEOREM TypeCorrect == Spec => []TypeOK
<1>1. IInv => TypeOK
    BY DEF IInv, TypeInv, TypeOK, RunRow, LeaseRow, ChainRow, ViewRow, Thread, Softs
<1>2. QED BY Invariance, <1>1, PTL

(* No two runs are active at once, however many processes and requests     *)
(* race for the active_run row (repositories/runs.py:247).                 *)
THEOREM OneActiveRun == Spec => []ActiveHoldsSlot
<1>1. IInv => ActiveHoldsSlot BY DEF IInv
<1>2. QED BY Invariance, <1>1, PTL

(* A recorded outcome is the ending the session has on chain, in a block   *)
(* no reorganisation short of the threshold can take back                  *)
(* (driver._record_terminal).                                              *)
THEOREM OutcomeIsTheChains == Spec => []OutcomeFromChain
<1>1. IInv => OutcomeFromChain BY DEF IInv
<1>2. QED BY Invariance, <1>1, PTL

(* A finished run keeps its state and its outcome (states.py:56).          *)
THEOREM FinishedForGood == Spec => FinishedIsFinal
<1>1. IInv /\ [Next]_vars =>
        [\A r \in Runs : runs[r].state \in Finished =>
            runs'[r].state = runs[r].state /\ runs'[r].outcome = runs[r].outcome]_vars
    <2> SUFFICES ASSUME IInv, [Next]_vars, NEW r \in Runs, runs[r].state \in Finished
                 PROVE  /\ runs'[r].state = runs[r].state
                        /\ runs'[r].outcome = runs[r].outcome
        OBVIOUS
    <2>1. QED BY EveryStep, FinishedStays DEF LegalStep, RunsStep
<1>2. QED BY Invariance, <1>1, PTL DEF Spec, FinishedIsFinal

(* Nothing is signed into a run once its termination is recorded,          *)
(* although the agent was asked before (executor._record_signed, ADR-070). *)
THEOREM EndingsAreFinal == Spec => NothingSignedOnceEnding
<1>1. IInv /\ [Next]_vars =>
        [\A r \in Runs :
            runs[r].turn # "signed" /\ runs'[r].turn = "signed"
                => runs[r].term = "none"]_vars
    <2> SUFFICES ASSUME IInv, [Next]_vars, NEW r \in Runs,
                        runs[r].turn # "signed", runs'[r].turn = "signed"
                 PROVE  runs[r].term = "none"
        OBVIOUS
    <2>1. QED BY EveryStep DEF LegalStep, RunsStep, Unsigned
<1>2. QED BY Invariance, <1>1, PTL DEF Spec, NothingSignedOnceEnding

(* Only the transitions of architecture 6.1 are taken (states.py:29),      *)
(* although most steps decide from a run they read earlier.                *)
THEOREM OnlyDrawn == Spec => OnlyDrawnTransitions
<1>1. IInv /\ [Next]_vars =>
        [\A r \in Runs : runs'[r].state # runs[r].state =>
            <<runs[r].state, runs'[r].state>> \in Transitions]_vars
    <2> SUFFICES ASSUME IInv, [Next]_vars, NEW r \in Runs,
                        runs'[r].state # runs[r].state
                 PROVE  <<runs[r].state, runs'[r].state>> \in Transitions
        OBVIOUS
    <2>1. QED BY EveryStep DEF LegalStep, RunsStep
<1>2. QED BY Invariance, <1>1, PTL DEF Spec, OnlyDrawnTransitions

-----------------------------------------------------------------------------
(* The lease *)

Tasks == Procs \X Runs

(* A task is about the run it is named for, in a process that is up.       *)
Placed ==
    \A t \in Tasks : th[t].at # "off" => Proc(t) \in up /\ th[t].run = t[2]

(* Inside a tick the lease is held, until the run is finished and lets go. *)
InsideHolds ==
    \A r \in Runs : \A p \in Procs : Inside(p, r) =>
        runs[r].state \in Finished \/ lease[r] = [holder |-> p, live |-> TRUE]

DriverInv == Placed /\ InsideHolds /\ OneDriver

(* Where a task may be after a step.                                       *)
PlacedStep ==
    \A t \in Tasks : th'[t].at # "off" => Proc(t) \in up' /\ th'[t].run = t[2]

(* A tick is entered only of an unfinished run, with a lease that nobody   *)
(* else held.                                                              *)
Entered(p, r) ==
    /\ runs[r].state \notin Finished /\ CanHold(p, r)
    /\ lease'[r] = [holder |-> p, live |-> TRUE]

EntersStep ==
    \A r \in Runs : \A p \in Procs : Inside(p, r)' => Inside(p, r) \/ Entered(p, r)

(* A lease changes hands when it can be held, and is given up when its     *)
(* holder is not inside a tick, or the run is finished.                    *)
LeaseStep ==
    \A r \in Runs :
        \/ lease'[r] = lease[r]
        \/ \E p \in Procs : CanHold(p, r) /\ lease'[r] = [holder |-> p, live |-> TRUE]
        \/ runs[r].state \in Finished
        \/ \A p \in Procs : lease[r] = [holder |-> p, live |-> TRUE] => ~Inside(p, r)'

DriverStep == PlacedStep /\ EntersStep /\ LeaseStep

LEMMA StepKeepsDriver ==
    ASSUME IInv, DriverInv, LegalStep, DriverStep
    PROVE  DriverInv'
<1>1. Placed' BY DEF DriverStep, PlacedStep, Placed
<1>2. ASSUME NEW r \in Runs, NEW p \in Procs, Inside(p, r), runs[r].state \notin Finished
      PROVE  lease[r] = [holder |-> p, live |-> TRUE]
    BY <1>2 DEF DriverInv, InsideHolds
<1>3. ASSUME NEW p \in Procs, NEW q \in Procs, NEW r \in Runs,
             lease[r] = [holder |-> p, live |-> TRUE], CanHold(q, r)
      PROVE  q = p
    <2>1. lease[r].holder = p /\ lease[r].live BY <1>3
    <2>2. p # NoProc BY RunControlAssumption
    <2>3. QED BY <1>3, <2>1, <2>2 DEF CanHold
<1>4. InsideHolds'
    <2>1. ASSUME NEW r \in Runs, NEW p \in Procs, Inside(p, r)',
                 runs'[r].state \notin Finished
          PROVE  lease'[r] = [holder |-> p, live |-> TRUE]
        <3>1. CASE Entered(p, r) BY <3>1 DEF Entered
        <3>2. CASE Inside(p, r)
            <4>1. runs[r].state \notin Finished
                BY <2>1, FinishedStays DEF LegalStep, RunsStep
            <4>2. lease[r] = [holder |-> p, live |-> TRUE] BY <1>2, <3>2, <4>1
            <4>3. QED BY <1>3, <2>1, <4>1, <4>2 DEF DriverStep, LeaseStep
        <3>3. QED BY <2>1, <3>1, <3>2 DEF DriverStep, EntersStep
    <2>2. QED BY <2>1 DEF InsideHolds
<1>5. OneDriver'
    <2>1. ASSUME NEW r \in Runs, NEW p \in Procs, NEW q \in Procs,
                 Entered(p, r), Inside(q, r) \/ Entered(q, r)
          PROVE  p = q
        <3>1. CASE Inside(q, r)
            BY <1>2, <1>3, <2>1, <3>1 DEF Entered
        <3>2. CASE Entered(q, r) BY <2>1, <3>2 DEF Entered
        <3>3. QED BY <2>1, <3>1, <3>2
    <2>2. ASSUME NEW r \in Runs, NEW p \in Procs, NEW q \in Procs,
                 Inside(p, r)', Inside(q, r)'
          PROVE  p = q
        <3>1. Inside(p, r) \/ Entered(p, r) BY <2>2 DEF DriverStep, EntersStep
        <3>2. Inside(q, r) \/ Entered(q, r) BY <2>2 DEF DriverStep, EntersStep
        <3>3. QED BY <2>1, <3>1, <3>2 DEF DriverInv, OneDriver
    <2>3. QED BY <2>2 DEF OneDriver
<1>6. QED BY <1>1, <1>4, <1>5 DEF DriverInv

-----------------------------------------------------------------------------
(* What the steps of a thread do to it *)

(* Only thread t moves, and stays with its run or comes to rest.           *)
Keeps(t) ==
    \E x : th' = [th EXCEPT ![t] = x] /\ (x.at = "off" \/ x.run = th[t].run)

LEMMA ThreadKept ==
    ASSUME IInv, DriverInv, NEW t \in Threads,
           th[t].at \notin {"off", "quiet", "tick"}, Keeps(t), UNCHANGED up
    PROVE  PlacedStep /\ EntersStep
<1>1. PICK x : th' = [th EXCEPT ![t] = x] /\ (x.at = "off" \/ x.run = th[t].run)
    BY DEF Keeps
<1>2. \A u \in Threads : u # t => th'[u] = th[u] BY <1>1 DEF IInv, TypeInv
<1>3. th'[t] = x BY <1>1 DEF IInv, TypeInv
<1>4. Tasks \subseteq Threads BY DEF Tasks, Threads
<1>5. PlacedStep
    <2>1. ASSUME NEW u \in Tasks, th'[u].at # "off"
          PROVE  Proc(u) \in up /\ th'[u].run = u[2]
        <3>1. CASE u = t BY <1>1, <1>3, <2>1, <3>1 DEF DriverInv, Placed
        <3>2. CASE u # t BY <1>2, <1>4, <2>1, <3>2 DEF DriverInv, Placed
        <3>3. QED BY <3>1, <3>2
    <2>2. QED BY <2>1 DEF PlacedStep
<1>6. EntersStep
    <2>1. ASSUME NEW r \in Runs, NEW p \in Procs, Inside(p, r)' PROVE Inside(p, r)
        <3>1. CASE <<p, r>> = t BY <3>1 DEF Inside
        <3>2. CASE <<p, r>> # t
            <4>1. <<p, r>> \in Threads BY <1>4 DEF Tasks
            <4>2. QED BY <1>2, <2>1, <3>2, <4>1 DEF Inside
        <3>3. QED BY <3>1, <3>2
    <2>2. QED BY <2>1 DEF EntersStep
<1>7. QED BY <1>5, <1>6

(* A thread comes to rest, and tells the run's task to look again.         *)
LEMMA ThreadSchedules ==
    ASSUME IInv, DriverInv, NEW t \in Threads, Proc(t) \in up, R(t) \in Runs,
           ScheduleAndLeave(t), UNCHANGED up
    PROVE  PlacedStep /\ EntersStep
<1> DEFINE threads == [th EXCEPT ![t] = Off]
           task == <<Proc(t), R(t)>>
<1>1. th \in [Threads -> Thread] BY DEF IInv, TypeInv
<1>2. Tasks \subseteq Threads BY DEF Tasks, Threads
<1>3. \A u \in Threads : threads[u] = th[u] \/ threads[u].at = "off"
    BY <1>1 DEF Off
<1>4. DOMAIN threads = Threads BY <1>1
<1>5. th' = IF threads[task].at = "off"
            THEN [threads EXCEPT ![task] = Task(R(t), "quiet")] ELSE threads
    BY DEF ScheduleAndLeave, Scheduled
<1>6. \A u \in Threads :
        \/ th'[u] = threads[u]
        \/ u = task /\ th'[u] = Task(R(t), "quiet")
    <2> HIDE DEF threads, task
    <2>1. QED BY <1>4, <1>5
<1>7. \A u \in Threads :
        \/ th'[u] = th[u] \/ th'[u].at = "off"
        \/ u = task /\ th'[u] = Task(R(t), "quiet")
    <2> HIDE DEF threads, task
    <2>1. QED BY <1>3, <1>6
<1>8. Task(R(t), "quiet").at = "quiet" /\ Task(R(t), "quiet").run = R(t)
    BY DEF Task, Off
<1>9. PlacedStep
    <2>1. ASSUME NEW u \in Tasks, th'[u].at # "off"
          PROVE  Proc(u) \in up /\ th'[u].run = u[2]
        <3>1. CASE th'[u] = th[u] BY <2>1, <3>1 DEF DriverInv, Placed
        <3>2. CASE u = task /\ th'[u] = Task(R(t), "quiet")
            BY <1>8, <3>2 DEF Proc
        <3>3. QED BY <1>2, <1>7, <2>1, <3>1, <3>2
    <2>2. QED BY <2>1 DEF PlacedStep
<1>10. EntersStep
    <2>1. ASSUME NEW r \in Runs, NEW p \in Procs, Inside(p, r)' PROVE Inside(p, r)
        <3>1. <<p, r>> \in Threads BY <1>2 DEF Tasks
        <3>2. QED BY <1>7, <1>8, <2>1, <3>1 DEF Inside
    <2>2. QED BY <2>1 DEF EntersStep
<1>11. QED BY <1>9, <1>10

(* A request or a recovery starts: no task of a run.                       *)
LEMMA ThreadBegins ==
    ASSUME IInv, DriverInv, NEW t \in Threads \ Tasks, NEW x,
           th' = [th EXCEPT ![t] = x], up \subseteq up'
    PROVE  PlacedStep /\ EntersStep
<1>1. \A u \in Tasks : u \in Threads /\ th'[u] = th[u]
    BY DEF IInv, TypeInv, Tasks, Threads
<1>2. PlacedStep BY <1>1 DEF PlacedStep, DriverInv, Placed
<1>3. EntersStep
    <2>1. ASSUME NEW r \in Runs, NEW p \in Procs, Inside(p, r)' PROVE Inside(p, r)
        <3>1. <<p, r>> \in Tasks BY DEF Tasks
        <3>2. QED BY <1>1, <2>1, <3>1 DEF Inside
    <2>2. QED BY <2>1 DEF EntersStep
<1>4. QED BY <1>2, <1>3

LEMMA ThreadsKept ==
    ASSUME IInv, DriverInv, UNCHANGED th, UNCHANGED up
    PROVE  PlacedStep /\ EntersStep
BY DEF PlacedStep, EntersStep, Inside, DriverInv, Placed

LEMMA LeaseKept ==
    ASSUME UNCHANGED lease PROVE LeaseStep
BY DEF LeaseStep

LEMMA LeaseHeld ==
    ASSUME IInv, NEW p \in Procs, NEW r \in Runs, Hold(p, r)
    PROVE  LeaseStep /\ lease'[r] = [holder |-> p, live |-> TRUE]
<1>1. CanHold(p, r) /\ lease' = [lease EXCEPT ![r] = [holder |-> p, live |-> TRUE]]
    BY DEF Hold
<1>2. lease'[r] = [holder |-> p, live |-> TRUE] BY <1>1 DEF IInv, TypeInv
<1>3. \A q \in Runs : q # r => lease'[q] = lease[q] BY <1>1 DEF IInv, TypeInv
<1>4. QED BY <1>1, <1>2, <1>3 DEF LeaseStep

LEMMA LeaseReleased ==
    ASSUME IInv, NEW p \in Procs, NEW r \in Runs, lease' = Released(p, r),
           runs[r].state \in Finished \/ ~Inside(p, r)'
    PROVE  LeaseStep
<1>1. \A q \in Runs : q # r => lease'[q] = lease[q] BY DEF Released, IInv, TypeInv
<1>2. lease[r].holder # p => lease'[r] = lease[r] BY DEF Released
<1>3. \A q \in Procs :
        lease[r] = [holder |-> q, live |-> TRUE] => lease[r].holder = q
    OBVIOUS
<1>4. QED BY <1>1, <1>2, <1>3 DEF LeaseStep

LEMMA KeepsBy ==
    ASSUME NEW t, NEW x, th' = [th EXCEPT ![t] = x], x.at = "off" \/ x.run = th[t].run
    PROVE  Keeps(t)
BY DEF Keeps

LEMMA GotoKeeps == ASSUME NEW t, NEW s, Goto(t, s) PROVE Keeps(t)
<1>1. th' = [th EXCEPT ![t] = [th[t] EXCEPT !.at = s]] BY DEF Goto
<1>2. [th[t] EXCEPT !.at = s].run = th[t].run OBVIOUS
<1>3. QED BY <1>1, <1>2, KeepsBy

LEMMA ContinueKeeps == ASSUME NEW t, NEW s, Continue(t, s) PROVE Keeps(t)
<1>1. Task(R(t), s).run = th[t].run BY DEF Task, Off, R
<1>2. th' = [th EXCEPT ![t] = Task(R(t), s)] BY DEF Continue
<1>3. QED BY <1>1, <1>2, KeepsBy

LEMMA RestKeeps == ASSUME NEW t, Again(t) \/ Idle(t) \/ Leave(t) PROVE Keeps(t)
<1>1. CASE Leave(t) BY <1>1, KeepsBy DEF Leave, Off
<1>2. QED BY <1>1, ContinueKeeps DEF Again, Idle

LEMMA FailsKeeps ==
    ASSUME NEW t, Fails(t) \/ Outage(t) \/ AgentUnavailable(t) PROVE Keeps(t)
BY RestKeeps DEF Fails, Outage, AgentUnavailable

LEMMA ActingFields ==
    ASSUME NEW r, NEW run
    PROVE  Acting(r, run).run = r /\ Acting(r, run).tx = NoTx
           /\ Acting(r, run).at \in {"quiet", "terminate", "set_up", "turn"}
BY DEF Acting, Task, Off

LEMMA SyncedKeeps == ASSUME NEW t, NEW run, Synced(t, run) PROVE Keeps(t)
<1>1. CASE ~IsTask(t)
    <2>1. th' = [th EXCEPT ![t] = [th[t] EXCEPT !.at = "recover"]]
        BY <1>1 DEF Synced
    <2>2. [th[t] EXCEPT !.at = "recover"].run = th[t].run OBVIOUS
    <2>3. QED BY <2>1, <2>2, KeepsBy
<1>2. CASE IsTask(t) /\ Refused(R(t)) # {}
    <2>1. Task(R(t), "resend").run = th[t].run BY DEF Task, Off, R
    <2>2. th' = [th EXCEPT ![t] = Task(R(t), "resend")] BY <1>2 DEF Synced
    <2>3. QED BY <2>1, <2>2, KeepsBy
<1>3. CASE IsTask(t) /\ Refused(R(t)) = {}
    <2>1. Acting(R(t), run).run = th[t].run BY ActingFields DEF R
    <2>2. th' = [th EXCEPT ![t] = Acting(R(t), run)] BY <1>3 DEF Synced
    <2>3. QED BY <2>1, <2>2, KeepsBy
<1>4. QED BY <1>1, <1>2, <1>3

LEMMA PersistKeeps == ASSUME NEW t, NEW kind, Persist(t, kind) PROVE Keeps(t)
<1>1. CASE Fails(t) BY <1>1, FailsKeeps
<1>2. CASE th' = [th EXCEPT ![t] = [Task(R(t), "send") EXCEPT !.tx = <<kind, Proc(t)>>]]
    <2> DEFINE x == [Task(R(t), "send") EXCEPT !.tx = <<kind, Proc(t)>>]
    <2>1. x.run = th[t].run BY DEF Task, Off, R
    <2>2. QED BY <1>2, <2>1, KeepsBy
<1>3. QED BY <1>1, <1>2 DEF Persist

(* A step of a thread that is neither idle nor about to tick.              *)
LEMMA WorkIsDriverStep ==
    ASSUME IInv, DriverInv, NEW t \in Threads,
           NEW s \in Steps \ {"off", "quiet", "tick"}, At(t, s),
           Keeps(t) \/ ScheduleAndLeave(t), UNCHANGED up,
           UNCHANGED lease \/ Hold(Proc(t), R(t))
    PROVE  DriverStep
<1>1. Proc(t) \in up /\ th[t].at \notin {"off", "quiet", "tick"} BY DEF At
<1>2. R(t) \in Runs /\ Proc(t) \in Procs BY <1>1, ThreadFacts
<1>3. PlacedStep /\ EntersStep BY <1>1, <1>2, ThreadKept, ThreadSchedules
<1>4. LeaseStep BY <1>2, LeaseKept, LeaseHeld
<1>5. QED BY <1>3, <1>4 DEF DriverStep

-----------------------------------------------------------------------------
(* Every step *)

LEMMA RequestDriver ==
    ASSUME IInv, DriverInv, NEW t \in Threads, Request(t)
    PROVE  DriverStep
<1>1. PICK r \in Runs : \/ \E mode \in {"start", "step"} : Start(t, r, mode)
                        \/ Step(t, r) \/ Resume(t, r) \/ Abort(t, r)
    BY DEF Request
<1>2. Free(t) BY <1>1 DEF Start, Step, Resume, Abort
<1>3. t \in Threads \ Tasks /\ Proc(t) \in Procs
    BY <1>2, RunControlAssumption DEF Free, Tasks, Proc
<1>4. \E s, g : Begin(t, r, s, g) BY <1>1 DEF Start, Step, Resume, Abort
<1>5. UNCHANGED up BY <1>1 DEF Start, Step, Resume, Abort
<1>6. PlacedStep /\ EntersStep BY <1>3, <1>4, <1>5, ThreadBegins DEF Begin
<1>7. UNCHANGED lease \/ Hold(Proc(t), r)
    BY <1>1 DEF Start, Step, Resume, Abort
<1>8. QED BY <1>3, <1>6, <1>7, LeaseKept, LeaseHeld DEF DriverStep

LEMMA ServeDriver ==
    ASSUME IInv, DriverInv, NEW t \in Threads, Serve(t)
    PROVE  DriverStep
<1>1. CASE HoldToPrepare(t)
    <2>1. Keeps(t) BY <1>1, GotoKeeps, RestKeeps DEF HoldToPrepare
    <2>2. QED BY <1>1, <2>1, WorkIsDriverStep DEF HoldToPrepare, Steps
<1>2. CASE Prepare(t)
    <2>1. Keeps(t) \/ ScheduleAndLeave(t) BY <1>2, RestKeeps DEF Prepare
    <2>2. QED BY <1>2, <2>1, WorkIsDriverStep DEF Prepare, Steps
<1>3. CASE BeginStep(t)
    <2>1. Keeps(t) \/ ScheduleAndLeave(t) BY <1>3, RestKeeps DEF BeginStep
    <2>2. QED BY <1>3, <2>1, WorkIsDriverStep DEF BeginStep, Steps
<1>4. CASE Resumed(t)
    <2>1. Keeps(t) \/ ScheduleAndLeave(t) BY <1>4, RestKeeps DEF Resumed
    <2>2. QED BY <1>4, <2>1, WorkIsDriverStep DEF Resumed, Steps
<1>5. CASE Recovered(t)
    <2>1. Keeps(t) \/ ScheduleAndLeave(t) BY <1>5, RestKeeps DEF Recovered
    <2>2. QED BY <1>5, <2>1, WorkIsDriverStep DEF Recovered, Steps
<1>6. CASE Aborted(t) BY <1>6, WorkIsDriverStep DEF Aborted, Steps
<1>7. CASE TakeOver(t)
    <2>1. Keeps(t) \/ ScheduleAndLeave(t) BY <1>7, GotoKeeps DEF TakeOver
    <2>2. QED BY <1>7, <2>1, WorkIsDriverStep DEF TakeOver, Steps
<1>8. QED BY <1>1, <1>2, <1>3, <1>4, <1>5, <1>6, <1>7 DEF Serve

LEMMA SyncDriver ==
    ASSUME IInv, DriverInv, NEW t \in Threads, Sync(t)
    PROVE  DriverStep
<1>1. CASE Reconcile(t)
    <2>1. Keeps(t) \/ ScheduleAndLeave(t)
        BY <1>1, GotoKeeps, RestKeeps DEF Reconcile
    <2>2. QED BY <1>1, <2>1, WorkIsDriverStep DEF Reconcile, Steps
<1>2. CASE Poll(t)
    <2>1. Keeps(t) BY <1>2, GotoKeeps, FailsKeeps, SyncedKeeps DEF Poll
    <2>2. QED BY <1>2, <2>1, WorkIsDriverStep DEF Poll, Steps
<1>3. CASE Report(t)
    <2>1. ASSUME NEW s, NEW g, th' = [th EXCEPT ![t].at = s, ![t].given = g]
          PROVE  Keeps(t)
        <3> DEFINE x == [th[t] EXCEPT !.at = s, !.given = g]
        <3>1. x.run = th[t].run OBVIOUS
        <3>2. th' = [th EXCEPT ![t] = x] BY <2>1
        <3>3. QED BY <3>1, <3>2, KeepsBy
    <2>2. Keeps(t) BY <1>3, <2>1, SyncedKeeps DEF Report
    <2>3. QED BY <1>3, <2>2, WorkIsDriverStep DEF Report, Steps
<1>4. CASE PauseForReorg(t)
    <2>1. Keeps(t)
        <3>1. CASE Fails(t) BY <3>1, FailsKeeps
        <3>2. CASE th' = [th EXCEPT ![t] = [Task(R(t), "reconcile") EXCEPT !.given = "reorg"]]
            <4> DEFINE x == [Task(R(t), "reconcile") EXCEPT !.given = "reorg"]
            <4>1. x.run = th[t].run BY DEF Task, Off, R
            <4>2. QED BY <3>2, <4>1, KeepsBy
        <3>3. QED BY <1>4, <3>1, <3>2 DEF PauseForReorg
    <2>2. QED BY <1>4, <2>1, WorkIsDriverStep DEF PauseForReorg, Steps
<1>5. CASE RecordTerminal(t)
    <2>1. CASE th' = [th EXCEPT ![t].at = "finish", ![t].given = "recorded"]
        <3> DEFINE x == [th[t] EXCEPT !.at = "finish", !.given = "recorded"]
        <3>1. x.run = th[t].run OBVIOUS
        <3>2. th' = [th EXCEPT ![t] = x] BY <2>1
        <3>3. QED BY <3>1, <3>2, KeepsBy, <1>5, WorkIsDriverStep DEF RecordTerminal, Steps
    <2>2. CASE Synced(t, runs[R(t)]) \/ Fails(t)
        BY <2>2, <1>5, FailsKeeps, SyncedKeeps, WorkIsDriverStep DEF RecordTerminal, Steps
    <2>3. QED BY <1>5, <2>1, <2>2 DEF RecordTerminal
<1>6. CASE Finish(t)
    <2>1. th[t].at = "finish" /\ UNCHANGED up BY <1>6 DEF Finish, At
    <2>2. R(t) \in Runs /\ Proc(t) \in Procs /\ runs[R(t)].state \in Finished
        BY <2>1, ThreadFacts DEF ThreadInv
    <2>3. Keeps(t) BY <1>6, SyncedKeeps, RestKeeps DEF Finish
    <2>4. PlacedStep /\ EntersStep BY <2>1, <2>3, ThreadKept
    <2>5. LeaseStep BY <1>6, <2>2, LeaseReleased DEF Finish
    <2>6. QED BY <2>4, <2>5 DEF DriverStep
<1>7. QED BY <1>1, <1>2, <1>3, <1>4, <1>5, <1>6 DEF Sync

(* The task looks again, or is done: no tick yet.                          *)
LEMMA QuietDriver ==
    ASSUME IInv, DriverInv, NEW t \in Threads, Quiet(t)
    PROVE  DriverStep
<1>1. Proc(t) \in up /\ th[t].at = "quiet" BY DEF Quiet, At
<1>2. PICK x : th' = [th EXCEPT ![t] = x] /\ x.at \in {"off", "tick"}
               /\ (x.at = "off" \/ x.run = th[t].run)
    <2>1. Task(R(t), "tick").run = th[t].run /\ Task(R(t), "tick").at = "tick"
        BY DEF Task, Off, R
    <2>2. Off.at = "off" BY DEF Off
    <2>3. QED BY <2>1, <2>2 DEF Quiet, Again, Continue, Leave
<1>3. \A u \in Threads : u # t => th'[u] = th[u] BY <1>2 DEF IInv, TypeInv
<1>4. th'[t] = x BY <1>2 DEF IInv, TypeInv
<1>5. Tasks \subseteq Threads BY DEF Tasks, Threads
<1>6. PlacedStep
    <2>1. ASSUME NEW u \in Tasks, th'[u].at # "off"
          PROVE  Proc(u) \in up' /\ th'[u].run = u[2]
        BY <1>1, <1>2, <1>3, <1>4, <1>5, <2>1 DEF DriverInv, Placed, Quiet
    <2>2. QED BY <2>1 DEF PlacedStep
<1>7. EntersStep
    <2>1. ASSUME NEW r \in Runs, NEW p \in Procs, Inside(p, r)' PROVE Inside(p, r)
        <3>1. <<p, r>> \in Threads BY <1>5 DEF Tasks
        <3>2. QED BY <1>2, <1>3, <1>4, <2>1, <3>1 DEF Inside
    <2>2. QED BY <2>1 DEF EntersStep
<1>8. LeaseStep BY LeaseKept DEF Quiet
<1>9. QED BY <1>6, <1>7, <1>8 DEF DriverStep

(* A tick goes inside with the lease.                                      *)
LEMMA TickDriver ==
    ASSUME IInv, DriverInv, NEW t \in Threads, Tick(t)
    PROVE  DriverStep
<1>1. Proc(t) \in up /\ th[t].at = "tick" /\ UNCHANGED up BY DEF Tick, At
<1>2. R(t) \in Runs /\ R(t) = th[t].run /\ Proc(t) \in Procs BY <1>1, ThreadFacts
<1>3. PICK x : th' = [th EXCEPT ![t] = x] /\ x.run = th[t].run
               /\ \/ x.at = "quiet" /\ UNCHANGED lease
                  \/ Driven(runs[R(t)]) /\ CanHold(Proc(t), R(t)) /\ Hold(Proc(t), R(t))
    <2>1. \A s : Task(R(t), s).run = th[t].run /\ Task(R(t), s).at = s
        BY DEF Task, Off, R
    <2>2. QED BY <2>1 DEF Tick, Idle, Continue
<1>4. \A u \in Threads : u # t => th'[u] = th[u] BY <1>3 DEF IInv, TypeInv
<1>5. th'[t] = x BY <1>3 DEF IInv, TypeInv
<1>6. Tasks \subseteq Threads BY DEF Tasks, Threads
<1>7. PlacedStep
    <2>1. ASSUME NEW u \in Tasks, th'[u].at # "off"
          PROVE  Proc(u) \in up' /\ th'[u].run = u[2]
        BY <1>1, <1>3, <1>4, <1>5, <1>6, <2>1 DEF DriverInv, Placed
    <2>2. QED BY <2>1 DEF PlacedStep
<1>8. EntersStep
    <2>1. ASSUME NEW r \in Runs, NEW p \in Procs, Inside(p, r)'
          PROVE  Inside(p, r) \/ Entered(p, r)
        <3>1. <<p, r>> \in Threads /\ <<p, r>> \in Tasks BY <1>6 DEF Tasks
        <3>2. CASE <<p, r>> # t BY <1>4, <2>1, <3>1, <3>2 DEF Inside
        <3>3. CASE <<p, r>> = t
            <4>1. Proc(t) = p /\ R(t) = r
                BY <1>1, <1>2, <3>1, <3>3 DEF Proc, DriverInv, Placed
            <4>2. x.at # "quiet" BY <1>5, <2>1, <3>3 DEF Inside
            <4>3. Driven(runs[r]) /\ CanHold(p, r) /\ Hold(p, r) BY <1>3, <4>1, <4>2
            <4>4. runs[r].state \notin Finished BY <4>3 DEF Driven, Finished
            <4>5. QED BY <4>3, <4>4, LeaseHeld DEF Entered
        <3>4. QED BY <3>2, <3>3
    <2>2. QED BY <2>1 DEF EntersStep
<1>9. LeaseStep BY <1>2, <1>3, LeaseKept, LeaseHeld
<1>10. QED BY <1>7, <1>8, <1>9 DEF DriverStep

LEMMA TerminateKeeps ==
    ASSUME NEW t, Terminate(t) PROVE Keeps(t)
<1>1. ASSUME NEW kind, EndBy(t, kind) PROVE Keeps(t)
    <2> DEFINE x == [Task(R(t), "end_session") EXCEPT !.given = kind]
    <2>1. x.run = th[t].run BY DEF Task, Off, R
    <2>2. QED BY <1>1, <2>1, KeepsBy DEF EndBy
<1>2. QED BY <1>1, RestKeeps DEF Terminate

LEMMA SubmitKeeps ==
    ASSUME NEW t, Submit(t) PROVE Keeps(t)
<1>1. ASSUME NEW tx, th' = [th EXCEPT ![t] = [Task(R(t), "send") EXCEPT !.tx = tx]]
      PROVE  Keeps(t)
    <2> DEFINE x == [Task(R(t), "send") EXCEPT !.tx = tx]
    <2>1. x.run = th[t].run BY DEF Task, Off, R
    <2>2. QED BY <1>1, <2>1, KeepsBy
<1>2. QED BY <1>1, PersistKeeps DEF Submit

LEMMA ResendKeeps ==
    ASSUME NEW t, ResendRefused(t) PROVE Keeps(t)
<1>1. CASE th' = [th EXCEPT ![t] = Acting(R(t), runs[R(t)])]
    <2>1. Acting(R(t), runs[R(t)]).run = th[t].run BY ActingFields DEF R
    <2>2. QED BY <1>1, <2>1, KeepsBy
<1>2. QED BY <1>1, RestKeeps, FailsKeeps DEF ResendRefused

LEMMA DriveDriver ==
    ASSUME IInv, DriverInv, NEW t \in Threads, Drive(t)
    PROVE  DriverStep
<1>1. CASE Quiet(t) \/ Tick(t) BY <1>1, QuietDriver, TickDriver
<1>2. CASE EndWithoutSession(t)
    <2>1. Keeps(t) BY <1>2, GotoKeeps, RestKeeps DEF EndWithoutSession
    <2>2. QED BY <1>2, <2>1, WorkIsDriverStep DEF EndWithoutSession, Steps
<1>3. CASE Terminate(t)
    <2>1. Keeps(t) BY <1>3, TerminateKeeps
    <2>2. QED BY <1>3, <2>1, WorkIsDriverStep DEF Terminate, Steps
<1>4. CASE EndSession(t)
    <2>1. Keeps(t) BY <1>4, PersistKeeps DEF EndSession
    <2>2. QED BY <1>4, <2>1, WorkIsDriverStep DEF EndSession, Steps
<1>5. CASE Send(t)
    <2>1. Keeps(t) BY <1>5, RestKeeps DEF Send
    <2>2. QED BY <1>5, <2>1, WorkIsDriverStep DEF Send, Steps
<1>6. CASE Fund(t)
    <2>1. Keeps(t) BY <1>6, ContinueKeeps, RestKeeps, FailsKeeps DEF Fund
    <2>2. QED BY <1>6, <2>1, WorkIsDriverStep DEF Fund, Steps
<1>7. CASE OpenSession(t)
    <2>1. Keeps(t) BY <1>7, ContinueKeeps DEF OpenSession
    <2>2. QED BY <1>7, <2>1, WorkIsDriverStep DEF OpenSession, Steps
<1>8. CASE CreateSession(t)
    <2>1. Keeps(t) BY <1>8, PersistKeeps DEF CreateSession
    <2>2. QED BY <1>8, <2>1, WorkIsDriverStep DEF CreateSession, Steps
<1>9. CASE AwaitSession(t)
    <2>1. Keeps(t) BY <1>9, ContinueKeeps, GotoKeeps, RestKeeps, FailsKeeps DEF AwaitSession
    <2>2. QED BY <1>9, <2>1, WorkIsDriverStep DEF AwaitSession, Steps
<1>10. CASE SetupDone(t)
    <2>1. Keeps(t) BY <1>10, RestKeeps, FailsKeeps DEF SetupDone
    <2>2. QED BY <1>10, <2>1, WorkIsDriverStep DEF SetupDone, Steps
<1>11. CASE SetupFailed(t)
    <2>1. Keeps(t) BY <1>11, GotoKeeps, FailsKeeps DEF SetupFailed
    <2>2. QED BY <1>11, <2>1, WorkIsDriverStep DEF SetupFailed, Steps
<1>12. CASE BeginTurn(t)
    <2>1. Keeps(t) BY <1>12, ContinueKeeps, RestKeeps DEF BeginTurn
    <2>2. QED BY <1>12, <2>1, WorkIsDriverStep DEF BeginTurn, Steps
<1>13. CASE AskAgain(t)
    <2>1. Keeps(t) BY <1>13, ContinueKeeps, RestKeeps DEF AskAgain
    <2>2. QED BY <1>13, <2>1, WorkIsDriverStep DEF AskAgain, Steps
<1>14. CASE Ask(t)
    <2>1. Keeps(t) BY <1>14, ContinueKeeps, RestKeeps, FailsKeeps DEF Ask
    <2>2. QED BY <1>14, <2>1, WorkIsDriverStep DEF Ask, Steps
<1>15. CASE DeadlinePassed(t)
    <2>1. Keeps(t) BY <1>15, RestKeeps DEF DeadlinePassed
    <2>2. QED BY <1>15, <2>1, WorkIsDriverStep DEF DeadlinePassed, Steps
<1>16. CASE AgentRefused(t)
    <2>1. Keeps(t) BY <1>16, RestKeeps DEF AgentRefused
    <2>2. QED BY <1>16, <2>1, WorkIsDriverStep DEF AgentRefused, Steps
<1>17. CASE RecordSigned(t)
    <2>1. Keeps(t) BY <1>17, ContinueKeeps, RestKeeps DEF RecordSigned
    <2>2. QED BY <1>17, <2>1, WorkIsDriverStep DEF RecordSigned, Steps
<1>18. CASE SubmitAgain(t)
    <2>1. Keeps(t) BY <1>18, ContinueKeeps DEF SubmitAgain
    <2>2. QED BY <1>18, <2>1, WorkIsDriverStep DEF SubmitAgain, Steps
<1>19. CASE FollowTurn(t)
    <2>1. Keeps(t) BY <1>19, GotoKeeps, RestKeeps DEF FollowTurn
    <2>2. QED BY <1>19, <2>1, WorkIsDriverStep DEF FollowTurn, Steps
<1>20. CASE TurnConfirmed(t)
    <2>1. Keeps(t) BY <1>20, RestKeeps DEF TurnConfirmed
    <2>2. QED BY <1>20, <2>1, WorkIsDriverStep DEF TurnConfirmed, Steps
<1>21. CASE Submit(t)
    <2>1. Keeps(t) BY <1>21, SubmitKeeps
    <2>2. QED BY <1>21, <2>1, WorkIsDriverStep DEF Submit, Steps
<1>22. CASE ResendRefused(t)
    <2>1. Keeps(t) BY <1>22, ResendKeeps
    <2>2. QED BY <1>22, <2>1, WorkIsDriverStep DEF ResendRefused, Steps
<1>23. QED
    BY <1>1, <1>2, <1>3, <1>4, <1>5, <1>6, <1>7, <1>8, <1>9, <1>10, <1>11, <1>12, <1>13, <1>14, <1>15, <1>16, <1>17, <1>18, <1>19, <1>20, <1>21, <1>22
       DEF Drive

LEMMA StartProcessDriver ==
    ASSUME IInv, DriverInv, NEW p \in Procs, StartProcess(p)
    PROVE  DriverStep
<1>1. UNCHANGED lease /\ up \subseteq up' BY DEF StartProcess
<1>2. CASE UNCHANGED th
    BY <1>1, <1>2, LeaseKept
       DEF DriverStep, PlacedStep, EntersStep, Inside, DriverInv, Placed
<1>3. CASE th' # th
    <2> DEFINE t == <<p, "boot">>
    <2>1. t \in Threads \ Tasks BY RunControlAssumption DEF Threads, Tasks
    <2>2. \E x : th' = [th EXCEPT ![t] = x] BY <1>3 DEF StartProcess
    <2> HIDE DEF t
    <2>3. PlacedStep /\ EntersStep BY <1>1, <2>1, <2>2, ThreadBegins
    <2>4. QED BY <1>1, <2>3, LeaseKept DEF DriverStep
<1>4. QED BY <1>2, <1>3

(* Every thread of the process is gone.                                    *)
LEMMA EndsPlaced ==
    ASSUME IInv, DriverInv, NEW p \in Procs, Ends(p)
    PROVE  PlacedStep /\ EntersStep /\ \A r \in Runs : ~Inside(p, r)'
<1>1. Tasks \subseteq Threads BY DEF Tasks, Threads
<1>2. \A t \in Threads :
        IF Proc(t) = p THEN th'[t].at = "off" ELSE th'[t] = th[t]
    BY DEF Ends, Off
<1>3. PlacedStep
    BY <1>1, <1>2 DEF PlacedStep, DriverInv, Placed, Ends
<1>4. ASSUME NEW r \in Runs, NEW q \in Procs
      PROVE  IF q = p THEN th'[<<q, r>>].at = "off" ELSE th'[<<q, r>>] = th[<<q, r>>]
    <2>1. <<q, r>> \in Threads /\ Proc(<<q, r>>) = q BY <1>1 DEF Tasks, Proc
    <2>2. QED BY <1>2, <2>1
<1>5. EntersStep BY <1>4 DEF EntersStep, Inside
<1>6. \A r \in Runs : ~Inside(p, r)' BY <1>4 DEF Inside
<1>7. QED BY <1>3, <1>5, <1>6

LEMMA ProcessDriver ==
    ASSUME IInv, DriverInv, NEW p \in Procs, Process(p)
    PROVE  DriverStep
<1>1. CASE StartProcess(p) BY <1>1, StartProcessDriver
<1>2. CASE Crash(p) BY <1>2, EndsPlaced, LeaseKept DEF Crash, DriverStep
<1>3. CASE Close(p)
    <2>1. PlacedStep /\ EntersStep /\ \A r \in Runs : ~Inside(p, r)'
        BY <1>3, EndsPlaced DEF Close
    <2>2. CASE slot = NoRun BY <1>3, <2>1, <2>2, LeaseKept DEF Close, DriverStep
    <2>3. CASE slot # NoRun
        <3>1. slot \in Runs BY <2>3 DEF IInv, TypeInv
        <3>2. lease' = Released(p, slot) BY <1>3, <2>3 DEF Close
        <3>3. QED BY <2>1, <3>1, <3>2, LeaseReleased DEF DriverStep
    <2>4. QED BY <2>2, <2>3
<1>4. ASSUME NEW r \in Runs, Heartbeat(p, r) PROVE DriverStep
    BY <1>4, ThreadsKept, LeaseHeld DEF Heartbeat, DriverStep
<1>5. QED BY <1>1, <1>2, <1>3, <1>4 DEF Process

(* Nothing renews a lease whose holder is not driving: then it is not      *)
(* inside a tick either.                                                   *)
LEMMA LeaseExpiresDriver ==
    ASSUME IInv, DriverInv, NEW r \in Runs, LeaseExpires(r)
    PROVE  DriverStep
<1>1. PlacedStep /\ EntersStep BY ThreadsKept DEF LeaseExpires
<1>2. \A q \in Runs : q # r => lease'[q] = lease[q]
    BY DEF LeaseExpires, IInv, TypeInv
<1>3. ASSUME NEW p \in Procs, lease[r] = [holder |-> p, live |-> TRUE]
      PROVE  ~Inside(p, r)'
    <2>1. lease[r].holder = p BY <1>3
    <2>2. ~Driving(p, r) BY <2>1 DEF LeaseExpires
    <2>3. <<p, r>> \in Tasks /\ Proc(<<p, r>>) = p BY DEF Tasks, Proc
    <2>4. th[<<p, r>>].at = "off" BY <2>2, <2>3 DEF Driving, DriverInv, Placed
    <2>5. QED BY <2>4 DEF LeaseExpires, Inside
<1>4. LeaseStep BY <1>2, <1>3 DEF LeaseStep
<1>5. QED BY <1>1, <1>4 DEF DriverStep

LEMMA EveryDriverStep ==
    ASSUME IInv, DriverInv, [Next]_vars
    PROVE  DriverStep
<1>1. ASSUME NEW t \in Threads, Request(t) \/ Work(t) PROVE DriverStep
    BY <1>1, RequestDriver, ServeDriver, SyncDriver, DriveDriver DEF Work
<1>2. ASSUME NEW r \in Runs, Chain(r) PROVE DriverStep
    <2>1. UNCHANGED <<lease, up, th>>
        BY <1>2 DEF Chain, Mine, Deadline, ExpireByAnyone, Confirm, Reorg
    <2>2. QED BY ZenonT(60), <2>1, ThreadsKept, LeaseKept DEF DriverStep
<1>3. ASSUME NEW r \in Runs, Validate(r) \/ Pause(r) PROVE DriverStep
    BY <1>3, ThreadsKept, LeaseKept DEF Validate, Pause, DriverStep
<1>4. CASE UNCHANGED vars BY <1>4, ThreadsKept, LeaseKept DEF vars, DriverStep
<1>5. QED BY <1>1, <1>2, <1>3, <1>4, ProcessDriver, LeaseExpiresDriver DEF Next

LEMMA InitDriver == Init => DriverInv
<1>1. Init => \A t \in Threads : th[t].at = "off" BY DEF Init, Off
<1>2. Tasks \subseteq Threads BY DEF Tasks, Threads
<1>3. ASSUME Init PROVE DriverInv
    <2>1. \A t \in Tasks : th[t].at = "off" BY <1>1, <1>2, <1>3
    <2>2. \A r \in Runs : \A p \in Procs : ~Inside(p, r)
        BY <2>1 DEF Inside, Tasks
    <2>3. QED BY <2>1, <2>2 DEF DriverInv, Placed, InsideHolds, OneDriver
<1>4. QED BY <1>3

LEMMA DriverInvariance == Spec => []DriverInv
<1>1. IInv /\ DriverInv /\ [Next]_vars => DriverInv'
    BY EveryStep, EveryDriverStep, StepKeepsDriver
<1>2. QED BY Invariance, InitDriver, <1>1, PTL DEF Spec

(* One process at a time is inside a tick of a run, through restarts,      *)
(* shutdowns, requests whose lease runs out, and take-overs                *)
(* (driver._tick, repositories/runs.py).                                   *)
THEOREM OneDriverTheorem == Spec => []OneDriver
<1>1. DriverInv => OneDriver BY DEF DriverInv
<1>2. QED BY DriverInvariance, <1>1, PTL

-----------------------------------------------------------------------------
(* The session of a run given up *)

Creates == {"create"} \X Procs

GivenUp(r) == runs[r].state = "failed_setup" /\ runs[r].outcome = "pending"
NoCreate(r) == \A x \in Creates : chain[r].tx[x] \in {"none", "failed"}

(* The steps only a run's own task takes.                                  *)
TaskSteps ==
    {"tick", "quiet", "end", "resend", "terminate", "end_session", "set_up",
     "create", "send", "set_up_done", "setup_failed", "turn", "ask", "sign",
     "submit", "deadline", "refused", "confirmed"}

(* What a task has established: about to persist createSession there is    *)
(* none yet, about to give up there is none that may still open a session. *)
SessionThread(t) ==
    /\ th[t].at \in TaskSteps => t \in Tasks
    /\ th[t].at = "finish" => th[t].given = "recorded" \/ t \in Tasks
    /\ th[t].at = "create" =>
         /\ runs[R(t)].session /\ runs[R(t)].funded
         /\ \A x \in Creates : chain[R(t)].tx[x] = "none"
    /\ th[t].at \in {"end", "setup_failed"} =>
         th[t].given # "recorded" /\ NoCreate(R(t))
    /\ th[t].at = "finish" /\ th[t].given = "recorded" =>
         runs[R(t)].outcome # "pending"
    /\ t \in Tasks /\ th[t].at \notin {"off", "quiet", "tick", "finish"} =>
         ~GivenUp(R(t))

(* At most one createSession is ever persisted for a run; only it opens    *)
(* the session; what is recorded as failed has failed.                     *)
SessionRun(r) ==
    /\ chain[r].sess # "none" => \E x \in Creates : chain[r].tx[x] = "ok"
    /\ "end" \in chain[r].soft => chain[r].sess # "none"
    /\ \A x \in view[r].failed \cap Creates : chain[r].tx[x] = "failed"
    /\ \A x \in Creates : chain[r].tx[x] # "none" => runs[r].session /\ runs[r].funded
    /\ \A x, y \in Creates :
         chain[r].tx[x] # "none" /\ chain[r].tx[y] # "none" => x = y
    /\ GivenUp(r) => NoCreate(r)

SessionInv ==
    /\ \A t \in Threads : SessionThread(t)
    /\ \A r \in Runs : SessionRun(r)

(* A task gives the run up.                                                *)
GivesUp(p, r) ==
    /\ th[<<p, r>>].at \in {"end", "setup_failed"}
    /\ th'[<<p, r>>].at = "finish"

RunsKept ==
    \A r \in Runs :
        /\ runs[r].session => runs'[r].session
        /\ runs[r].funded => runs'[r].funded
        /\ GivenUp(r)' => GivenUp(r) \/ \E p \in Procs : GivesUp(p, r)

(* A task persists its createSession.                                      *)
Creates1(p, r) ==
    /\ th[<<p, r>>].at = "create" /\ th'[<<p, r>>].at # "create"
    /\ \A y \in Creates : y # <<"create", p>> => chain'[r].tx[y] = chain[r].tx[y]

TxKept(r, x) ==
    \/ chain'[r].tx[x] = chain[r].tx[x]
    \/ chain[r].tx[x] \notin {"none", "failed"} /\ chain'[r].tx[x] # "none"

ChainKept ==
    \A r \in Runs :
        /\ \/ \A x \in Creates : TxKept(r, x)
           \/ \E p \in Procs : Creates1(p, r)
        /\ chain'[r].sess # "none" =>
            \/ \E x \in Creates : chain'[r].tx[x] = "ok"
            \/ /\ chain[r].sess # "none"
               /\ \A x \in Creates : chain[r].tx[x] = "ok" => chain'[r].tx[x] = "ok"
        /\ "end" \in chain'[r].soft =>
            \/ chain'[r].sess # "none"
            \/ "end" \in chain[r].soft /\ chain'[r].sess = chain[r].sess

ViewKept ==
    \A r \in Runs : \A x \in view'[r].failed \cap Creates :
        x \in view[r].failed \/ chain[r].tx[x] = "failed"

SessionThreadsStep ==
    \A t \in Threads : th'[t] = th[t] \/ SessionThread(t)'

SessionStep == RunsKept /\ ChainKept /\ ViewKept /\ SessionThreadsStep

LEMMA StepKeepsSession ==
    ASSUME IInv, DriverInv, SessionInv, LegalStep, SessionStep
    PROVE  SessionInv'
<1>1. Tasks \subseteq Threads BY DEF Tasks, Threads
<1>2. ASSUME NEW t \in Tasks, th[t].at # "off"
      PROVE  R(t) = t[2] /\ t = <<t[1], t[2]>> /\ t[1] \in Procs /\ t[2] \in Runs
    BY <1>2 DEF DriverInv, Placed, Tasks, R
<1>3. ASSUME NEW t \in Tasks, NEW r \in Runs, NEW p \in Procs, R(t) = r,
             th[t].at \notin {"off", "quiet", "tick"}, Inside(p, r)
      PROVE  t = <<p, r>>
    <2>1. t = <<t[1], r>> /\ t[1] \in Procs BY <1>2, <1>3
    <2>2. Inside(t[1], r) BY <1>3, <2>1 DEF Inside
    <2>3. QED BY <1>3, <2>1, <2>2 DEF DriverInv, OneDriver
<1>4. ASSUME NEW p \in Procs, NEW r \in Runs, Creates1(p, r) \/ GivesUp(p, r)
      PROVE  /\ Inside(p, r) /\ <<p, r>> \in Tasks /\ <<p, r>> \in Threads
             /\ R(<<p, r>>) = r /\ SessionThread(<<p, r>>)
    <2>1. <<p, r>> \in Tasks BY DEF Tasks
    <2>2. th[<<p, r>>].at \in {"create", "end", "setup_failed"}
        BY <1>4 DEF Creates1, GivesUp
    <2>3. QED BY <1>1, <1>2, <2>1, <2>2 DEF Inside, SessionInv
<1>5. ASSUME NEW p \in Procs, NEW r \in Runs, Creates1(p, r)
      PROVE  /\ \A x \in Creates : chain[r].tx[x] = "none"
             /\ \A x \in Creates : chain'[r].tx[x] # "none" => x = <<"create", p>>
             /\ runs[r].session /\ runs[r].funded /\ ~GivenUp(r)
             /\ \A q \in Procs : ~GivesUp(q, r)
    <2>1. th[<<p, r>>].at = "create" BY <1>5 DEF Creates1
    <2>2. SessionThread(<<p, r>>) /\ R(<<p, r>>) = r /\ <<p, r>> \in Tasks /\ Inside(p, r)
        BY <1>4, <1>5
    <2>3. \A x \in Creates : chain[r].tx[x] = "none" BY <2>1, <2>2 DEF SessionThread
    <2>4. \A q \in Procs : ~GivesUp(q, r)
        <3>1. ASSUME NEW q \in Procs, GivesUp(q, r) PROVE FALSE
            <4>1. Inside(q, r) BY <1>4, <3>1
            <4>2. q = p BY <2>2, <4>1 DEF DriverInv, OneDriver
            <4>3. QED BY <2>1, <3>1, <4>2 DEF GivesUp
        <3>2. QED BY <3>1
    <2>5. QED BY <1>5, <2>1, <2>2, <2>3, <2>4 DEF SessionThread, Creates1
<1>6. ASSUME NEW r \in Runs, NoCreate(r), \A p \in Procs : ~Creates1(p, r)
      PROVE  NoCreate(r)'
    BY <1>6 DEF NoCreate, SessionStep, ChainKept, TxKept
<1>7. ASSUME NEW t \in Threads PROVE SessionThread(t)'
    <2>1. CASE SessionThread(t)' BY <2>1
    <2>2. CASE th'[t] = th[t] /\ th[t].at = "off"
        BY <2>2 DEF SessionThread, TaskSteps
    <2>3. CASE th'[t] = th[t] /\ th[t].at # "off"
        <3> DEFINE r == R(t)
        <3>1. r \in Runs /\ r = th[t].run /\ ThreadInv(t) /\ R(t)' = r
            BY <2>3, ThreadFacts DEF R
        <3>2. SessionThread(t) BY DEF SessionInv
        <3>3. ASSUME t \in Tasks, th[t].at \notin {"off", "quiet", "tick"},
                     NEW p \in Procs, Inside(p, r)
              PROVE  t = <<p, r>>
            BY <1>3, <3>1, <3>3
        <3>4. ASSUME t \in Tasks, th[t].at \notin {"off", "quiet", "tick", "finish"},
                     NEW p \in Procs
              PROVE  ~Creates1(p, r) /\ ~GivesUp(p, r)
            <4>1. ASSUME Creates1(p, r) \/ GivesUp(p, r) PROVE FALSE
                <5>1. t = <<p, r>> BY <1>4, <3>1, <3>3, <3>4, <4>1
                <5>2. QED BY <2>3, <3>4, <4>1, <5>1 DEF Creates1, GivesUp
            <4>2. QED BY <4>1
        <3>5. th[t].at = "create" =>
                /\ runs'[r].session /\ runs'[r].funded
                /\ \A x \in Creates : chain'[r].tx[x] = "none"
            <4>1. ASSUME th[t].at = "create"
                  PROVE  /\ runs'[r].session /\ runs'[r].funded
                         /\ \A x \in Creates : chain'[r].tx[x] = "none"
                <5>1. t \in Tasks BY <3>2, <4>1 DEF SessionThread, TaskSteps
                <5>2. \A x \in Creates : TxKept(r, x)
                    BY <3>1, <3>4, <4>1, <5>1 DEF SessionStep, ChainKept
                <5>3. QED BY <3>1, <3>2, <4>1, <5>2
                          DEF SessionThread, SessionStep, RunsKept, TxKept
            <4>2. QED BY <4>1
        <3>6. th[t].at \in {"end", "setup_failed"} => NoCreate(r)'
            <4>1. ASSUME th[t].at \in {"end", "setup_failed"} PROVE NoCreate(r)'
                <5>1. t \in Tasks BY <3>2, <4>1 DEF SessionThread, TaskSteps
                <5>2. QED BY <1>6, <3>1, <3>2, <3>4, <4>1, <5>1 DEF SessionThread
            <4>2. QED BY <4>1
        <3>7. th[t].at = "finish" /\ th[t].given = "recorded" =>
                runs'[r].outcome # "pending"
            BY <3>1, <3>2 DEF SessionThread, ThreadInv, LegalStep, RunsStep
        <3>8. t \in Tasks /\ th[t].at \notin {"off", "quiet", "tick", "finish"} =>
                ~GivenUp(r)'
            BY <3>1, <3>2, <3>4 DEF SessionThread, SessionStep, RunsKept
        <3>9. NoCreate(R(t))' <=> NoCreate(r)' BY <3>1 DEF NoCreate
        <3>10. GivenUp(R(t))' <=> GivenUp(r)' BY <3>1 DEF GivenUp
        <3>11. QED
            BY <2>3, <3>1, <3>2, <3>5, <3>6, <3>7, <3>8, <3>9, <3>10 DEF SessionThread
    <2>4. QED BY <2>1, <2>2, <2>3 DEF SessionStep, SessionThreadsStep
<1>8. ASSUME NEW r \in Runs PROVE SessionRun(r)'
    <2>1. SessionRun(r) BY DEF SessionInv
    <2>2. CASE \E p \in Procs : Creates1(p, r)
        <3>1. PICK p \in Procs : Creates1(p, r) BY <2>2
        <3>2. ~GivenUp(r)' BY <1>5, <3>1 DEF SessionStep, RunsKept
        <3>3. chain'[r].sess # "none" => \E x \in Creates : chain'[r].tx[x] = "ok"
            BY <1>5, <2>1, <3>1 DEF SessionStep, ChainKept, SessionRun
        <3>4. \A x \in view'[r].failed \cap Creates : chain'[r].tx[x] = "failed"
            BY <1>5, <2>1, <3>1 DEF SessionStep, ViewKept, SessionRun
        <3>5. runs'[r].session /\ runs'[r].funded
            BY <1>5, <3>1 DEF SessionStep, RunsKept
        <3>6. "end" \in chain'[r].soft => chain'[r].sess # "none"
            BY <2>1 DEF SessionStep, ChainKept, SessionRun
        <3>7. QED BY <1>5, <3>1, <3>2, <3>3, <3>4, <3>5, <3>6 DEF SessionRun
    <2>3. CASE \A p \in Procs : ~Creates1(p, r)
        <3>1. \A x \in Creates : TxKept(r, x) BY <2>3 DEF SessionStep, ChainKept
        <3>2. GivenUp(r)' => NoCreate(r)'
            <4>1. ASSUME GivenUp(r)' PROVE NoCreate(r)
                <5>1. CASE GivenUp(r) BY <2>1, <5>1 DEF SessionRun
                <5>2. ASSUME NEW p \in Procs, GivesUp(p, r) PROVE NoCreate(r)
                    BY <1>4, <5>2 DEF SessionThread, GivesUp
                <5>3. QED BY <4>1, <5>1, <5>2 DEF SessionStep, RunsKept
            <4>2. QED BY <1>6, <2>3, <4>1
        <3>3. chain'[r].sess # "none" => \E x \in Creates : chain'[r].tx[x] = "ok"
            BY <2>1 DEF SessionStep, ChainKept, SessionRun
        <3>4. \A x \in view'[r].failed \cap Creates : chain'[r].tx[x] = "failed"
            BY <2>1, <3>1 DEF SessionStep, ViewKept, SessionRun, TxKept
        <3>5. \A x \in Creates : chain'[r].tx[x] # "none" =>
                runs'[r].session /\ runs'[r].funded
            BY <2>1, <3>1 DEF SessionStep, RunsKept, SessionRun, TxKept
        <3>6. \A x, y \in Creates :
                chain'[r].tx[x] # "none" /\ chain'[r].tx[y] # "none" => x = y
            BY <2>1, <3>1 DEF SessionRun, TxKept
        <3>7. "end" \in chain'[r].soft => chain'[r].sess # "none"
            BY <2>1 DEF SessionStep, ChainKept, SessionRun
        <3>8. QED BY <3>2, <3>3, <3>4, <3>5, <3>6, <3>7 DEF SessionRun
    <2>4. QED BY <2>2, <2>3
<1>9. QED BY <1>7, <1>8 DEF SessionInv

-----------------------------------------------------------------------------
(* What the helpers of the specification do to a session *)

LEMMA RunReplaced ==
    ASSUME IInv, NEW r \in Runs, NEW row, runs' = [runs EXCEPT ![r] = row],
           runs[r].session => row.session, runs[r].funded => row.funded,
           row.state = "failed_setup" /\ row.outcome = "pending" =>
                GivenUp(r) \/ \E p \in Procs : GivesUp(p, r)
    PROVE  RunsKept
<1>1. runs'[r] = row /\ \A q \in Runs : q # r => runs'[q] = runs[q]
    BY DEF IInv, TypeInv
<1>2. QED BY <1>1 DEF RunsKept, GivenUp

LEMMA RunsSame == ASSUME UNCHANGED runs PROVE RunsKept
BY DEF RunsKept, GivenUp

LEMMA MoveKept ==
    ASSUME IInv, NEW r \in Runs, NEW s, NEW c, MoveFor(r, s, c), s # "failed_setup"
    PROVE  RunsKept
<1> DEFINE row == Moved(runs[r], s, c)
<1>1. runs' = [runs EXCEPT ![r] = row] BY DEF MoveFor
<1>2. runs[r] \in RunRow BY DEF IInv, TypeInv
<1>3. row.state = s /\ row.session = runs[r].session /\ row.funded = runs[r].funded
    BY <1>2 DEF Moved, RunRow
<1> HIDE DEF row
<1>4. QED BY <1>1, <1>3, RunReplaced

LEMMA RecoverKept == ASSUME IInv, NEW r \in Runs, Recover(r) PROVE RunsKept
<1>1. CASE runs[r].state \in Active
    <2>1. MoveFor(r, "recovery_required", "other")
        BY <1>1 DEF Recover, Recovering, MoveFor
    <2>2. QED BY <2>1, MoveKept
<1>2. CASE runs[r].state \notin Active
    <2>1. runs' = [runs EXCEPT ![r] = runs[r]] BY <1>2 DEF Recover, Recovering
    <2>2. QED BY <2>1, RunReplaced DEF GivenUp
<1>3. QED BY <1>1, <1>2

LEMMA EndingFields ==
    ASSUME NEW run \in RunRow, NEW c
    PROVE  LET row == Ending(run, c) IN
           /\ row.state = run.state /\ row.outcome = run.outcome
           /\ row.session = run.session /\ row.funded = run.funded
BY DEF Ending, RunRow

LEMMA TerminationKept ==
    ASSUME IInv, NEW r \in Runs, NEW c, RequestTermination(r, c)
    PROVE  RunsKept
<1>1. runs[r] \in RunRow BY DEF IInv, TypeInv
<1> DEFINE row == Ending(runs[r], c)
<1>2. runs' = [runs EXCEPT ![r] = row] BY DEF RequestTermination
<1>3. /\ row.state = runs[r].state /\ row.outcome = runs[r].outcome
      /\ row.session = runs[r].session /\ row.funded = runs[r].funded
    BY <1>1, EndingFields
<1> HIDE DEF row
<1>4. QED BY <1>2, <1>3, RunReplaced DEF GivenUp

LEMMA FinishTurnKept ==
    ASSUME IInv, NEW r \in Runs, NEW c \in Terminations, FinishTurn(r, c)
    PROVE  RunsKept
<1>1. runs[r] \in RunRow BY DEF IInv, TypeInv
<1> DEFINE ended == IF c = "none" THEN runs[r] ELSE Ending(runs[r], c)
           row == [ended EXCEPT !.turn = "none"]
<1>2. runs' = [runs EXCEPT ![r] = row] BY DEF FinishTurn
<1>3. ended \in RunRow BY <1>1 DEF Ending, RunRow
<1>4. /\ ended.state = runs[r].state /\ ended.outcome = runs[r].outcome
      /\ ended.session = runs[r].session /\ ended.funded = runs[r].funded
    BY <1>1, EndingFields
<1>5. /\ row.state = runs[r].state /\ row.outcome = runs[r].outcome
      /\ row.session = runs[r].session /\ row.funded = runs[r].funded
    <2> HIDE DEF ended
    <2>1. QED BY <1>3, <1>4 DEF RunRow
<1> HIDE DEF row
<1>6. QED BY <1>2, <1>5, RunReplaced DEF GivenUp

LEMMA FailsKept ==
    ASSUME IInv, NEW t, R(t) \in Runs, Fails(t) \/ Outage(t) \/ AgentUnavailable(t)
    PROVE  RunsKept
BY RunsSame, RecoverKept, MoveKept DEF Fails, Outage, AgentUnavailable, Move

LEMMA ChainSame == ASSUME UNCHANGED chain PROVE ChainKept
BY DEF ChainKept, TxKept

LEMMA ViewSame == ASSUME UNCHANGED view PROVE ViewKept
BY DEF ViewKept

RowKept(r, c) ==
    /\ \A x \in Creates :
          \/ c.tx[x] = chain[r].tx[x]
          \/ chain[r].tx[x] \notin {"none", "failed"} /\ c.tx[x] # "none"
    /\ c.sess # "none" =>
          \/ \E x \in Creates : c.tx[x] = "ok"
          \/ /\ chain[r].sess # "none"
             /\ \A x \in Creates : chain[r].tx[x] = "ok" => c.tx[x] = "ok"
    /\ "end" \in c.soft =>
          \/ c.sess # "none"
          \/ "end" \in chain[r].soft /\ c.sess = chain[r].sess

LEMMA ChainReplaced ==
    ASSUME IInv, NEW r \in Runs, NEW c, chain' = [chain EXCEPT ![r] = c],
           RowKept(r, c)
    PROVE  ChainKept
<1>1. chain'[r] = c /\ \A q \in Runs : q # r => chain'[q] = chain[q]
    BY DEF IInv, TypeInv
<1>2. QED BY <1>1 DEF ChainKept, TxKept, RowKept

TxsKept(r, f) ==
    \A x \in Creates :
        \/ f[x] = chain[r].tx[x]
        \/ chain[r].tx[x] \in {"new", "saved", "pool"} /\ f[x] # "none"

LEMMA TxReplaced ==
    ASSUME IInv, NEW r \in Runs, NEW f,
           chain' = [chain EXCEPT ![r].tx = f], TxsKept(r, f)
    PROVE  ChainKept
<1> DEFINE c == [chain[r] EXCEPT !.tx = f]
<1>1. chain[r] \in ChainRow BY DEF IInv, TypeInv
<1>2. c.tx = f /\ c.sess = chain[r].sess /\ c.soft = chain[r].soft BY <1>1 DEF ChainRow
<1>3. chain' = [chain EXCEPT ![r] = c] OBVIOUS
<1> HIDE DEF c
<1>4. RowKept(r, c) BY <1>2 DEF RowKept, TxsKept
<1>5. QED BY <1>3, <1>4, ChainReplaced

LEMMA CreateIsTx == Creates \subseteq TxIds /\ Creates \cap Actions = {}
BY DEF Creates, TxIds, TxKinds, Actions

LEMMA SentAgainKept ==
    ASSUME IInv, NEW r \in Runs, chain' = SentAgain(r) \/ RefusedAgain(r)
    PROVE  ChainKept
<1>1. CASE chain' = SentAgain(r)
    <2> DEFINE f == [x \in TxIds |-> IF x \in Unsent(r) THEN "pool" ELSE chain[r].tx[x]]
    <2>1. chain' = [chain EXCEPT ![r].tx = f] BY <1>1 DEF SentAgain
    <2>2. TxsKept(r, f) BY CreateIsTx DEF Unsent, TxsKept
    <2> HIDE DEF f
    <2>3. QED BY <2>1, <2>2, TxReplaced
<1>2. CASE RefusedAgain(r)
    <2>1. PICK refused \in SUBSET Unsent(r) :
            chain' = [chain EXCEPT ![r].tx =
                [x \in TxIds |-> IF x \in refused THEN "saved" ELSE @[x]]]
        BY <1>2 DEF RefusedAgain
    <2> DEFINE f == [x \in TxIds |-> IF x \in refused THEN "saved" ELSE chain[r].tx[x]]
    <2>2. chain' = [chain EXCEPT ![r].tx = f] BY <2>1
    <2>3. TxsKept(r, f) BY CreateIsTx DEF Unsent, TxsKept
    <2> HIDE DEF f
    <2>4. QED BY <2>2, <2>3, TxReplaced
<1>3. QED BY <1>1, <1>2

LEMMA ForgetKept ==
    ASSUME IInv, NEW r \in Runs, ForgetAction(r)
    PROVE  ChainKept /\ ViewKept
<1>1. chain \in [Runs -> ChainRow] /\ view \in [Runs -> ViewRow] BY DEF IInv, TypeInv
<1> DEFINE f == [x \in TxIds |-> IF x \in Actions THEN "none" ELSE chain[r].tx[x]]
           c == [chain[r] EXCEPT !.tx = f, !.soft = @ \ {"act"}]
<1>2. chain' = [chain EXCEPT ![r] = c] BY DEF ForgetAction
<1>3. \A x \in Creates : f[x] = chain[r].tx[x] BY CreateIsTx
<1>4. c.tx = f /\ c.sess = chain[r].sess /\ c.soft = chain[r].soft \ {"act"}
    <2> HIDE DEF f
    <2>1. QED BY <1>1 DEF ChainRow
<1>5. ChainKept
    <2> HIDE DEF c, f
    <2>1. RowKept(r, c) BY <1>3, <1>4 DEF RowKept
    <2>2. QED BY <1>2, <2>1, ChainReplaced
<1>6. \A q \in Runs : view'[q].failed \subseteq view[q].failed
    BY <1>1 DEF ForgetAction, ViewRow
<1>7. QED BY <1>5, <1>6 DEF ViewKept

LEMMA PolledKept ==
    ASSUME IInv, NEW r \in Runs, Polled(r)
    PROVE  RunsKept /\ ChainKept /\ ViewKept
<1>1. CASE ~Watched(r) BY <1>1, RunsSame, ChainSame, ViewSame DEF Polled
<1>2. CASE Watched(r)
    <2>1. runs[r] \in RunRow /\ chain[r] \in ChainRow /\ view \in [Runs -> ViewRow]
        BY DEF IInv, TypeInv
    <2> DEFINE row == [runs[r] EXCEPT !.reorg = @ \/ chain[r].forked]
               c == [chain[r] EXCEPT !.forked = FALSE]
               failed == {x \in TxIds : chain[r].tx[x] = "failed"}
    <2>2. runs' = [runs EXCEPT ![r] = row] /\ chain' = [chain EXCEPT ![r] = c]
        BY <1>2 DEF Polled
    <2>3. /\ row.state = runs[r].state /\ row.outcome = runs[r].outcome
          /\ row.session = runs[r].session /\ row.funded = runs[r].funded
        BY <2>1 DEF RunRow
    <2>4. c.tx = chain[r].tx /\ c.sess = chain[r].sess /\ c.soft = chain[r].soft
        BY <2>1 DEF ChainRow
    <2>5. view'[r].failed = failed /\ \A q \in Runs : q # r => view'[q] = view[q]
        BY <1>2, <2>1 DEF Polled
    <2>6. ViewKept BY <2>5 DEF ViewKept
    <2> HIDE DEF row, c
    <2>7. RunsKept BY <2>2, <2>3, RunReplaced DEF GivenUp
    <2>8. RowKept(r, c) BY <2>4 DEF RowKept
    <2>9. ChainKept BY <2>2, <2>8, ChainReplaced
    <2>10. QED BY <2>6, <2>7, <2>9
<1>3. QED BY <1>1, <1>2

LEMMA TxOneKept ==
    ASSUME IInv, NEW r \in Runs, NEW x \in TxIds, NEW v,
           chain' = [chain EXCEPT ![r].tx[x] = v],
           \/ x \notin Creates
           \/ v = chain[r].tx[x]
           \/ chain[r].tx[x] \in {"new", "saved", "pool"} /\ v # "none"
    PROVE  ChainKept
<1> DEFINE f == [chain[r].tx EXCEPT ![x] = v]
<1>1. chain[r].tx \in [TxIds -> Tx] BY DEF IInv, TypeInv, ChainRow
<1>2. \A y \in TxIds : f[y] = IF y = x THEN v ELSE chain[r].tx[y] BY <1>1
<1>3. chain' = [chain EXCEPT ![r].tx = f] OBVIOUS
<1> HIDE DEF f
<1>4. TxsKept(r, f) BY <1>2, CreateIsTx DEF TxsKept
<1>5. QED BY <1>3, <1>4, TxReplaced

(* Only thread t moves, and neither persists a createSession nor gives up. *)
Goes(t) ==
    \E x : /\ th' = [th EXCEPT ![t] = x]
           /\ \/ x.at = "off"
              \/ /\ x.run = th[t].run /\ (x.at \in TaskSteps => IsTask(t))
                 /\ x.at \notin {"create", "end", "setup_failed", "finish"}

LEMMA TaskIsOne == ASSUME NEW t \in Threads PROVE IsTask(t) <=> t \in Tasks
BY RunControlAssumption DEF Threads, Tasks, IsTask

LEMMA GoesIsStep ==
    ASSUME IInv, DriverInv, SessionInv, NEW t \in Threads,
           th[t].at \notin {"off", "quiet", "tick", "finish"}, Goes(t), RunsKept
    PROVE  SessionThreadsStep
<1>1. PICK x :
        /\ th' = [th EXCEPT ![t] = x]
        /\ \/ x.at = "off"
           \/ /\ x.run = th[t].run /\ (x.at \in TaskSteps => IsTask(t))
              /\ x.at \notin {"create", "end", "setup_failed", "finish"}
    BY DEF Goes
<1>2. th'[t] = x /\ \A u \in Threads : u # t => th'[u] = th[u]
    BY <1>1 DEF IInv, TypeInv
<1>3. SessionThread(t)'
    <2>1. CASE x.at = "off" BY <1>2, <2>1 DEF SessionThread, TaskSteps
    <2>2. CASE x.at # "off"
        <3>1. R(t) \in Runs /\ R(t)' = R(t) BY <1>1, <1>2, <2>2, ThreadFacts DEF R
        <3>2. ASSUME t \in Tasks PROVE ~GivenUp(R(t))'
            <4>1. SessionThread(t) BY DEF SessionInv
            <4>2. ~GivenUp(R(t)) BY <3>2, <4>1 DEF SessionThread
            <4>3. ASSUME NEW p \in Procs, GivesUp(p, R(t)) PROVE FALSE
                <5>1. <<p, R(t)>> \in Threads BY <3>1 DEF Threads
                <5>2. QED BY <1>1, <1>2, <2>2, <4>3, <5>1 DEF GivesUp
            <4>4. QED BY <3>1, <4>2, <4>3 DEF RunsKept, GivenUp
        <3>3. QED BY <1>1, <1>2, <2>2, <3>1, <3>2, TaskIsOne DEF SessionThread
    <2>3. QED BY <2>1, <2>2
<1>4. QED BY <1>2, <1>3 DEF SessionThreadsStep

LEMMA SchedulesIsStep ==
    ASSUME IInv, NEW t \in Threads, R(t) \in Runs, ScheduleAndLeave(t)
    PROVE  SessionThreadsStep
<1> DEFINE threads == [th EXCEPT ![t] = Off]
           task == <<Proc(t), R(t)>>
<1>1. th \in [Threads -> Thread] BY DEF IInv, TypeInv
<1>2. \A u \in Threads : threads[u] = th[u] \/ threads[u].at = "off"
    BY <1>1 DEF Off
<1>3. DOMAIN threads = Threads BY <1>1
<1>4. th' = IF threads[task].at = "off"
            THEN [threads EXCEPT ![task] = Task(R(t), "quiet")] ELSE threads
    BY DEF ScheduleAndLeave, Scheduled
<1>5. \A u \in Threads :
        \/ th'[u] = threads[u]
        \/ u = task /\ th'[u] = Task(R(t), "quiet")
    <2> HIDE DEF threads, task
    <2>1. QED BY <1>3, <1>4
<1>6. \A u \in Threads :
        \/ th'[u] = th[u] \/ th'[u].at = "off"
        \/ u = task /\ th'[u] = Task(R(t), "quiet")
    <2> HIDE DEF threads, task
    <2>1. QED BY <1>2, <1>5
<1>7. Task(R(t), "quiet").at = "quiet" BY DEF Task, Off
<1>8. task \in Tasks BY RunControlAssumption DEF Threads, Tasks, Proc
<1>9. QED BY <1>6, <1>7, <1>8 DEF SessionThreadsStep, SessionThread, TaskSteps

LEMMA BeginsIsStep ==
    ASSUME IInv, NEW t \in Threads \ Tasks, NEW x, th' = [th EXCEPT ![t] = x],
           x.at \notin TaskSteps \cup {"finish"}
    PROVE  SessionThreadsStep
<1>1. th'[t] = x /\ \A u \in Threads : u # t => th'[u] = th[u] BY DEF IInv, TypeInv
<1>2. SessionThread(t)' BY <1>1 DEF SessionThread, TaskSteps
<1>3. QED BY <1>1, <1>2 DEF SessionThreadsStep

LEMMA ThreadsSame == ASSUME UNCHANGED th PROVE SessionThreadsStep
BY DEF SessionThreadsStep

Marks == {"create", "end", "setup_failed", "finish"}

LEMMA GoesBy ==
    ASSUME NEW t, NEW x, th' = [th EXCEPT ![t] = x],
           x.at = "off" \/ x.run = th[t].run,
           x.at \in TaskSteps => IsTask(t), x.at \notin Marks
    PROVE  Goes(t)
BY DEF Goes, Marks

LEMMA GotoGoes ==
    ASSUME IInv, NEW t \in Threads, NEW s \in Steps \ Marks, Goto(t, s),
           s \in TaskSteps => IsTask(t)
    PROVE Goes(t)
<1> DEFINE x == [th[t] EXCEPT !.at = s]
<1>1. th[t] \in Thread BY DEF IInv, TypeInv
<1>2. x.at = s /\ x.run = th[t].run BY <1>1 DEF Thread
<1>3. th' = [th EXCEPT ![t] = x] BY DEF Goto
<1>4. QED BY <1>2, <1>3, GoesBy

LEMMA ContinueGoes ==
    ASSUME NEW t, NEW s \in Steps \ Marks, Continue(t, s), IsTask(t)
    PROVE Goes(t)
<1>1. Task(R(t), s).run = th[t].run /\ Task(R(t), s).at = s BY DEF Task, Off, R
<1>2. th' = [th EXCEPT ![t] = Task(R(t), s)] BY DEF Continue
<1>3. QED BY <1>1, <1>2, GoesBy

LEMMA LeaveGoes == ASSUME NEW t, Leave(t) PROVE Goes(t)
<1>1. Off.at = "off" /\ Off.at \notin TaskSteps /\ Off.at \notin Marks
    BY DEF Off, TaskSteps, Marks
<1>2. QED BY <1>1, GoesBy DEF Leave

LEMMA AgainGoes == ASSUME NEW t, Again(t) \/ Idle(t), IsTask(t) PROVE Goes(t)
BY ContinueGoes DEF Again, Idle, Steps, Marks

LEMMA FailsGoes ==
    ASSUME NEW t, Fails(t) \/ Outage(t) \/ (AgentUnavailable(t) /\ IsTask(t))
    PROVE  Goes(t)
BY AgainGoes, LeaveGoes DEF Fails, Outage, AgentUnavailable

LEMMA ActingGoes ==
    ASSUME NEW t, NEW run, th' = [th EXCEPT ![t] = Acting(R(t), run)], IsTask(t)
    PROVE  Goes(t)
BY ZenonT(60), ActingFields, GoesBy DEF R, Marks

LEMMA SyncedGoes == ASSUME IInv, NEW t \in Threads, NEW run, Synced(t, run) PROVE Goes(t)
<1>1. CASE ~IsTask(t)
    <2>1. Goto(t, "recover") BY <1>1 DEF Synced, Goto
    <2>2. QED BY <2>1, GotoGoes DEF Steps, Marks, TaskSteps
<1>2. CASE IsTask(t) /\ Refused(R(t)) # {}
    <2>1. Continue(t, "resend") BY <1>2 DEF Synced, Continue
    <2>2. QED BY <1>2, <2>1, ContinueGoes DEF Steps, Marks
<1>3. CASE IsTask(t) /\ Refused(R(t)) = {}
    <2>1. th' = [th EXCEPT ![t] = Acting(R(t), run)] BY <1>3 DEF Synced
    <2>2. QED BY <1>3, <2>1, ActingGoes
<1>4. QED BY <1>1, <1>2, <1>3

LEMMA AtTask ==
    ASSUME SessionInv, NEW t \in Threads, th[t].at \in TaskSteps
    PROVE  IsTask(t) /\ t \in Tasks
BY TaskIsOne DEF SessionInv, SessionThread

LEMMA GoesSession ==
    ASSUME IInv, DriverInv, SessionInv, NEW t \in Threads,
           NEW s \in Steps \ {"off", "quiet", "tick", "finish"}, At(t, s),
           Goes(t) \/ ScheduleAndLeave(t), RunsKept, ChainKept, ViewKept
    PROVE  SessionStep
<1>1. th[t].at \notin {"off", "quiet", "tick", "finish"} BY DEF At
<1>2. R(t) \in Runs BY <1>1, ThreadFacts
<1>3. SessionThreadsStep BY <1>1, <1>2, GoesIsStep, SchedulesIsStep
<1>4. QED BY <1>3 DEF SessionStep

LEMMA AtRun ==
    ASSUME IInv, NEW t \in Threads, NEW s, s # "off", At(t, s)
    PROVE  R(t) \in Runs /\ th[t].at = s /\ Proc(t) \in Procs
BY ThreadFacts DEF At

-----------------------------------------------------------------------------
(* Every step keeps a session's facts *)

LEMMA RequestSession ==
    ASSUME IInv, DriverInv, SessionInv, NEW t \in Threads, Request(t)
    PROVE  SessionStep
<1>1. PICK r \in Runs : \/ \E mode \in {"start", "step"} : Start(t, r, mode)
                        \/ Step(t, r) \/ Resume(t, r) \/ Abort(t, r)
    BY DEF Request
<1>2. Free(t) BY <1>1 DEF Start, Step, Resume, Abort
<1>3. t \in Threads \ Tasks BY <1>2, RunControlAssumption DEF Free, Tasks, Proc
<1>4. \E s \in {"hold", "step", "reconcile", "abort"} : \E g : Begin(t, r, s, g)
    BY <1>1 DEF Start, Step, Resume, Abort
<1>5. UNCHANGED <<runs, chain, view>> BY <1>1 DEF Start, Step, Resume, Abort
<1>6. ASSUME NEW s \in {"hold", "step", "reconcile", "abort"}, NEW g, Begin(t, r, s, g)
      PROVE  SessionThreadsStep
    <2> DEFINE x == [Off EXCEPT !.at = s, !.run = r, !.given = g]
    <2>1. th' = [th EXCEPT ![t] = x] BY <1>6 DEF Begin
    <2>2. x.at \notin TaskSteps \cup {"finish"} BY DEF Off, TaskSteps
    <2>3. QED BY <1>3, <2>1, <2>2, BeginsIsStep
<1>7. QED BY <1>4, <1>5, <1>6, RunsSame, ChainSame, ViewSame DEF SessionStep

LEMMA ServeSession ==
    ASSUME IInv, DriverInv, SessionInv, NEW t \in Threads, Serve(t)
    PROVE  SessionStep
<1>1. CASE HoldToPrepare(t)
    <2>1. Goes(t) BY <1>1, GotoGoes, LeaveGoes DEF HoldToPrepare, Steps, Marks, TaskSteps
    <2>2. QED
        BY <1>1, <2>1, GoesSession, RunsSame, ChainSame, ViewSame
           DEF HoldToPrepare, Steps
<1>2. CASE Prepare(t)
    <2>1. Goes(t) \/ ScheduleAndLeave(t) BY <1>2, LeaveGoes DEF Prepare
    <2>2. RunsKept BY <1>2, AtRun, RunsSame, MoveKept DEF Prepare
    <2>3. QED BY <1>2, <2>1, <2>2, GoesSession, ChainSame, ViewSame DEF Prepare, Steps
<1>3. CASE BeginStep(t)
    <2>1. Goes(t) \/ ScheduleAndLeave(t) BY <1>3, LeaveGoes DEF BeginStep
    <2>2. RunsKept BY <1>3, AtRun, RunsSame, MoveKept DEF BeginStep
    <2>3. QED BY <1>3, <2>1, <2>2, GoesSession, ChainSame, ViewSame DEF BeginStep, Steps
<1>4. CASE Resumed(t)
    <2>1. Goes(t) \/ ScheduleAndLeave(t) BY <1>4, LeaveGoes DEF Resumed
    <2>2. RunsKept BY <1>4, AtRun, RunsSame, MoveKept DEF Resumed, Move
    <2>3. QED BY <1>4, <2>1, <2>2, GoesSession, ChainSame, ViewSame DEF Resumed, Steps
<1>5. CASE Recovered(t)
    <2>1. Goes(t) \/ ScheduleAndLeave(t) BY <1>5, LeaveGoes DEF Recovered
    <2>2. RunsKept BY <1>5, AtRun, RunsSame, MoveKept DEF Recovered, Move
    <2>3. QED BY <1>5, <2>1, <2>2, GoesSession, ChainSame, ViewSame DEF Recovered, Steps
<1>6. CASE Aborted(t)
    <2>1. RunsKept BY <1>6, AtRun, TerminationKept DEF Aborted
    <2>2. QED BY <1>6, <2>1, GoesSession, ChainSame, ViewSame DEF Aborted, Steps
<1>7. CASE TakeOver(t)
    <2>1. Goes(t) \/ ScheduleAndLeave(t)
        BY <1>7, GotoGoes DEF TakeOver, Steps, Marks, TaskSteps
    <2>2. QED
        BY <1>7, <2>1, GoesSession, RunsSame, ChainSame, ViewSame DEF TakeOver, Steps
<1>8. QED BY <1>1, <1>2, <1>3, <1>4, <1>5, <1>6, <1>7 DEF Serve

LEMMA ReconcileSession ==
    ASSUME IInv, DriverInv, SessionInv, NEW t \in Threads, Reconcile(t)
    PROVE  SessionStep
<1>1. Goes(t) \/ ScheduleAndLeave(t)
    BY GotoGoes, LeaveGoes DEF Reconcile, Steps, Marks, TaskSteps
<1>2. R(t) \in Runs BY AtRun DEF Reconcile
<1>3. RunsKept BY <1>2, RunsSame, RecoverKept DEF Reconcile
<1>4. ChainKept BY <1>2, SentAgainKept DEF Reconcile
<1>5. QED BY <1>1, <1>3, <1>4, GoesSession, ViewSame DEF Reconcile, Steps

LEMMA PollSession ==
    ASSUME IInv, DriverInv, SessionInv, NEW t \in Threads, Poll(t)
    PROVE  SessionStep
<1>1. Goes(t)
    BY GotoGoes, FailsGoes, SyncedGoes DEF Poll, Steps, Marks, TaskSteps
<1>2. R(t) \in Runs BY AtRun DEF Poll
<1>3. RunsKept /\ ChainKept /\ ViewKept
    BY <1>2, PolledKept, FailsKept, RecoverKept, ChainSame, ViewSame DEF Poll
<1>4. QED BY <1>1, <1>3, GoesSession DEF Poll, Steps

LEMMA ReportSession ==
    ASSUME IInv, DriverInv, SessionInv, NEW t \in Threads, Report(t)
    PROVE  SessionStep
<1>1. R(t) \in Runs /\ th[t] \in Thread BY AtRun DEF Report, IInv, TypeInv
<1>2. ASSUME NEW s \in {"pause_for_reorg", "outcome"}, NEW g,
             th' = [th EXCEPT ![t].at = s, ![t].given = g]
      PROVE  Goes(t)
    <2> DEFINE x == [th[t] EXCEPT !.at = s, !.given = g]
    <2>1. x.run = th[t].run /\ x.at = s BY <1>1 DEF Thread
    <2>2. th' = [th EXCEPT ![t] = x] BY <1>2
    <2>3. QED BY <2>1, <2>2, GoesBy DEF TaskSteps, Marks
<1>3. Goes(t) BY <1>2, SyncedGoes DEF Report
<1>4. ASSUME runs' = [runs EXCEPT ![R(t)].turn = "none"] PROVE RunsKept
    <2> DEFINE row == [runs[R(t)] EXCEPT !.turn = "none"]
    <2>1. runs[R(t)] \in RunRow BY <1>1 DEF IInv, TypeInv
    <2>2. /\ row.state = runs[R(t)].state /\ row.outcome = runs[R(t)].outcome
          /\ row.session = runs[R(t)].session /\ row.funded = runs[R(t)].funded
        BY <2>1 DEF RunRow
    <2>3. runs' = [runs EXCEPT ![R(t)] = row] BY <1>4
    <2> HIDE DEF row
    <2>4. QED BY <1>1, <2>2, <2>3, RunReplaced DEF GivenUp
<1>5. RunsKept /\ ChainKept /\ ViewKept
    BY <1>1, <1>4, RunsSame, RecoverKept, ForgetKept, ChainSame, ViewSame DEF Report
<1>6. QED BY <1>3, <1>5, GoesSession DEF Report, Steps

LEMMA PauseForReorgSession ==
    ASSUME IInv, DriverInv, SessionInv, NEW t \in Threads, PauseForReorg(t)
    PROVE  SessionStep
<1>1. R(t) \in Runs BY AtRun DEF PauseForReorg
<1>2. CASE runs[R(t)].state = th[t].given
    <2> DEFINE target == IF th[t].given = "preparing" THEN "preparing" ELSE "paused"
               row == [Moved(runs[R(t)], target, "other") EXCEPT !.reorg = FALSE]
               x == [Task(R(t), "reconcile") EXCEPT !.given = "reorg"]
    <2>1. runs' = [runs EXCEPT ![R(t)] = row] /\ th' = [th EXCEPT ![t] = x]
        BY <1>2 DEF PauseForReorg
    <2>2. runs[R(t)] \in RunRow BY <1>1 DEF IInv, TypeInv
    <2>3. row.state = target /\ row.session = runs[R(t)].session
          /\ row.funded = runs[R(t)].funded
        BY <2>2 DEF Moved, RunRow
    <2>4. x.run = th[t].run /\ x.at = "reconcile" BY DEF Task, Off, R
    <2>5. target # "failed_setup" OBVIOUS
    <2> HIDE DEF target, row, x
    <2>6. RunsKept BY <1>1, <2>1, <2>3, <2>5, RunReplaced
    <2>7. Goes(t) BY <2>1, <2>4, GoesBy DEF TaskSteps, Marks
    <2>8. QED BY <2>6, <2>7, GoesSession, ChainSame, ViewSame DEF PauseForReorg, Steps
<1>3. CASE Fails(t)
    BY <1>1, <1>3, FailsKept, FailsGoes, GoesSession, ChainSame, ViewSame
       DEF PauseForReorg, Steps
<1>4. QED BY <1>2, <1>3 DEF PauseForReorg

(* The recorded outcome is an ending: the run is not given up.             *)
LEMMA RecordTerminalSession ==
    ASSUME IInv, DriverInv, SessionInv, NEW t \in Threads, RecordTerminal(t)
    PROVE  SessionStep
<1>1. R(t) \in Runs /\ th[t].at = "outcome" BY AtRun DEF RecordTerminal
<1>2. CASE Synced(t, runs[R(t)]) /\ UNCHANGED runs
    BY <1>2, SyncedGoes, RunsSame, GoesSession, ChainSame, ViewSame
       DEF RecordTerminal, Steps
<1>3. CASE Fails(t)
    BY <1>1, <1>3, FailsKept, FailsGoes, GoesSession, ChainSame, ViewSame
       DEF RecordTerminal, Steps
<1>4. CASE /\ runs' = [runs EXCEPT ![R(t)] =
                [Moved(@, th[t].given, "other") EXCEPT !.outcome = view[R(t)].sess]]
           /\ th' = [th EXCEPT ![t].at = "finish", ![t].given = "recorded"]
    <2> DEFINE row == [Moved(runs[R(t)], th[t].given, "other")
                            EXCEPT !.outcome = view[R(t)].sess]
               x == [th[t] EXCEPT !.at = "finish", !.given = "recorded"]
    <2>1. runs' = [runs EXCEPT ![R(t)] = row] /\ th' = [th EXCEPT ![t] = x]
        BY <1>4
    <2>2. runs[R(t)] \in RunRow /\ th[t] \in Thread /\ runs \in [Runs -> RunRow]
          /\ th \in [Threads -> Thread]
        BY <1>1 DEF IInv, TypeInv
    <2>3. row.outcome = view[R(t)].sess /\ row.session = runs[R(t)].session
          /\ row.funded = runs[R(t)].funded
        BY <2>2 DEF Moved, RunRow
    <2>4. x.run = th[t].run /\ x.at = "finish" /\ x.given = "recorded"
        BY <2>2 DEF Thread
    <2>5. view[R(t)].sess \in Endings
        BY <1>1, ThreadFacts DEF ThreadInv, Final, R
    <2>6. row.outcome # "pending" BY <2>3, <2>5 DEF Endings
    <2> HIDE DEF row, x
    <2>7. RunsKept BY <1>1, <2>1, <2>3, <2>6, RunReplaced
    <2>8. th'[t] = x /\ runs'[R(t)] = row
          /\ \A u \in Threads : u # t => th'[u] = th[u]
        BY <1>1, <2>1, <2>2
    <2>9. R(t)' = R(t) BY <2>4, <2>8 DEF R
    <2>10. SessionThread(t)' BY <2>4, <2>6, <2>8, <2>9 DEF SessionThread, TaskSteps
    <2>11. SessionThreadsStep BY <2>8, <2>10 DEF SessionThreadsStep
    <2>12. QED BY <2>7, <2>11, ChainSame, ViewSame DEF RecordTerminal, SessionStep
<1>5. QED BY <1>2, <1>3, <1>4 DEF RecordTerminal

LEMMA FinishSession ==
    ASSUME IInv, DriverInv, SessionInv, NEW t \in Threads, Finish(t)
    PROVE  SessionStep
<1>1. R(t) \in Runs /\ th[t].at = "finish" BY AtRun DEF Finish
<1>2. UNCHANGED <<runs, view, chain>> BY DEF Finish
<1>3. CASE th[t].given = "recorded"
    <2>1. ~GivenUp(R(t)) BY <1>1, <1>3 DEF SessionInv, SessionThread, GivenUp
    <2>2. Goes(t) BY <1>3, SyncedGoes DEF Finish
    <2>3. PICK x :
            /\ th' = [th EXCEPT ![t] = x]
            /\ \/ x.at = "off"
               \/ /\ x.run = th[t].run /\ (x.at \in TaskSteps => IsTask(t))
                  /\ x.at \notin {"create", "end", "setup_failed", "finish"}
        BY <2>2 DEF Goes
    <2>4. th'[t] = x /\ \A u \in Threads : u # t => th'[u] = th[u]
        BY <2>3 DEF IInv, TypeInv
    <2>5. SessionThread(t)'
        <3>1. CASE x.at = "off" BY <2>4, <3>1 DEF SessionThread, TaskSteps
        <3>2. CASE x.at # "off"
            <4>1. R(t)' = R(t) BY <2>3, <2>4, <3>2 DEF R
            <4>2. ~GivenUp(R(t))' BY <1>2, <2>1, <4>1 DEF GivenUp
            <4>3. QED BY <2>3, <2>4, <3>2, <4>1, <4>2, TaskIsOne DEF SessionThread
        <3>3. QED BY <3>1, <3>2
    <2>6. SessionThreadsStep BY <2>4, <2>5 DEF SessionThreadsStep
    <2>7. QED BY <1>2, <2>6, RunsSame, ChainSame, ViewSame DEF SessionStep
<1>4. CASE th[t].given # "recorded"
    <2>1. th' = [th EXCEPT ![t] = Task(R(t), "quiet")]
        BY <1>4 DEF Finish, Idle, Continue
    <2>2. Task(R(t), "quiet").at = "quiet" BY DEF Task, Off
    <2>3. th'[t].at = "quiet" /\ \A u \in Threads : u # t => th'[u] = th[u]
        BY <2>1, <2>2 DEF IInv, TypeInv
    <2>4. t \in Tasks BY <1>1, <1>4 DEF SessionInv, SessionThread
    <2>5. SessionThread(t)' BY <2>3, <2>4 DEF SessionThread
    <2>6. SessionThreadsStep BY <2>3, <2>5 DEF SessionThreadsStep
    <2>7. QED BY <1>2, <2>6, RunsSame, ChainSame, ViewSame DEF SessionStep
<1>5. QED BY <1>3, <1>4

-----------------------------------------------------------------------------
(* The steps of the driver *)

LEMMA QuietSession ==
    ASSUME IInv, DriverInv, SessionInv, NEW t \in Threads, Quiet(t)
    PROVE  SessionStep
<1>1. th[t].at = "quiet" /\ UNCHANGED <<runs, view, chain>> BY DEF Quiet, At
<1>2. PICK x : th' = [th EXCEPT ![t] = x] /\ x.at \in {"off", "tick"}
    <2>1. Task(R(t), "tick").at = "tick" /\ Off.at = "off" BY DEF Task, Off
    <2>2. QED BY <2>1 DEF Quiet, Again, Continue, Leave
<1>3. th'[t] = x /\ \A u \in Threads : u # t => th'[u] = th[u]
    BY <1>2 DEF IInv, TypeInv
<1>4. t \in Tasks BY <1>1, AtTask DEF TaskSteps
<1>5. SessionThread(t)' BY <1>2, <1>3, <1>4 DEF SessionThread, TaskSteps
<1>6. SessionThreadsStep BY <1>3, <1>5 DEF SessionThreadsStep
<1>7. QED BY <1>1, <1>6, RunsSame, ChainSame, ViewSame DEF SessionStep

(* Without a session, no createSession is on its way either.               *)
LEMMA SessionlessMeans ==
    ASSUME IInv, SessionInv, NEW r \in Runs, Sessionless(r)
    PROVE  NoCreate(r)
<1>1. SessionRun(r) BY DEF SessionInv
<1>2. CASE ~runs[r].session BY <1>1, <1>2 DEF SessionRun, NoCreate
<1>3. CASE Live(r, {"create"}) = {}
    <2>1. ASSUME NEW x \in Creates, chain[r].tx[x] # "none"
          PROVE  chain[r].tx[x] = "failed"
        <3>1. x \in view[r].failed BY <1>3, <2>1 DEF Live, Creates
        <3>2. QED BY <1>1, <3>1 DEF SessionRun
    <2>2. QED BY <2>1 DEF NoCreate
<1>4. QED BY <1>2, <1>3 DEF Sessionless

LEMMA TickSession ==
    ASSUME IInv, DriverInv, SessionInv, NEW t \in Threads, Tick(t)
    PROVE  SessionStep
<1>1. /\ th[t].at = "tick" /\ R(t) \in Runs /\ R(t) = th[t].run
      /\ UNCHANGED <<runs, view, chain>>
    BY AtRun DEF Tick, R
<1>2. \A s : /\ Task(R(t), s).at = s /\ Task(R(t), s).run = R(t)
             /\ Task(R(t), s).given = "none"
    BY DEF Task, Off
<1>3. PICK x :
        /\ th' = [th EXCEPT ![t] = x] /\ x.run = R(t) /\ x.given = "none"
        /\ \/ x.at = "quiet"
           \/ x.at = "poll" /\ Driven(runs[R(t)])
           \/ x.at = "end" /\ Driven(runs[R(t)]) /\ Sessionless(R(t))
    BY <1>2 DEF Tick, Idle, Continue
<1>4. th'[t] = x /\ \A u \in Threads : u # t => th'[u] = th[u]
    BY <1>3 DEF IInv, TypeInv
<1>5. t \in Tasks BY <1>1, AtTask DEF TaskSteps
<1>6. R(t)' = R(t) BY <1>3, <1>4 DEF R
<1>7. Driven(runs[R(t)]) => ~GivenUp(R(t))' BY <1>1, <1>6 DEF Driven, GivenUp
<1>8. x.at = "end" => NoCreate(R(t))'
    BY <1>1, <1>3, <1>6, SessionlessMeans DEF NoCreate
<1>9. SessionThread(t)' BY <1>3, <1>4, <1>5, <1>7, <1>8 DEF SessionThread
<1>10. SessionThreadsStep BY <1>4, <1>9 DEF SessionThreadsStep
<1>11. QED BY <1>1, <1>10, RunsSame, ChainSame, ViewSame DEF SessionStep

(* The run is given up with no createSession that could still open one.    *)
LEMMA GivesUpStep ==
    ASSUME IInv, DriverInv, SessionInv, NEW t \in Threads,
           th[t].at \in {"end", "setup_failed"},
           Move(R(t), "failed_setup"), Goto(t, "finish"), UNCHANGED <<chain, view>>
    PROVE  SessionStep
<1>1. t \in Tasks /\ th[t].given # "recorded" /\ NoCreate(R(t))
    BY DEF SessionInv, SessionThread, TaskSteps
<1>2. R(t) \in Runs /\ R(t) = th[t].run BY ThreadFacts
<1>3. t = <<Proc(t), R(t)>> /\ Proc(t) \in Procs
    BY <1>1, <1>2 DEF DriverInv, Placed, Tasks, Proc
<1> DEFINE x == [th[t] EXCEPT !.at = "finish"]
           row == Moved(runs[R(t)], "failed_setup", "other")
<1>4. th[t] \in Thread /\ runs[R(t)] \in RunRow BY <1>2 DEF IInv, TypeInv
<1>5. x.at = "finish" /\ x.given = th[t].given BY <1>4 DEF Thread
<1>6. th' = [th EXCEPT ![t] = x] /\ runs' = [runs EXCEPT ![R(t)] = row]
    BY DEF Goto, Move, MoveFor
<1>7. row.session = runs[R(t)].session /\ row.funded = runs[R(t)].funded
    BY <1>4 DEF Moved, RunRow
<1> HIDE DEF x, row
<1>8. th'[t] = x /\ \A u \in Threads : u # t => th'[u] = th[u]
    BY <1>6 DEF IInv, TypeInv
<1>9. GivesUp(Proc(t), R(t)) BY <1>3, <1>5, <1>8 DEF GivesUp
<1>10. RunsKept BY <1>2, <1>3, <1>6, <1>7, <1>9, RunReplaced
<1>11. SessionThread(t)' BY <1>1, <1>5, <1>8 DEF SessionThread, TaskSteps
<1>12. SessionThreadsStep BY <1>8, <1>11 DEF SessionThreadsStep
<1>13. QED BY <1>10, <1>12, ChainSame, ViewSame DEF SessionStep

LEMMA EndWithoutSessionSession ==
    ASSUME IInv, DriverInv, SessionInv, NEW t \in Threads, EndWithoutSession(t)
    PROVE  SessionStep
<1>1. th[t].at = "end" BY DEF EndWithoutSession, At
<1>2. CASE Move(R(t), "failed_setup") /\ Goto(t, "finish")
    BY <1>1, <1>2, GivesUpStep DEF EndWithoutSession
<1>3. CASE Idle(t) /\ UNCHANGED runs
    <2>1. Goes(t) BY <1>1, <1>3, AtTask, AgainGoes DEF TaskSteps
    <2>2. QED
        BY <1>3, <2>1, GoesSession, RunsSame, ChainSame, ViewSame
           DEF EndWithoutSession, Steps
<1>4. QED BY <1>2, <1>3 DEF EndWithoutSession

LEMMA SetupFailedSession ==
    ASSUME IInv, DriverInv, SessionInv, NEW t \in Threads, SetupFailed(t)
    PROVE  SessionStep
<1>1. th[t].at = "setup_failed" /\ R(t) \in Runs BY AtRun DEF SetupFailed
<1>2. CASE Move(R(t), "failed_setup") /\ Goto(t, "finish")
    BY <1>1, <1>2, GivesUpStep DEF SetupFailed
<1>3. CASE Fails(t)
    BY <1>1, <1>3, FailsKept, FailsGoes, GoesSession, ChainSame, ViewSame
       DEF SetupFailed, Steps
<1>4. QED BY <1>2, <1>3 DEF SetupFailed

(* A step to "create" or "setup_failed", with what it rests on.            *)
LEMMA ContinueTo ==
    ASSUME IInv, DriverInv, SessionInv, NEW t \in Threads,
           th[t].at \in TaskSteps \ {"quiet", "tick"},
           NEW s \in {"create", "setup_failed"}, Continue(t, s),
           UNCHANGED <<chain, view>>, RunsKept,
           s = "create" => /\ runs'[R(t)].session /\ runs'[R(t)].funded
                           /\ \A x \in Creates : chain[R(t)].tx[x] = "none",
           s = "setup_failed" => NoCreate(R(t))
    PROVE  SessionStep
<1>1. R(t) \in Runs /\ R(t) = th[t].run /\ th[t].at \notin {"off", "finish"}
    BY ThreadFacts DEF TaskSteps
<1>2. t \in Tasks BY AtTask
<1> DEFINE y == Task(R(t), s)
<1>3. y.at = s /\ y.run = R(t) /\ y.given = "none" BY DEF Task, Off
<1>4. th' = [th EXCEPT ![t] = y] BY DEF Continue
<1> HIDE DEF y
<1>5. th'[t] = y /\ \A u \in Threads : u # t => th'[u] = th[u]
    BY <1>4 DEF IInv, TypeInv
<1>6. R(t)' = R(t) BY <1>3, <1>5 DEF R
<1>7. ~GivenUp(R(t))'
    <2>1. ~GivenUp(R(t)) BY <1>1, <1>2 DEF SessionInv, SessionThread, TaskSteps
    <2>2. ASSUME NEW p \in Procs, GivesUp(p, R(t)) PROVE FALSE
        <3>1. <<p, R(t)>> \in Threads BY <1>1 DEF Threads
        <3>2. QED BY <1>3, <1>5, <2>2, <3>1 DEF GivesUp
    <2>3. QED BY <1>1, <1>6, <2>1, <2>2 DEF RunsKept, GivenUp
<1>8. NoCreate(R(t))' <=> NoCreate(R(t)) BY <1>6 DEF NoCreate
<1>9. SessionThread(t)' BY <1>2, <1>3, <1>5, <1>6, <1>7, <1>8 DEF SessionThread
<1>10. SessionThreadsStep BY <1>5, <1>9 DEF SessionThreadsStep
<1>11. QED BY <1>10, ChainSame, ViewSame DEF SessionStep

(* One createSession at most was persisted: if it failed, none is left.    *)
LEMMA RevertedMeans ==
    ASSUME IInv, SessionInv, NEW r \in Runs, CreateReverted(r)
    PROVE  NoCreate(r)
<1>1. SessionRun(r) BY DEF SessionInv
<1>2. PICK x \in Creates : x \in view[r].failed BY DEF CreateReverted, Creates
<1>3. chain[r].tx[x] = "failed" BY <1>1, <1>2 DEF SessionRun
<1>4. QED BY <1>1, <1>3 DEF SessionRun, NoCreate

LEMMA FundSession ==
    ASSUME IInv, DriverInv, SessionInv, NEW t \in Threads, Fund(t)
    PROVE  SessionStep
<1>1. R(t) \in Runs /\ th[t].at = "set_up" BY AtRun DEF Fund
<1>2. IsTask(t) BY <1>1, AtTask DEF TaskSteps
<1>3. CASE runs' = [runs EXCEPT ![R(t)].funded = TRUE] /\ Again(t)
    <2> DEFINE row == [runs[R(t)] EXCEPT !.funded = TRUE]
    <2>1. runs[R(t)] \in RunRow BY <1>1 DEF IInv, TypeInv
    <2>2. /\ row.state = runs[R(t)].state /\ row.outcome = runs[R(t)].outcome
          /\ row.session = runs[R(t)].session /\ row.funded
        BY <2>1 DEF RunRow
    <2>3. runs' = [runs EXCEPT ![R(t)] = row] BY <1>3
    <2> HIDE DEF row
    <2>4. RunsKept BY <1>1, <2>2, <2>3, RunReplaced DEF GivenUp
    <2>5. Goes(t) BY <1>2, <1>3, AgainGoes
    <2>6. QED BY <2>4, <2>5, GoesSession, ChainSame, ViewSame DEF Fund, Steps
<1>4. CASE Continue(t, "setup_failed") /\ UNCHANGED runs
    <2>1. NoCreate(R(t))
        BY <1>1 DEF Fund, SessionInv, SessionRun, NoCreate
    <2>2. QED BY <1>1, <1>4, <2>1, RunsSame, ContinueTo DEF Fund, TaskSteps
<1>5. CASE Recover(R(t)) /\ Idle(t)
    <2>1. Goes(t) BY <1>2, <1>5, AgainGoes
    <2>2. QED
        BY <1>1, <1>5, <2>1, RecoverKept, GoesSession, ChainSame, ViewSame DEF Fund, Steps
<1>6. CASE AgentUnavailable(t)
    BY <1>1, <1>2, <1>6, FailsKept, FailsGoes, GoesSession, ChainSame, ViewSame
       DEF Fund, Steps
<1>7. QED BY <1>3, <1>4, <1>5, <1>6 DEF Fund

LEMMA OpenSessionSession ==
    ASSUME IInv, DriverInv, SessionInv, NEW t \in Threads, OpenSession(t)
    PROVE  SessionStep
<1>1. R(t) \in Runs /\ th[t].at = "set_up" BY AtRun DEF OpenSession
<1> DEFINE row == [runs[R(t)] EXCEPT !.session = TRUE]
<1>2. runs[R(t)] \in RunRow /\ runs \in [Runs -> RunRow] BY <1>1 DEF IInv, TypeInv
<1>3. /\ row.state = runs[R(t)].state /\ row.outcome = runs[R(t)].outcome
      /\ row.session /\ row.funded = runs[R(t)].funded
    BY <1>2 DEF RunRow
<1>4. runs' = [runs EXCEPT ![R(t)] = row] BY DEF OpenSession
<1> HIDE DEF row
<1>5. RunsKept BY <1>1, <1>3, <1>4, RunReplaced DEF GivenUp
<1>6. runs'[R(t)].session /\ runs'[R(t)].funded
    BY <1>1, <1>2, <1>3, <1>4 DEF OpenSession
<1>7. \A x \in Creates : chain[R(t)].tx[x] = "none"
    <2>1. ASSUME NEW x \in Creates, chain[R(t)].tx[x] # "none" PROVE FALSE
        <3>1. x \in view[R(t)].failed BY <2>1 DEF OpenSession, Live, Creates
        <3>2. QED BY <3>1 DEF OpenSession, CreateReverted, Creates
    <2>2. QED BY <2>1
<1>8. QED BY <1>1, <1>5, <1>6, <1>7, ContinueTo DEF OpenSession, TaskSteps

LEMMA TurnSet ==
    ASSUME IInv, NEW r \in Runs, NEW v, runs' = [runs EXCEPT ![r].turn = v]
    PROVE  RunsKept
<1> DEFINE row == [runs[r] EXCEPT !.turn = v]
<1>1. runs[r] \in RunRow BY DEF IInv, TypeInv
<1>2. /\ row.state = runs[r].state /\ row.outcome = runs[r].outcome
      /\ row.session = runs[r].session /\ row.funded = runs[r].funded
    BY <1>1 DEF RunRow
<1>3. runs' = [runs EXCEPT ![r] = row] OBVIOUS
<1> HIDE DEF row
<1>4. QED BY <1>2, <1>3, RunReplaced DEF GivenUp

LEMMA SendGoes ==
    ASSUME NEW t, NEW tx, IsTask(t),
           th' = [th EXCEPT ![t] = [Task(R(t), "send") EXCEPT !.tx = tx]]
    PROVE  Goes(t)
<1> DEFINE x == [Task(R(t), "send") EXCEPT !.tx = tx]
<1>1. x.run = th[t].run /\ x.at = "send" BY DEF Task, Off, R
<1>2. QED BY <1>1, GoesBy DEF Marks

LEMMA PersistKept ==
    ASSUME IInv, NEW t \in Threads, R(t) \in Runs, Proc(t) \in Procs, IsTask(t),
           NEW kind \in {"action", "abort", "expire"}, Persist(t, kind)
    PROVE  RunsKept /\ ChainKept /\ Goes(t)
<1>1. CASE Fails(t) /\ UNCHANGED chain BY <1>1, FailsKept, FailsGoes, ChainSame
<1>2. CASE /\ chain' = [chain EXCEPT ![R(t)].tx[<<kind, Proc(t)>>] = "new"]
           /\ th' = [th EXCEPT ![t] = [Task(R(t), "send") EXCEPT !.tx = <<kind, Proc(t)>>]]
           /\ UNCHANGED runs
    <2> DEFINE x == <<kind, Proc(t)>>
    <2>1. x \in TxIds /\ x \notin Creates BY DEF TxIds, TxKinds, Creates
    <2>2. chain' = [chain EXCEPT ![R(t)].tx[x] = "new"] BY <1>2
    <2>3. Goes(t) BY <1>2, SendGoes
    <2> HIDE DEF x
    <2>4. ChainKept BY <2>1, <2>2, TxOneKept
    <2>5. QED BY <1>2, <2>3, <2>4, RunsSame
<1>3. QED BY <1>1, <1>2 DEF Persist

LEMMA CreateSessionSession ==
    ASSUME IInv, DriverInv, SessionInv, NEW t \in Threads, CreateSession(t)
    PROVE  SessionStep
<1>1. R(t) \in Runs /\ th[t].at = "create" /\ Proc(t) \in Procs
    BY AtRun DEF CreateSession
<1>2. t \in Tasks /\ IsTask(t) BY <1>1, AtTask DEF TaskSteps
<1>3. t = <<Proc(t), R(t)>>
    BY <1>1, <1>2 DEF DriverInv, Placed, Tasks, Proc, R
<1> DEFINE r == R(t)
           x == <<"create", Proc(t)>>
           tx == [chain[r].tx EXCEPT ![x] = "new"]
           c == [chain[r] EXCEPT !.tx = tx]
           y == [Task(R(t), "send") EXCEPT !.tx = x]
<1>4. /\ chain' = [chain EXCEPT ![r] = c] /\ th' = [th EXCEPT ![t] = y]
      /\ UNCHANGED <<runs, view>>
    BY DEF CreateSession, Persist
<1>5. chain[r] \in ChainRow /\ chain[r].tx \in [TxIds -> Tx] /\ chain \in [Runs -> ChainRow]
    BY <1>1 DEF IInv, TypeInv, ChainRow
<1>6. y.at = "send" BY DEF Task, Off
<1>7. \A z \in Creates : z # x => tx[z] = chain[r].tx[z] BY <1>5, CreateIsTx
<1>8. c.tx = tx /\ c.sess = chain[r].sess /\ c.soft = chain[r].soft
    <2> HIDE DEF tx
    <2>1. QED BY <1>5 DEF ChainRow
<1>9. \A z \in Creates : chain[r].tx[z] = "none"
    BY <1>1 DEF SessionInv, SessionThread
<1>10. Goes(t)
    <2>1. th' = [th EXCEPT ![t] = [Task(R(t), "send") EXCEPT !.tx = x]] BY <1>4
    <2> HIDE DEF x
    <2>2. QED BY <1>2, <2>1, SendGoes
<1> HIDE DEF y, tx, c
<1>11. chain'[r] = c /\ \A q \in Runs : q # r => chain'[q] = chain[q]
    BY <1>1, <1>4, <1>5
<1>12. th'[t] = y BY <1>4 DEF IInv, TypeInv
<1>13. Creates1(Proc(t), r)
    BY <1>1, <1>3, <1>6, <1>7, <1>8, <1>11, <1>12 DEF Creates1
<1>14. ChainKept
    <2>1. ASSUME NEW q \in Runs
          PROVE  /\ \/ \A z \in Creates : TxKept(q, z)
                    \/ \E p \in Procs : Creates1(p, q)
                 /\ chain'[q].sess # "none" =>
                      \/ \E z \in Creates : chain'[q].tx[z] = "ok"
                      \/ /\ chain[q].sess # "none"
                         /\ \A z \in Creates :
                              chain[q].tx[z] = "ok" => chain'[q].tx[z] = "ok"
                 /\ "end" \in chain'[q].soft =>
                      \/ chain'[q].sess # "none"
                      \/ "end" \in chain[q].soft /\ chain'[q].sess = chain[q].sess
        <3>1. CASE q # r BY <1>11, <3>1 DEF TxKept
        <3>2. CASE q = r BY <1>1, <1>8, <1>9, <1>11, <1>13, <3>2
        <3>3. QED BY <3>1, <3>2
    <2>2. QED BY <2>1 DEF ChainKept
<1>15. QED
    BY <1>4, <1>10, <1>14, RunsSame, ViewSame, GoesSession DEF CreateSession, Steps

LEMMA AwaitSessionSession ==
    ASSUME IInv, DriverInv, SessionInv, NEW t \in Threads, AwaitSession(t)
    PROVE  SessionStep
<1>1. R(t) \in Runs /\ th[t].at = "set_up" BY AtRun DEF AwaitSession
<1>2. IsTask(t) BY <1>1, AtTask DEF TaskSteps
<1>3. CASE CreateReverted(R(t)) /\ Continue(t, "setup_failed") /\ UNCHANGED runs
    BY <1>1, <1>3, RevertedMeans, RunsSame, ContinueTo DEF AwaitSession, TaskSteps
<1>4. CASE Again(t) /\ UNCHANGED runs
    <2>1. Goes(t) BY <1>2, <1>4, AgainGoes
    <2>2. QED
        BY <1>4, <2>1, RunsSame, GoesSession, ChainSame, ViewSame DEF AwaitSession, Steps
<1>5. CASE runs' = [runs EXCEPT ![R(t)].setUp = TRUE] /\ Goto(t, "set_up_done")
    <2> DEFINE row == [runs[R(t)] EXCEPT !.setUp = TRUE]
    <2>1. runs[R(t)] \in RunRow BY <1>1 DEF IInv, TypeInv
    <2>2. /\ row.state = runs[R(t)].state /\ row.outcome = runs[R(t)].outcome
          /\ row.session = runs[R(t)].session /\ row.funded = runs[R(t)].funded
        BY <2>1 DEF RunRow
    <2>3. runs' = [runs EXCEPT ![R(t)] = row] BY <1>5
    <2> HIDE DEF row
    <2>4. RunsKept BY <1>1, <2>2, <2>3, RunReplaced DEF GivenUp
    <2>5. Goes(t) BY <1>2, <1>5, GotoGoes DEF Steps, Marks
    <2>6. QED BY <2>4, <2>5, GoesSession, ChainSame, ViewSame DEF AwaitSession, Steps
<1>6. CASE RequestTermination(R(t), "abort") /\ Again(t)
    <2>1. Goes(t) BY <1>2, <1>6, AgainGoes
    <2>2. RunsKept BY <1>1, <1>6, TerminationKept
    <2>3. QED BY <2>1, <2>2, GoesSession, ChainSame, ViewSame DEF AwaitSession, Steps
<1>7. CASE Recover(R(t)) /\ Idle(t)
    <2>1. Goes(t) BY <1>2, <1>7, AgainGoes
    <2>2. RunsKept BY <1>1, <1>7, RecoverKept
    <2>3. QED BY <2>1, <2>2, GoesSession, ChainSame, ViewSame DEF AwaitSession, Steps
<1>8. CASE AgentUnavailable(t)
    <2>1. Goes(t) BY <1>2, <1>8, FailsGoes
    <2>2. RunsKept BY <1>1, <1>8, FailsKept
    <2>3. QED BY <2>1, <2>2, GoesSession, ChainSame, ViewSame DEF AwaitSession, Steps
<1>9. QED BY <1>3, <1>4, <1>5, <1>6, <1>7, <1>8 DEF AwaitSession

LEMMA SetupDoneSession ==
    ASSUME IInv, DriverInv, SessionInv, NEW t \in Threads, SetupDone(t)
    PROVE  SessionStep
<1>1. R(t) \in Runs /\ th[t].at = "set_up_done" BY AtRun DEF SetupDone
<1>2. IsTask(t) BY <1>1, AtTask DEF TaskSteps
<1>3. RunsKept BY <1>1, MoveKept, FailsKept DEF SetupDone, Move
<1>4. Goes(t) BY <1>2, AgainGoes, FailsGoes DEF SetupDone
<1>5. QED BY <1>3, <1>4, GoesSession, ChainSame, ViewSame DEF SetupDone, Steps

LEMMA ResendSession ==
    ASSUME IInv, DriverInv, SessionInv, NEW t \in Threads, ResendRefused(t)
    PROVE  SessionStep
<1>1. R(t) \in Runs /\ th[t].at = "resend" BY AtRun DEF ResendRefused
<1>2. IsTask(t) BY <1>1, AtTask DEF TaskSteps
<1>3. RunsKept BY <1>1, RunsSame, RecoverKept, FailsKept DEF ResendRefused
<1>4. ChainKept BY <1>1, SentAgainKept, ChainSame DEF ResendRefused
<1>5. Goes(t) BY <1>2, ActingGoes, AgainGoes, FailsGoes DEF ResendRefused
<1>6. QED BY <1>3, <1>4, <1>5, GoesSession, ViewSame DEF ResendRefused, Steps

LEMMA TerminateSession ==
    ASSUME IInv, DriverInv, SessionInv, NEW t \in Threads, Terminate(t)
    PROVE  SessionStep
<1>1. R(t) \in Runs /\ th[t].at = "terminate" BY AtRun DEF Terminate
<1>2. IsTask(t) BY <1>1, AtTask DEF TaskSteps
<1>3. ASSUME NEW kind, EndBy(t, kind) PROVE Goes(t)
    <2> DEFINE x == [Task(R(t), "end_session") EXCEPT !.given = kind]
    <2>1. x.run = th[t].run /\ x.at = "end_session" BY DEF Task, Off, R
    <2>2. QED BY <1>2, <1>3, <2>1, GoesBy DEF EndBy, Marks
<1>4. Goes(t) BY <1>2, <1>3, AgainGoes DEF Terminate
<1>5. RunsKept BY <1>1, RunsSame, RecoverKept DEF Terminate
<1>6. QED BY <1>4, <1>5, GoesSession, ChainSame, ViewSame DEF Terminate, Steps

LEMMA EndSessionSession ==
    ASSUME IInv, DriverInv, SessionInv, NEW t \in Threads, EndSession(t)
    PROVE  SessionStep
<1>1. R(t) \in Runs /\ th[t].at = "end_session" /\ Proc(t) \in Procs
    BY AtRun DEF EndSession
<1>2. IsTask(t) BY <1>1, AtTask DEF TaskSteps
<1>3. th[t].given \in {"abort", "expire"} BY <1>1, ThreadFacts DEF ThreadInv
<1>4. RunsKept /\ ChainKept /\ Goes(t)
    BY <1>1, <1>2, <1>3, PersistKept DEF EndSession
<1>5. QED BY <1>4, GoesSession, ViewSame DEF EndSession, Steps

LEMMA SendSession ==
    ASSUME IInv, DriverInv, SessionInv, NEW t \in Threads, Send(t)
    PROVE  SessionStep
<1>1. R(t) \in Runs /\ th[t].at = "send" BY AtRun DEF Send
<1>2. IsTask(t) BY <1>1, AtTask DEF TaskSteps
<1>3. Goes(t) BY <1>2, AgainGoes DEF Send
<1>4. RunsKept BY <1>1, RunsSame, TurnSet DEF Send
<1>5. th[t].tx \in TxIds BY <1>1, ThreadFacts DEF ThreadInv
<1>6. PICK v : /\ chain' = [chain EXCEPT ![R(t)].tx[th[t].tx] = v]
               /\ \/ v = chain[R(t)].tx[th[t].tx]
                  \/ chain[R(t)].tx[th[t].tx] \in {"new", "saved", "pool"} /\ v # "none"
    <2>1. CASE chain' = [chain EXCEPT ![R(t)].tx[th[t].tx] =
                            IF @ \in {"new", "saved"} THEN "pool" ELSE @]
        <3> DEFINE w == IF chain[R(t)].tx[th[t].tx] \in {"new", "saved"}
                        THEN "pool" ELSE chain[R(t)].tx[th[t].tx]
        <3>1. chain' = [chain EXCEPT ![R(t)].tx[th[t].tx] = w] BY <2>1
        <3>2. \/ w = chain[R(t)].tx[th[t].tx]
              \/ chain[R(t)].tx[th[t].tx] \in {"new", "saved", "pool"} /\ w # "none"
            OBVIOUS
        <3> HIDE DEF w
        <3>3. QED BY <3>1, <3>2
    <2>2. CASE chain' = [chain EXCEPT ![R(t)].tx[th[t].tx] = "saved"]
               /\ chain[R(t)].tx[th[t].tx] \in {"new", "saved"}
        <3> DEFINE w == "saved"
        <3>1. chain' = [chain EXCEPT ![R(t)].tx[th[t].tx] = w] BY <2>2
        <3>2. chain[R(t)].tx[th[t].tx] \in {"new", "saved", "pool"} /\ w # "none" BY <2>2
        <3> HIDE DEF w
        <3>3. QED BY <3>1, <3>2
    <2>3. QED BY Zenon, <2>1, <2>2 DEF Send
<1>7. ChainKept BY <1>1, <1>5, <1>6, TxOneKept
<1>8. QED BY <1>3, <1>4, <1>7, GoesSession, ViewSame DEF Send, Steps

-----------------------------------------------------------------------------
(* The steps of a turn *)

LEMMA FinishTurnSession ==
    ASSUME IInv, NEW r \in Runs, NEW c \in {"none", "abort"}, FinishTurn(r, c)
    PROVE  RunsKept /\ ChainKept /\ ViewKept
<1>1. c \in Terminations BY DEF Terminations
<1>2. ForgetAction(r) BY DEF FinishTurn
<1>3. QED BY <1>1, <1>2, FinishTurnKept, ForgetKept

LEMMA TurnStepSession ==
    ASSUME IInv, DriverInv, SessionInv, NEW t \in Threads,
           BeginTurn(t) \/ AskAgain(t) \/ Ask(t) \/ DeadlinePassed(t) \/ AgentRefused(t)
    PROVE  SessionStep
<1> USE DEF Steps, Marks
<1>1. CASE BeginTurn(t)
    <2>1. R(t) \in Runs /\ th[t].at = "turn" BY <1>1, AtRun DEF BeginTurn
    <2>2. IsTask(t) BY <2>1, AtTask DEF TaskSteps
    <2>3. Goes(t) BY <1>1, <2>2, AgainGoes, ContinueGoes DEF BeginTurn
    <2>4. RunsKept
        BY <1>1, <2>1, RunsSame, TerminationKept, RecoverKept, TurnSet DEF BeginTurn
    <2>5. QED BY <1>1, <2>3, <2>4, GoesSession, ChainSame, ViewSame DEF BeginTurn
<1>2. CASE AskAgain(t)
    <2>1. R(t) \in Runs /\ th[t].at = "turn" BY <1>2, AtRun DEF AskAgain
    <2>2. IsTask(t) BY <2>1, AtTask DEF TaskSteps
    <2>3. Goes(t) BY <1>2, <2>2, AgainGoes, ContinueGoes DEF AskAgain
    <2>4. RunsKept /\ ChainKept /\ ViewKept
        BY <1>2, <2>1, RunsSame, ChainSame, ViewSame, FinishTurnSession DEF AskAgain
    <2>5. QED BY <1>2, <2>3, <2>4, GoesSession DEF AskAgain
<1>3. CASE Ask(t)
    <2>1. R(t) \in Runs /\ th[t].at = "ask" BY <1>3, AtRun DEF Ask
    <2>2. IsTask(t) BY <2>1, AtTask DEF TaskSteps
    <2>3. Goes(t) BY <1>3, <2>2, AgainGoes, ContinueGoes, FailsGoes DEF Ask
    <2>4. RunsKept /\ ChainKept /\ ViewKept
        BY <1>3, <2>1, RunsSame, ChainSame, ViewSame, FinishTurnSession, FailsKept DEF Ask
    <2>5. QED BY <1>3, <2>3, <2>4, GoesSession DEF Ask
<1>4. CASE DeadlinePassed(t)
    <2>1. R(t) \in Runs /\ th[t].at = "deadline" BY <1>4, AtRun DEF DeadlinePassed
    <2>2. IsTask(t) BY <2>1, AtTask DEF TaskSteps
    <2>3. Goes(t) BY <1>4, <2>2, AgainGoes DEF DeadlinePassed
    <2>4. RunsKept BY <1>4, <2>1, TerminationKept DEF DeadlinePassed
    <2>5. QED BY <1>4, <2>3, <2>4, GoesSession, ChainSame, ViewSame DEF DeadlinePassed
<1>5. CASE AgentRefused(t)
    <2>1. R(t) \in Runs /\ th[t].at = "refused" BY <1>5, AtRun DEF AgentRefused
    <2>2. IsTask(t) BY <2>1, AtTask DEF TaskSteps
    <2>3. Goes(t) BY <1>5, <2>2, AgainGoes DEF AgentRefused
    <2>4. RunsKept BY <1>5, <2>1, RecoverKept DEF AgentRefused
    <2>5. QED BY <1>5, <2>3, <2>4, GoesSession, ChainSame, ViewSame DEF AgentRefused
<1>6. QED BY <1>1, <1>2, <1>3, <1>4, <1>5

LEMMA ActionStepSession ==
    ASSUME IInv, DriverInv, SessionInv, NEW t \in Threads,
           RecordSigned(t) \/ SubmitAgain(t) \/ Submit(t)
             \/ FollowTurn(t) \/ TurnConfirmed(t)
    PROVE  SessionStep
<1> USE DEF Steps, Marks
<1>1. CASE RecordSigned(t)
    <2>1. R(t) \in Runs /\ th[t].at = "sign" BY <1>1, AtRun DEF RecordSigned
    <2>2. IsTask(t) BY <2>1, AtTask DEF TaskSteps
    <2>3. Goes(t) BY <1>1, <2>2, AgainGoes, ContinueGoes DEF RecordSigned
    <2>4. ASSUME runs' = [runs EXCEPT ![R(t)].turn = IF @ = "none" THEN @ ELSE "signed"]
          PROVE  RunsKept
        <3> DEFINE v == IF runs[R(t)].turn = "none" THEN runs[R(t)].turn ELSE "signed"
        <3>1. runs' = [runs EXCEPT ![R(t)].turn = v] BY <2>4
        <3> HIDE DEF v
        <3>2. QED BY <2>1, <3>1, TurnSet
    <2>5. RunsKept /\ ChainKept /\ ViewKept
        BY <1>1, <2>1, <2>4, ChainSame, ViewSame, FinishTurnSession DEF RecordSigned
    <2>6. QED BY <1>1, <2>3, <2>5, GoesSession DEF RecordSigned
<1>2. CASE SubmitAgain(t)
    <2>1. th[t].at = "turn" BY <1>2 DEF SubmitAgain, At
    <2>2. IsTask(t) BY <2>1, AtTask DEF TaskSteps
    <2>3. Goes(t) BY <1>2, <2>2, ContinueGoes DEF SubmitAgain
    <2>4. QED BY <1>2, <2>3, GoesSession, RunsSame, ChainSame, ViewSame DEF SubmitAgain
<1>3. CASE Submit(t)
    <2>1. R(t) \in Runs /\ th[t].at = "submit" /\ Proc(t) \in Procs
        BY <1>3, AtRun DEF Submit
    <2>2. IsTask(t) BY <2>1, AtTask DEF TaskSteps
    <2>3. RunsKept /\ ChainKept /\ Goes(t)
        BY <1>3, <2>1, <2>2, PersistKept, SendGoes, RunsSame, ChainSame DEF Submit
    <2>4. QED BY <1>3, <2>3, GoesSession, ViewSame DEF Submit
<1>4. CASE FollowTurn(t)
    <2>1. R(t) \in Runs /\ th[t].at = "turn" BY <1>4, AtRun DEF FollowTurn
    <2>2. IsTask(t) BY <2>1, AtTask DEF TaskSteps
    <2>3. Goes(t) BY <1>4, <2>2, AgainGoes, GotoGoes DEF FollowTurn
    <2>4. RunsKept /\ ChainKept /\ ViewKept
        BY <1>4, <2>1, RunsSame, ChainSame, ViewSame, FinishTurnSession DEF FollowTurn
    <2>5. QED BY <1>4, <2>3, <2>4, GoesSession DEF FollowTurn
<1>5. CASE TurnConfirmed(t)
    <2>1. R(t) \in Runs /\ th[t].at = "confirmed" BY <1>5, AtRun DEF TurnConfirmed
    <2>2. IsTask(t) BY <2>1, AtTask DEF TaskSteps
    <2>3. Goes(t) BY <1>5, <2>2, AgainGoes DEF TurnConfirmed
    <2>4. RunsKept BY <1>5, <2>1, RunsSame, MoveKept DEF TurnConfirmed, Move
    <2>5. QED BY <1>5, <2>3, <2>4, GoesSession, ChainSame, ViewSame DEF TurnConfirmed
<1>6. QED BY <1>1, <1>2, <1>3, <1>4, <1>5

-----------------------------------------------------------------------------
(* Processes and blocks *)

LEMMA ProcessSession ==
    ASSUME IInv, DriverInv, SessionInv, NEW p \in Procs, Process(p)
    PROVE  SessionStep
<1>1. UNCHANGED <<runs, chain, view>>
    BY DEF Process, StartProcess, Crash, Close, Heartbeat
<1>2. CASE StartProcess(p)
    <2>1. CASE th' # th
        <3> DEFINE t == <<p, "boot">>
                   g == IF runs[slot].state \in {"preparing", "running", "paused"}
                        THEN "boot" ELSE "none"
                   x == [Task(slot, "takeover") EXCEPT !.given = g]
        <3>1. t \in Threads \ Tasks BY RunControlAssumption DEF Threads, Tasks
        <3>2. th' = [th EXCEPT ![t] = x] BY <1>2, <2>1 DEF StartProcess
        <3>3. x.at \notin TaskSteps \cup {"finish"} BY DEF Task, Off, TaskSteps
        <3> HIDE DEF t, x
        <3>4. QED BY <3>1, <3>2, <3>3, BeginsIsStep,
                     <1>1, RunsSame, ChainSame, ViewSame DEF SessionStep
    <2>2. QED BY <1>1, <2>1, ThreadsSame, RunsSame, ChainSame, ViewSame DEF SessionStep
<1>3. CASE Ends(p)
    <2>1. \A t \in Threads : th'[t] = th[t] \/ th'[t].at = "off"
        BY <1>3 DEF Ends, Off
    <2>2. SessionThreadsStep
        BY <2>1 DEF SessionThreadsStep, SessionThread, TaskSteps
    <2>3. QED BY <1>1, <2>2, RunsSame, ChainSame, ViewSame DEF SessionStep
<1>4. ASSUME NEW r \in Runs, Heartbeat(p, r) PROVE SessionStep
    BY <1>1, <1>4, ThreadsSame, RunsSame, ChainSame, ViewSame DEF Heartbeat, SessionStep
<1>5. QED BY <1>2, <1>3, <1>4 DEF Process, Crash, Close

LEMMA MineKept ==
    ASSUME IInv, SessionInv, NEW r \in Runs, NEW x \in TxIds, Mine(r, x)
    PROVE  ChainKept
<1> DEFINE old == chain[r]
           Ok(sess, fresh) ==
             chain' = [chain EXCEPT ![r] =
               [old EXCEPT !.sess = sess, !.soft = @ \cup Fresh(fresh), !.tx[x] = "ok"]]
           Failed == chain' = [chain EXCEPT ![r].tx[x] = "failed"]
<1>1. old \in ChainRow /\ old.tx \in [TxIds -> Tx] BY DEF IInv, TypeInv, ChainRow
<1>2. old.tx[x] = "pool" BY DEF Mine
<1>3. \/ Failed
      \/ \E sess \in Sessions \ {"none"} : \E fresh :
            /\ Ok(sess, fresh)
            /\ x \in Creates \/ old.sess # "none"
    <2>1. x \in Creates <=> x[1] = "create"
        BY DEF TxIds, TxKinds, Creates
    <2>2. {"open", "settled", "closed", "aborted", "expired"} \subseteq Sessions \ {"none"}
        BY DEF Sessions, Endings
    <2>3. x[1] \in {"create", "action", "abort", "expire"} BY DEF TxIds, TxKinds
    <2>4. CASE x[1] = "create" BY <2>1, <2>2, <2>4 DEF Mine
    <2>5. CASE x[1] = "action" BY <2>1, <2>2, <2>5 DEF Mine
    <2>6. CASE x[1] = "abort" BY <2>1, <2>2, <2>6 DEF Mine
    <2>7. CASE x[1] = "expire" BY <2>1, <2>2, <2>7 DEF Mine
    <2>8. QED BY <2>3, <2>4, <2>5, <2>6, <2>7
<1>4. CASE Failed BY <1>2, <1>4, TxOneKept
<1>5. ASSUME NEW sess \in Sessions \ {"none"}, NEW fresh, Ok(sess, fresh),
             x \in Creates \/ old.sess # "none"
      PROVE  ChainKept
    <2> DEFINE tx == [old.tx EXCEPT ![x] = "ok"]
               soft == old.soft \cup Fresh(fresh)
               c == [old EXCEPT !.sess = sess, !.soft = soft, !.tx = tx]
    <2>1. chain' = [chain EXCEPT ![r] = c] BY <1>5
    <2>2. \A z \in TxIds : tx[z] = IF z = x THEN "ok" ELSE old.tx[z] BY <1>1
    <2>3. c.tx = tx /\ c.sess = sess
        <3> HIDE DEF tx, soft, old
        <3>1. QED BY <1>1 DEF ChainRow
    <2> HIDE DEF tx, soft, c
    <2>4. RowKept(r, c) BY <1>2, <1>5, <2>2, <2>3, CreateIsTx DEF RowKept
    <2>5. QED BY <2>1, <2>4, ChainReplaced
<1>6. QED BY <1>3, <1>4, <1>5

LEMMA ReorgKept ==
    ASSUME IInv, SessionInv, NEW r \in Runs, Reorg(r)
    PROVE  ChainKept
<1>1. PICK d \in Dropped(r) \ {{}} :
          chain' = [chain EXCEPT ![r] =
            [sess |-> IF "open" \in d THEN "none"
                      ELSE IF "end" \in d THEN "open" ELSE chain[r].sess,
             soft |-> chain[r].soft \ d, late |-> chain[r].late,
             forked |-> chain[r].forked \/ Recorded(r, d),
             tx |-> [x \in TxIds |->
                        IF chain[r].tx[x] = "ok" /\ Undone(d, x[1], chain[r].sess)
                        THEN "pool" ELSE chain[r].tx[x]]]]
    BY Zenon DEF Reorg
<1> DEFINE sess == IF "open" \in d THEN "none"
                   ELSE IF "end" \in d THEN "open" ELSE chain[r].sess
           soft == chain[r].soft \ d
           forked == chain[r].forked \/ Recorded(r, d)
           f == [x \in TxIds |->
                    IF chain[r].tx[x] = "ok" /\ Undone(d, x[1], chain[r].sess)
                    THEN "pool" ELSE chain[r].tx[x]]
           c == [sess |-> sess, soft |-> soft, late |-> chain[r].late,
                 forked |-> forked, tx |-> f]
<1>2. chain' = [chain EXCEPT ![r] = c] BY <1>1, Zenon
<1>3. c.sess = sess /\ c.soft = soft /\ c.tx = f OBVIOUS
<1>4. SessionRun(r) BY DEF SessionInv
<1>5. d \subseteq chain[r].soft BY DEF Dropped
<1>6. "open" \in d => d = chain[r].soft BY DEF Dropped
<1>7. sess # "none" => chain[r].sess # "none" /\ "open" \notin d
    BY <1>4, <1>5 DEF SessionRun
<1>8. \A x \in Creates :
        f[x] = IF chain[r].tx[x] = "ok" /\ "open" \in d THEN "pool" ELSE chain[r].tx[x]
    BY CreateIsTx DEF Undone, Creates
<1>9. "end" \in soft => sess # "none"
    BY <1>4, <1>6 DEF SessionRun
<1> HIDE DEF sess, soft, forked, f, c
<1>10. RowKept(r, c) BY <1>3, <1>7, <1>8, <1>9 DEF RowKept
<1>11. QED BY <1>2, <1>10, ChainReplaced

LEMMA ChainSession ==
    ASSUME IInv, DriverInv, SessionInv, NEW r \in Runs, Chain(r)
    PROVE  SessionStep
<1>1. UNCHANGED <<runs, view, th>>
    BY DEF Chain, Mine, Deadline, ExpireByAnyone, Confirm, Reorg
<1>2. chain[r] \in ChainRow BY DEF IInv, TypeInv
<1>3. ChainKept
    <2>1. ASSUME NEW x \in TxIds, Mine(r, x) PROVE ChainKept BY <2>1, MineKept
    <2>2. CASE Deadline(r)
        <3> DEFINE c == [chain[r] EXCEPT !.late = TRUE]
        <3>1. c.tx = chain[r].tx /\ c.sess = chain[r].sess /\ c.soft = chain[r].soft
            BY <1>2 DEF ChainRow
        <3>2. chain' = [chain EXCEPT ![r] = c] BY <2>2 DEF Deadline
        <3> HIDE DEF c
        <3>3. RowKept(r, c) BY <3>1 DEF RowKept
        <3>4. QED BY <3>2, <3>3, ChainReplaced
    <2>3. CASE ExpireByAnyone(r)
        <3> DEFINE soft == chain[r].soft \cup Fresh({"end"})
                   c == [chain[r] EXCEPT !.sess = "expired", !.soft = soft]
        <3>1. chain' = [chain EXCEPT ![r] = c] BY <2>3 DEF ExpireByAnyone
        <3>2. c.tx = chain[r].tx /\ c.sess = "expired"
            <4> HIDE DEF soft
            <4>1. QED BY <1>2 DEF ChainRow
        <3> HIDE DEF c, soft
        <3>3. RowKept(r, c) BY <2>3, <3>2 DEF RowKept, ExpireByAnyone
        <3>4. QED BY <3>1, <3>3, ChainReplaced
    <2>4. CASE Confirm(r)
        <3> DEFINE c == [chain[r] EXCEPT !.soft = {}]
        <3>1. c.tx = chain[r].tx /\ c.sess = chain[r].sess /\ c.soft = {}
            BY <1>2 DEF ChainRow
        <3>2. chain' = [chain EXCEPT ![r] = c] BY <2>4 DEF Confirm
        <3> HIDE DEF c
        <3>3. RowKept(r, c) BY <3>1 DEF RowKept
        <3>4. QED BY <3>2, <3>3, ChainReplaced
    <2>5. CASE Reorg(r) BY <2>5, ReorgKept
    <2>6. QED BY <2>1, <2>2, <2>3, <2>4, <2>5 DEF Chain
<1>4. QED BY ZenonT(60), <1>1, <1>3, RunsSame, ViewSame, ThreadsSame DEF SessionStep

LEMMA DriveSession ==
    ASSUME IInv, DriverInv, SessionInv, NEW t \in Threads, Drive(t)
    PROVE  SessionStep
BY QuietSession, TickSession, EndWithoutSessionSession, ResendSession,
   TerminateSession, EndSessionSession, SendSession, FundSession,
   OpenSessionSession, CreateSessionSession, AwaitSessionSession,
   SetupDoneSession, SetupFailedSession, TurnStepSession, ActionStepSession
   DEF Drive

LEMMA SyncSession ==
    ASSUME IInv, DriverInv, SessionInv, NEW t \in Threads, Sync(t)
    PROVE  SessionStep
BY ReconcileSession, PollSession, ReportSession, PauseForReorgSession,
   RecordTerminalSession, FinishSession
   DEF Sync

LEMMA EverySessionStep ==
    ASSUME IInv, DriverInv, SessionInv, [Next]_vars
    PROVE  SessionStep
<1>1. ASSUME NEW t \in Threads, Request(t) \/ Work(t) PROVE SessionStep
    BY <1>1, RequestSession, ServeSession, SyncSession, DriveSession DEF Work
<1>2. ASSUME NEW r \in Runs, Validate(r) \/ Pause(r) \/ LeaseExpires(r)
      PROVE  SessionStep
    BY <1>2, MoveKept, RunsSame, ChainSame, ViewSame, ThreadsSame
       DEF Validate, Pause, LeaseExpires, Move, SessionStep
<1>3. CASE UNCHANGED vars
    BY <1>3, RunsSame, ChainSame, ViewSame, ThreadsSame DEF vars, SessionStep
<1>4. QED BY <1>1, <1>2, <1>3, ProcessSession, ChainSession DEF Next

LEMMA InitSession == Init => SessionInv
<1>1. ASSUME Init PROVE SessionInv
    <2>1. \A t \in Threads : th[t].at = "off" BY <1>1 DEF Init, Off
    <2>2. \A t \in Threads : SessionThread(t) BY <2>1 DEF SessionThread, TaskSteps
    <2>3. ASSUME NEW r \in Runs PROVE SessionRun(r)
        <3>1. runs[r].state = "draft" BY <1>1 DEF Init
        <3>2. /\ chain[r].sess = "none" /\ chain[r].soft = {}
              /\ \A x \in TxIds : chain[r].tx[x] = "none"
              /\ view[r].failed = {}
            BY <1>1 DEF Init
        <3>3. QED BY <3>1, <3>2, CreateIsTx DEF SessionRun, GivenUp
    <2>4. QED BY <2>2, <2>3 DEF SessionInv
<1>2. QED BY <1>1

LEMMA SessionInvariance == Spec => []SessionInv
<1>1. IInv /\ DriverInv /\ SessionInv /\ [Next]_vars => SessionInv'
    BY EveryStep, EverySessionStep, StepKeepsSession
<1>2. QED BY Invariance, DriverInvariance, InitSession, <1>1, PTL DEF Spec

(* A run given up as failed set-up has no session and no createSession on  *)
(* its way, whichever process gave it up, after whatever restarts,         *)
(* take-overs and reorganisations (driver._sessionless, controller/setup). *)
THEOREM FailedSetupTheorem == Spec => []FailedSetupHasNoSession
<1>1. IInv /\ SessionInv => FailedSetupHasNoSession
    <2>1. ASSUME SessionInv, NEW r \in Runs, GivenUp(r)
          PROVE  /\ chain[r].sess = "none"
                 /\ \A x \in Creates : chain[r].tx[x] \notin {"new", "saved", "pool"}
        <3>1. SessionRun(r) /\ NoCreate(r) BY <2>1 DEF SessionInv, SessionRun
        <3>2. QED BY <3>1 DEF SessionRun, NoCreate
    <2>2. QED BY <2>1 DEF FailedSetupHasNoSession, GivenUp, Creates
<1>2. QED BY Invariance, SessionInvariance, <1>1, PTL

=============================================================================
