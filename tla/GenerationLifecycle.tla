--------------------------- MODULE GenerationLifecycle ---------------------------
(***************************************************************************)
(* One session of ConversationService: how its generations are admitted,   *)
(* superseded, interrupted, completed and reset.                           *)
(*                                                                         *)
(* The service keeps one entry per session in _active, an admission lock   *)
(* that is held across awaits, an asyncio task per generation and a row in *)
(* the generations table.  Everything asyncio runs between two awaits is   *)
(* one step; a step that writes the database is the one its transaction    *)
(* commits in.  task.cancel() only asks: the CancelledError is raised when *)
(* the task runs next, and an await of a task passes it on to that task.   *)
(***************************************************************************)
EXTENDS Integers, Sequences, FiniteSets

CONSTANTS
    Locals,     \* generations of _submit: typed or spoken in the desktop session
    Shareds,    \* generations of _submit_shared_external
    Proactives, \* generations of submit_proactive
    Realtimes,  \* generations of begin_realtime_generation
    Stoppers,   \* callers of cancel: the interrupt route, barge-in, revocations
    Resetters,  \* callers of reset
    Parties,    \* the sets of generations and callers that may come together
    Nobody,     \* no generation, no caller
    Deltas,     \* bound on the deltas of a generation
    Budget      \* bound on interrupted callers and on CancelledErrors a provider swallows

ASSUME GenerationAssumption ==
    /\ Deltas \in Nat /\ Budget \in Nat
    /\ Nobody \notin Locals \cup Shareds \cup Proactives \cup Realtimes \cup Stoppers \cup Resetters
    /\ Locals \cap (Shareds \cup Proactives \cup Realtimes) = {}
    /\ Shareds \cap (Proactives \cup Realtimes) = {}
    /\ Proactives \cap Realtimes = {}
    /\ (Stoppers \cup Resetters) \cap (Locals \cup Shareds \cup Proactives \cup Realtimes) = {}
    /\ Stoppers \cap Resetters = {}

Gens    == Locals \cup Shareds \cup Proactives \cup Realtimes
Owned   == Shareds \cup Proactives      \* in _active before their row is written
Callers == Gens \cup Stoppers \cup Resetters

VARIABLES
    lock,       \* the holder of _start_lock
    active,     \* _active of the session: generation, completing, revoked
    admission,  \* admission[g]: where the call that admits g is
    task,       \* task[g]: where the task of g is; of a realtime one, its coordinator
    asked,      \* asked[g]: task.cancel() was called, and whether it was raised since
    idle,       \* idle[w]: set_session_idle of the terminal write w is about to make
    call,       \* call[c]: where a call of cancel by c is, and the generation it met
    row,        \* row[g]: the state of g in the generations table
    conversation,\* the conversation_state of the session row
    order,      \* the generations in the order their rows were written
    revoked,    \* the generations cancel or request_cancel has ever revoked
    spoken,     \* spoken[g]: the deltas of g that were published
    budget

service == <<lock, active, admission, call>>
history == <<revoked, spoken>>
vars    == <<service, task, asked, idle, row, conversation, order, history, budget>>

Entry(g) == [gen |-> g, completing |-> FALSE, revoked |-> FALSE]
NoEntry == Entry(Nobody)
NoCall  == [stage |-> "none", gen |-> Nobody]
Gone    == [stage |-> "skip", gen |-> Nobody]    \* found nothing to cancel

IsCurrent(g) == active.gen = g
HasTask(g)   == g \in Gens \ Realtimes

\* The entry a call of cancel acts on; a finished task leaves nothing to do.
Present == active.gen # Nobody /\ (HasTask(active.gen) => task[active.gen] # "done")

\* Who is not of the party has come and gone: refused, or with nothing to cancel.
Init ==
    /\ lock = Nobody /\ active = NoEntry
    /\ \E party \in Parties :
          /\ admission = [g \in Gens |-> IF g \in party THEN "new" ELSE "over"]
          /\ call = [c \in Callers |-> IF c \in party \cup Gens THEN NoCall ELSE Gone]
    /\ task = [g \in Gens |-> "none"]
    /\ asked = [g \in Gens |-> "no"]
    /\ idle = [w \in Callers |-> FALSE]
    /\ row = [g \in Gens |-> "none"]
    /\ conversation = "idle" /\ order = <<>>
    /\ revoked = {}
    /\ spoken = [g \in Gens |-> 0]
    /\ budget = Budget

Spend == budget > 0 /\ budget' = budget - 1

------------------------------------------------------------------------------
(* The rows of the repository. *)

\* _insert_generation.
Insert(g) ==
    /\ row' = [row EXCEPT ![g] = "running"]
    /\ conversation' = "generating"
    /\ order' = Append(order, g)

\* Fault: a verdict overwrites a verdict.
FaultSettle(g, verdict, quiet) ==
    /\ row' = [row EXCEPT ![g] = verdict]
    /\ conversation' = IF quiet THEN "idle" ELSE conversation
    /\ UNCHANGED order

\* complete_generation, cancel_generation, fail_generation: compare and set.
Settle(g, verdict, quiet) ==
    /\ row' = [row EXCEPT ![g] = IF @ = "running" THEN verdict ELSE @]
    /\ conversation' = IF row[g] = "running" /\ quiet THEN "idle" ELSE conversation
    /\ UNCHANGED order

KeepRows == UNCHANGED <<row, conversation, order>>

Verdict(stage) == CASE stage = "completing" -> "completed"
                    [] stage = "cancelling" -> "cancelled"
                    [] stage = "failing"    -> "failed"

------------------------------------------------------------------------------
(* cancel and request_cancel. *)

\* task.cancel(): raised once, however often it is asked before that.
Request(g) == asked' = [asked EXCEPT ![g] = "pending"]

Revoke(g) ==
    /\ active' = [active EXCEPT !.revoked = TRUE]
    /\ revoked' = revoked \cup {g}
    /\ IF HasTask(g) /\ ~active.revoked /\ asked[g] = "no" THEN Request(g)
       ELSE UNCHANGED asked

\* The start of cancel, up to its first await.  "skip": there was nothing to await.
CancelBegins(c) ==
    LET g == active.gen
        Enter(stage) == call' = [call EXCEPT ![c] = [stage |-> stage, gen |-> g]]
    IN  CASE ~Present ->
               Enter("skip") /\ UNCHANGED <<active, revoked, asked, idle>>
          [] Present /\ active.completing ->
               /\ Enter(IF HasTask(g) THEN "wait" ELSE "skip")
               /\ UNCHANGED <<active, revoked, asked, idle>>
          [] OTHER ->
               /\ Revoke(g)
               /\ Enter(IF HasTask(g) THEN "join" ELSE "cancelling")
               /\ idle' = [idle EXCEPT ![c] = ~HasTask(g)]

\* The awaited task is over.
Awaited(c) == call[c].stage \in {"join", "wait"} /\ task[call[c].gen] = "done"

\* What cancel answers.
Answer(c) == IF call[c].stage \in {"join", "ended"} THEN call[c].gen ELSE Nobody

\* cancel has returned to c.
Returned(c) == call[c].stage \in {"skip", "ended"} \/ Awaited(c)

\* cancel of a realtime generation: _cancelled commits.
CancelWrites(c) ==
    /\ call[c].stage = "cancelling"
    /\ Settle(call[c].gen, "cancelled", idle[c])
    /\ call' = [call EXCEPT ![c].stage = "ending"]
    /\ UNCHANGED <<lock, active, admission, task, asked, idle, history, budget>>

\* ... and the entry of the session goes, whose ever it is by now.
CancelEnds(c) ==
    /\ call[c].stage = "ending"
    /\ active' = NoEntry
    /\ call' = [call EXCEPT ![c].stage = "ended"]
    /\ UNCHANGED <<lock, admission, task, asked, idle, row, conversation, order, history, budget>>

\* The interrupt route, a barge-in, a revoked policy.
Stop(c) ==
    /\ call[c].stage = "none"
    /\ CancelBegins(c)
    /\ UNCHANGED <<lock, admission, task, row, conversation, order, spoken, budget>>

\* request_cancel: the same fence without an await.
RequestCancel ==
    /\ Present /\ HasTask(active.gen) /\ ~active.completing
    /\ Revoke(active.gen)
    /\ UNCHANGED <<lock, admission, call, task, idle, row, conversation, order, spoken, budget>>

\* The caller is cancelled itself: an awaited task gets the cancellation too,
\* a shielded one does not.
AbandonCall(c) ==
    /\ Spend /\ c \in Stoppers
    /\ \/ /\ call[c].stage = "join" /\ ~Awaited(c)
          /\ Request(call[c].gen) /\ UNCHANGED call
       \/ /\ call[c].stage = "wait"
          /\ call' = [call EXCEPT ![c] = Gone] /\ UNCHANGED asked
    /\ UNCHANGED <<lock, active, admission, task, idle, row, conversation, order, history>>

------------------------------------------------------------------------------
(* Admission. *)

Lock(c) == lock = Nobody /\ lock' = c
Admit(g, stage) == admission' = [admission EXCEPT ![g] = stage]
Goto(g, stage) == task' = [task EXCEPT ![g] = stage]

\* Fault: whoever is in _active may speak.
FaultMayContinue(g) == ~active.revoked /\ asked[g] # "pending"

\* Fault: a provider that goes on after the cancellation is believed.
FaultHeedless(g) == IsCurrent(g)

\* _ensure_current.
MayContinue(g) == IsCurrent(g) /\ ~active.revoked /\ asked[g] = "no"

\* Entering _cancelled or _failed: whether the session becomes idle is decided now.
Close(g, stage) ==
    /\ Goto(g, stage)
    /\ idle' = [idle EXCEPT ![g] = IsCurrent(g)]

\* _submit and _submit_shared_external take the lock and cancel what runs.
Supersede(g) ==
    /\ g \in Locals \cup Shareds /\ admission[g] = "new"
    /\ Lock(g) /\ Admit(g, "superseding")
    /\ CancelBegins(g)
    /\ UNCHANGED <<task, row, conversation, order, spoken, budget>>

\* The session, the character or the provider is not there: nothing was written.
Refuse(g) ==
    /\ \/ admission[g] = "superseding" /\ Returned(g)
       \/ admission[g] = "beginning"
    /\ Admit(g, "over") /\ lock' = Nobody
    /\ UNCHANGED <<active, call, task, asked, idle, row, conversation, order, history, budget>>

\* _commit_user_turn of a local turn.
CommitLocal(g) ==
    /\ g \in Locals /\ admission[g] = "superseding" /\ Returned(g)
    /\ Insert(g) /\ Admit(g, "preparing")
    /\ UNCHANGED <<lock, active, call, task, asked, idle, history, budget>>

\* Events, memory, history and character are prepared: create_task and _active.
StartLocal(g) ==
    /\ g \in Locals /\ admission[g] = "preparing"
    /\ Goto(g, "ready") /\ active' = Entry(g)
    /\ Admit(g, "over") /\ lock' = Nobody
    /\ UNCHANGED <<call, asked, idle, row, conversation, order, history, budget>>

\* A preparation of a local turn fails, or its caller is cancelled (barge-in cancels
\* the transcription task): the row is settled, whoever is current.
AbortLocal(g, stage) ==
    /\ g \in Locals /\ admission[g] = "preparing"
    /\ idle' = [idle EXCEPT ![g] = TRUE]
    /\ Admit(g, stage)
    /\ UNCHANGED <<lock, active, call, task, asked, row, conversation, order, history>>

FailLocal(g) == AbortLocal(g, "failing") /\ UNCHANGED budget
AbandonLocal(g) == Spend /\ AbortLocal(g, "cancelling")

\* The caller is cancelled while the user turn commits, before the try block.
AbandonCommit(g) ==
    /\ Spend
    /\ g \in Locals /\ admission[g] = "superseding" /\ Returned(g)
    /\ Insert(g) \/ KeepRows
    /\ Admit(g, "over") /\ lock' = Nobody
    /\ UNCHANGED <<active, call, task, asked, idle, history>>

\* Fault: the lock stays taken.
FaultAbortedLocal(g) ==
    /\ admission[g] \in {"cancelling", "failing"}
    /\ Settle(g, Verdict(admission[g]), idle[g])
    /\ Admit(g, "over")
    /\ UNCHANGED <<lock, active, call, task, asked, idle, history, budget>>

AbortedLocal(g) ==
    /\ admission[g] \in {"cancelling", "failing"}
    /\ Settle(g, Verdict(admission[g]), idle[g])
    /\ Admit(g, "over") /\ lock' = Nobody
    /\ UNCHANGED <<active, call, task, asked, idle, history, budget>>

\* A shared or a proactive generation is in _active before its row is written; the
\* task of the entry is the caller.
RegisterShared(g) ==
    /\ g \in Shareds /\ admission[g] = "superseding" /\ Returned(g)
    /\ active' = Entry(g)
    /\ Admit(g, "committing") /\ Goto(g, "admitting")
    /\ UNCHANGED <<lock, call, asked, idle, row, conversation, order, history, budget>>

\* submit_proactive yields to a generation that is active and not revoked.
RegisterProactive(g) ==
    /\ g \in Proactives /\ admission[g] = "new"
    /\ lock = Nobody
    /\ IF Present /\ ~active.revoked
       THEN Admit(g, "over") /\ UNCHANGED <<lock, active, task>>
       ELSE /\ lock' = g /\ active' = Entry(g)
            /\ Admit(g, "committing") /\ Goto(g, "admitting")
    /\ UNCHANGED <<call, asked, idle, row, conversation, order, history, budget>>

\* The row is written: the task is created and takes the entry over.
StartOwned(g) ==
    /\ admission[g] = "committing" /\ task[g] = "admitting" /\ MayContinue(g)
    /\ Insert(g)
    /\ active' = Entry(g) /\ Goto(g, "ready")
    /\ Admit(g, "over") /\ lock' = Nobody
    /\ UNCHANGED <<call, asked, idle, history, budget>>

\* ... unless the entry is gone: a cancel of the realtime generation before it took it.
FenceOwned(g) ==
    /\ admission[g] = "committing" /\ task[g] = "admitting"
    /\ asked[g] # "pending" /\ ~MayContinue(g)
    /\ Insert(g) /\ Close(g, "cancelling")
    /\ UNCHANGED <<lock, active, admission, call, asked, history, budget>>

\* The admission of a shared or proactive generation fails.
FailOwned(g) ==
    /\ admission[g] = "committing" /\ task[g] = "admitting" /\ asked[g] = "no"
    /\ Insert(g) \/ KeepRows
    /\ Close(g, "failing")
    /\ UNCHANGED <<lock, active, admission, call, asked, history, budget>>

\* begin_realtime_generation drops what is there, without waiting for it.
BeginRealtime(g) ==
    /\ g \in Realtimes /\ admission[g] = "new"
    /\ Lock(g) /\ Admit(g, "beginning")
    /\ IF Present /\ HasTask(active.gen) THEN Request(active.gen) ELSE UNCHANGED asked
    /\ active' = NoEntry
    /\ UNCHANGED <<call, task, idle, row, conversation, order, history, budget>>

StartRealtime(g) ==
    /\ admission[g] = "beginning"
    /\ Insert(g)
    /\ active' = Entry(g) /\ Goto(g, "live")
    /\ Admit(g, "over") /\ lock' = Nobody
    /\ UNCHANGED <<call, asked, idle, history, budget>>

------------------------------------------------------------------------------
(* The task of a generation. *)

\* CancelledError is raised where the task awaits.  An unstarted task just ends; a
\* transaction ends first, one way or the other; a second cancellation ends cleanup.
Raise(g) ==
    /\ asked[g] = "pending"
    /\ asked' = [asked EXCEPT ![g] = "raised"]
    /\ LET writes == \/ Settle(g, Verdict(task[g]), idle[g])
                     \/ KeepRows
       IN  \/ /\ task[g] = "admitting" /\ (Insert(g) \/ KeepRows)
              /\ Close(g, "cancelling") /\ UNCHANGED active
           \/ /\ task[g] = "ready" /\ KeepRows
              /\ Goto(g, "done") /\ UNCHANGED <<active, idle>>
           \/ /\ task[g] \in {"preparing", "streaming"} /\ KeepRows
              /\ Close(g, "cancelling") /\ UNCHANGED active
           \/ /\ task[g] = "completing" /\ writes
              /\ Close(g, "cancelling") /\ UNCHANGED active
           \/ /\ task[g] \in {"cancelling", "failing"} /\ writes
              /\ Goto(g, "ending") /\ UNCHANGED <<active, idle>>
           \/ /\ task[g] = "ending" /\ KeepRows
              /\ Goto(g, "done") /\ UNCHANGED idle
              /\ active' \in {active, IF IsCurrent(g) THEN NoEntry ELSE active}
    /\ IF task'[g] = "done" /\ lock = g THEN lock' = Nobody ELSE UNCHANGED lock
    /\ UNCHANGED <<admission, call, history, budget>>

\* The provider catches it, uncancels the task and goes on.
Swallow(g) ==
    /\ Spend
    /\ task[g] = "streaming" /\ asked[g] = "pending"
    /\ asked' = [asked EXCEPT ![g] = "no"]
    /\ UNCHANGED <<service, task, idle, row, conversation, order, history>>

Start(g) ==
    /\ task[g] = "ready" /\ asked[g] # "pending"
    /\ Goto(g, IF g \in Owned THEN "preparing" ELSE "streaming")
    /\ UNCHANGED <<service, asked, idle, row, conversation, order, history, budget>>

\* _check_generation_guard: the policy may have withdrawn its consent.
Prepare(g) ==
    /\ task[g] = "preparing" /\ asked[g] # "pending"
    /\ \/ MayContinue(g) /\ Goto(g, "streaming") /\ UNCHANGED idle
       \/ Close(g, "cancelling")
    /\ UNCHANGED <<service, asked, row, conversation, order, history, budget>>

\* A delta of the provider: checked, then published.
Speak(g) ==
    /\ task[g] = "streaming" /\ asked[g] # "pending"
    /\ MayContinue(g)
    /\ spoken[g] < Deltas
    /\ spoken' = [spoken EXCEPT ![g] = @ + 1]
    /\ UNCHANGED <<service, task, asked, idle, row, conversation, order, revoked, budget>>

\* The next check after the generation lost the session.
Stale(g) ==
    /\ task[g] = "streaming" /\ asked[g] # "pending"
    /\ ~MayContinue(g)
    /\ Close(g, "cancelling")
    /\ UNCHANGED <<service, asked, row, conversation, order, history, budget>>

\* _begin_completion.
BeginCompletion(g) ==
    /\ task[g] \in {"streaming", "closing"} /\ asked[g] # "pending"
    /\ MayContinue(g)
    /\ active' = [active EXCEPT !.completing = TRUE]
    /\ Close(g, "completing")
    /\ UNCHANGED <<lock, admission, call, asked, row, conversation, order, history, budget>>

Fail(g) ==
    /\ task[g] \in {"preparing", "streaming"} /\ asked[g] # "pending"
    /\ Close(g, "failing")
    /\ UNCHANGED <<service, asked, row, conversation, order, history, budget>>

\* The terminal transaction commits.
Write(g) ==
    /\ task[g] \in {"completing", "cancelling", "failing"} /\ asked[g] # "pending"
    /\ Settle(g, Verdict(task[g]), idle[g])
    /\ Goto(g, "ending")
    /\ UNCHANGED <<service, asked, idle, history, budget>>

\* Published; the entry goes if it is still this one.
End(g) ==
    /\ task[g] = "ending" /\ asked[g] # "pending"
    /\ Goto(g, "done")
    /\ active' = IF IsCurrent(g) THEN NoEntry ELSE active
    /\ lock' = IF lock = g THEN Nobody ELSE lock
    /\ UNCHANGED <<admission, call, asked, idle, row, conversation, order, history, budget>>

------------------------------------------------------------------------------
(* The coordinator of a realtime generation. *)

\* complete_realtime_generation up to its await; not current: ignored.
CloseRealtime(g) ==
    /\ task[g] = "live" /\ IsCurrent(g)
    /\ Goto(g, "closing")
    /\ UNCHANGED <<service, asked, idle, row, conversation, order, history, budget>>

\* _begin_completion refuses: the coordinator has to terminate the generation.
CloseRefused(g) ==
    /\ task[g] = "closing" /\ ~MayContinue(g)
    /\ Goto(g, "live")
    /\ UNCHANGED <<service, asked, idle, row, conversation, order, history, budget>>

\* terminate_active_generation, which leaves a completing generation alone.
Terminate(g, stage) ==
    /\ task[g] = "live" /\ ~active.completing
    /\ active' = IF IsCurrent(g) THEN NoEntry ELSE active
    /\ Goto(g, stage) /\ idle' = [idle EXCEPT ![g] = TRUE]
    /\ UNCHANGED <<lock, admission, call, asked, row, conversation, order, history, budget>>

------------------------------------------------------------------------------
(* reset. *)

ResetBegins(c) ==
    /\ call[c].stage = "none"
    /\ Lock(c)
    /\ CancelBegins(c)
    /\ UNCHANGED <<admission, task, row, conversation, order, spoken, budget>>

\* The entry goes and the history of the session is deleted.
ResetDeletes(c) ==
    /\ lock = c /\ Returned(c)
    /\ active' = NoEntry
    /\ row' = [g \in Gens |-> IF row[g] = "none" THEN "none" ELSE "deleted"]
    /\ conversation' = "idle"
    /\ lock' = Nobody
    /\ UNCHANGED <<admission, call, task, asked, idle, order, history, budget>>

------------------------------------------------------------------------------
CallStep(c) == CancelWrites(c) \/ CancelEnds(c)

AdmissionStep(g) ==
    \/ Refuse(g) \/ CommitLocal(g) \/ StartLocal(g) \/ FailLocal(g) \/ AbortedLocal(g)
    \/ RegisterShared(g) \/ StartOwned(g) \/ FenceOwned(g) \/ FailOwned(g)
    \/ StartRealtime(g)

\* What a task does without the provider giving it more text.
TaskStep(g) ==
    \/ Raise(g) \/ Start(g) \/ Prepare(g) \/ Stale(g) \/ BeginCompletion(g)
    \/ Fail(g) \/ Write(g) \/ End(g)

CoordinatorStep(g) ==
    CloseRealtime(g) \/ CloseRefused(g) \/ Terminate(g, "cancelling") \/ Terminate(g, "failing")

Arrival ==
    \/ \E c \in Stoppers : Stop(c)
    \/ \E c \in Resetters : ResetBegins(c)
    \/ \E g \in Gens : Supersede(g) \/ RegisterProactive(g) \/ BeginRealtime(g)

Disturbance ==
    \/ RequestCancel
    \/ \E c \in Callers : AbandonCall(c)
    \/ \E g \in Gens : AbandonLocal(g) \/ AbandonCommit(g) \/ Swallow(g)

Next ==
    \/ Arrival \/ Disturbance
    \/ \E c \in Callers : CallStep(c)
    \/ \E c \in Resetters : ResetDeletes(c)
    \/ \E g \in Gens : AdmissionStep(g) \/ TaskStep(g) \/ CoordinatorStep(g) \/ Speak(g)

Spec == Init /\ [][Next]_vars

\* The event loop runs what is ready, a provider's stream ends, SQLite answers, and a
\* coordinator ends the generations it began.
Fairness ==
    /\ \A c \in Callers : WF_vars(CallStep(c))
    /\ \A c \in Resetters : WF_vars(ResetDeletes(c))
    /\ \A g \in Gens : WF_vars(AdmissionStep(g)) /\ WF_vars(TaskStep(g)) /\ WF_vars(CoordinatorStep(g))

LiveSpec == Spec /\ Fairness

------------------------------------------------------------------------------
(* Properties. *)

TypeOK ==
    /\ lock \in Callers \cup {Nobody}
    /\ active \in [gen : Gens \cup {Nobody}, completing : BOOLEAN, revoked : BOOLEAN]
    /\ active.gen = Nobody => active = NoEntry
    /\ admission \in [Gens -> {"new", "superseding", "beginning", "committing", "preparing",
                               "cancelling", "failing", "over"}]
    /\ task \in [Gens -> {"none", "admitting", "ready", "preparing", "streaming", "live", "closing",
                          "completing", "cancelling", "failing", "ending", "done"}]
    /\ asked \in [Gens -> {"no", "pending", "raised"}]
    /\ idle \in [Callers -> BOOLEAN]
    /\ call \in [Callers -> [stage : {"none", "skip", "wait", "join", "cancelling", "ending", "ended"},
                             gen : Gens \cup {Nobody}]]
    /\ row \in [Gens -> {"none", "running", "completed", "cancelled", "failed", "deleted"}]
    /\ conversation \in {"idle", "generating"}
    /\ order \in Seq(Gens)
    /\ spoken \in [Gens -> 0..Deltas]
    /\ revoked \subseteq Gens
    /\ budget \in 0..Budget

\* A generation has one verdict: cancellation, failure, completion and reset race for
\* it and the first one stays.
VerdictIsFinal ==
    [][\A g \in Gens : row[g] \notin {"none", "running"} => row'[g] \in {row[g], "deleted"}]_vars

\* ADR 0004: what was revoked is neither heard again nor completed, even if its
\* provider goes on after the CancelledError.
RevokedIsSilent ==
    [][\A g \in revoked : spoken'[g] = spoken[g]]_vars
RevokedNeverCompletes == \A g \in revoked : row[g] # "completed"

\* The output of two generations never interleaves: after a later one, none earlier.
OutputMovesForward ==
    [][\A i, j \in DOMAIN order :
          i < j /\ spoken[order[j]] > 0 => spoken'[order[i]] = spoken[order[i]]]_vars

\* Every call of cancel, of reset and of an admission returns, although they wait
\* for each other's tasks with the admission lock held.
CallsReturn ==
    /\ \A c \in Stoppers : call[c].stage # "none" ~> Returned(c)
    /\ \A c \in Resetters : lock = c ~> lock # c
    /\ \A g \in Gens : admission[g] # "new" ~> lock # g

\* docs/architecture/master-architecture.md, "9. mark the generation CANCELLED": when cancel
\* has answered "interrupted", the generation it stopped has a verdict.  (A task that is
\* cancelled before its first step never reaches _cancelled.)
InterruptedHasVerdict ==
    \A c \in Stoppers : Returned(c) /\ Answer(c) # Nobody => row[Answer(c)] # "running"
==============================================================================
