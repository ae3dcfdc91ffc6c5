--------------------------- MODULE AgentTasks_proofs ---------------------------
(***************************************************************************)
(* The safety of AgentTasks for every set of writes and every choice of    *)
(* what the owner may ask, over any number of crashes and restarts.  Three *)
(* arguments make the invariant: the journal knows of every submission     *)
(* that may have had an effect (Ledger), a revocation reaches the worker  *)
(* before the owner's call is over (Fenced), and nobody decides about a    *)
(* task between the checks of an owner's call and its save (Undecided).    *)
(***************************************************************************)
EXTENDS AgentTasks, TLAPS

Outcomes == {"none", "started", "unknown", "refused", "noEffect", "ok", "accepted", "rejected"}
Reads    == UNION {[S -> {"started", "unknown", "refused"}] : S \in SUBSET Writes}
Turn     == {"think", "invoke", "run", "await"}
Places   == Turn \cup {"none", "slot", "start", "leave"}

TaskTyped    == task \in [state : States, wake : BOOLEAN, device : BOOLEAN]
JournalTyped == step \in [Writes -> Outcomes] /\ tries \in [Writes -> Nat] /\ applied \subseteq Writes
WorkerTyped ==
    /\ worker \in [at : Places, on : Writes \cup {NoWrite}, cancel : BOOLEAN]
    /\ worker.at = "none" => worker = NoWorker
    /\ revoked \in BOOLEAN /\ deferred \in BOOLEAN
OwnerTyped ==
    /\ owner \in [op : {"none", "resume", "defer"} \cup Revokes, at : {"none", "lock", "join", "audit"}]
    /\ owner.at = "lock" => owner.op # "none"
HarnessTyped == harness \in [at : {"idle", "recover", "queue", "deliver"}, of : Reads]
WakeTyped ==
    /\ timer \in {"none", "armed", "consuming"} /\ consumer \in {"idle", "read", "decide", "queue"}
    /\ event \in {"none", "pending", "settled"}
    /\ timer = "consuming" => consumer # "idle"
FreshTyped ==
    /\ fresh \in BOOLEAN
    /\ fresh => consumer = "decide" /\ task.state \in Waiting

Typed == TaskTyped /\ WorkerTyped /\ OwnerTyped /\ HarnessTyped /\ WakeTyped

\* The write of a worker is its own: the harness read nothing of this attempt.
Unread == worker.at \in {"invoke", "run", "await"} =>
              worker.on \in Writes /\ worker.on \notin DOMAIN harness.of
Unsubmitted == worker.at \in {"invoke", "run"} => step[worker.on] = "started" /\ tries[worker.on] = 0

\* What looks harmless in the journal, or did when the harness read it, is so.
Harmless == \A w \in Writes : step[w] \in {"none", "noEffect", "refused"} => tries[w] = 0
ReadHarmless == \A w \in DOMAIN harness.of : harness.of[w] = "refused" => tries[w] = 0
Evident == \A w \in applied : tries[w] > 0

\* A task whose worker is in its turn is not blocked: the harness does not read it.
Unblocked == worker.at \in Turn => task.state # "waiting_input"

Ledger ==
    /\ JournalTyped /\ Unread /\ Unsubmitted /\ Harmless /\ ReadHarmless /\ Evident
    /\ WriteAtMostOnce

\* A revoked worker has been told to stop, or the call that revokes it is about to.
Told == revoked /\ owner.at # "lock" => worker.at \in {"none", "slot"} \/ worker.cancel
Awaited == worker.cancel => owner.at \in {"lock", "join"}
Resumed == owner.at = "lock" /\ owner.op = "resume" => worker.at = "none"

Fenced == Told /\ Awaited /\ Resumed

\* A call of the owner saves what it has checked.
Undecided == owner.at = "lock" => task.state \notin Ended

TInv == Typed /\ FreshTyped /\ Ledger /\ Unblocked /\ Fenced /\ Undecided

EndStays == task.state \in Ended => task'.state = task.state

\* A decision is about the row it was shown.
DecisionShown == consumer = "read" /\ consumer' = "decide" => task.state \in Waiting /\ task' = task

Kept == Typed' /\ Ledger' /\ Unblocked' /\ Fenced' /\ Undecided' /\ EndStays /\ DecisionShown

------------------------------------------------------------------------------
(* The operators the actions are made of. *)

LEMMA TFacts == NoWrite \notin Writes /\ OwnerOps \subseteq OwnerCalls /\ <<>> \in Reads
<1>1. <<>> \in [{} -> {"started", "unknown", "refused"}]
    OBVIOUS
<1> QED BY <1>1, TaskAssumption DEF Reads

LEMMA EmptyFacts == DOMAIN <<>> = {}
OBVIOUS

LEMMA CheckpointFacts ==
    ASSUME TaskTyped, NEW v \in States
    PROVE  /\ Checkpoint(v) \in [state : States, wake : BOOLEAN, device : BOOLEAN]
           /\ Checkpoint(v).wake = task.wake /\ Checkpoint(v).device = task.device
           /\ Checkpoint(v).state = IF task.state \in Ended \/ (revoked /\ task.state = "paused")
                                    THEN task.state ELSE v
BY DEF TaskTyped, Checkpoint

LEMMA AfterFacts ==
    ASSUME TaskTyped, NEW op \in Revokes \cup {"resume", "defer"}
    PROVE  /\ After(op) \in [state : States, wake : BOOLEAN, device : BOOLEAN]
           /\ After(op).state \in {"paused", "cancelled", "queued", "waiting_event"}
BY DEF TaskTyped, After, States, Ended, Waiting, Revokes

LEMMA ReadFacts ==
    ASSUME NEW of \in Reads
    PROVE  /\ DOMAIN of \subseteq Writes
           /\ \A w \in DOMAIN of : of[w] \in {"started", "unknown", "refused"}
BY DEF Reads

LEMMA RestFacts ==
    ASSUME NEW of \in Reads, NEW w
    PROVE  /\ Restrict(of, (DOMAIN of) \ {w}) \in Reads
           /\ DOMAIN Restrict(of, (DOMAIN of) \ {w}) = (DOMAIN of) \ {w}
<1>1. Restrict(of, (DOMAIN of) \ {w}) \in [(DOMAIN of) \ {w} -> {"started", "unknown", "refused"}]
    BY ReadFacts DEF Restrict
<1>2. (DOMAIN of) \ {w} \in SUBSET Writes
    BY ReadFacts
<1> QED BY <1>1, <1>2 DEF Reads, Restrict

LEMMA NewTyped ==
    NewWorker \in [at : Places, on : Writes \cup {NoWrite}, cancel : BOOLEAN]
BY DEF NewWorker, Places

LEMMA NoTyped ==
    NoWorker \in [at : Places, on : Writes \cup {NoWrite}, cancel : BOOLEAN]
BY DEF NoWorker, Places

LEMMA UnsettledFacts ==
    ASSUME JournalTyped
    PROVE  /\ Unsettled \in Reads /\ DOMAIN Unsettled = Uncertain
           /\ \A w \in Uncertain : Unsettled[w] = step[w]
<1>1. Unsettled \in [Uncertain -> {"started", "unknown", "refused"}] /\ Uncertain \in SUBSET Writes
    BY DEF Unsettled, Uncertain
<1> QED BY <1>1 DEF Unsettled, Reads

LEMMA SettledFacts ==
    ASSUME JournalTyped, NEW of \in Reads
    PROVE  /\ Settled(of) \in [Writes -> Outcomes]
           /\ \A w \in Writes : Settled(of)[w] = IF w \notin DOMAIN of THEN step[w]
                                                 ELSE IF of[w] = "refused" THEN "noEffect" ELSE "ok"
BY DEF Settled, JournalTyped, Outcomes

\* A step that leaves the journal and the world alone, and puts no other write into
\* the hands of the worker.
Follows ==
    worker'.at \in {"invoke", "run", "await"} =>
        /\ worker.at \in {"invoke", "run", "await"} /\ worker'.on = worker.on
        /\ worker'.at \in {"invoke", "run"} => worker.at \in {"invoke", "run"}

LEMMA JournalFrame ==
    ASSUME TInv, UNCHANGED <<step, tries, applied>>, Follows,
           harness'.of = harness.of \/ DOMAIN harness'.of = {}
    PROVE  Ledger'
BY DEF TInv, Ledger, JournalTyped, Unread, Unsubmitted, Harmless, ReadHarmless, Evident,
       WriteAtMostOnce, Follows

------------------------------------------------------------------------------
(* Every step keeps the invariant. *)

LEMMA TakeSlotStep ==
    ASSUME TInv, TakeSlot
    PROVE  Kept
<1>1. Typed'
    BY DEF TInv, Typed, TaskTyped, OwnerTyped, WorkerTyped, Places, NoWorker, WakeTyped,
           HarnessTyped, TakeSlot
<1>2. Ledger'
    BY JournalFrame DEF NoWorker, Follows, TakeSlot, outside
<1>3. Unblocked' /\ Fenced' /\ Undecided' /\ EndStays /\ DecisionShown
    BY DEF TInv, Unblocked, Turn, Fenced, Told, Awaited, Resumed, NoWorker, Undecided, EndStays,
           DecisionShown, TakeSlot, At
<1> QED BY <1>1, <1>2, <1>3 DEF Kept, Typed, Ledger

LEMMA RunStep ==
    ASSUME TInv, Run
    PROVE  Kept
<1>1. TaskTyped'
    BY CheckpointFacts DEF TInv, Typed, TaskTyped, States, Run
<1>2. WorkerTyped'
    BY DEF TInv, Typed, WorkerTyped, Turn, Places, Run, Go
<1>3. OwnerTyped' /\ WakeTyped'
    BY DEF TInv, Typed, OwnerTyped, WakeTyped, Run
<1>4. HarnessTyped'
    BY DEF TInv, Typed, HarnessTyped, Run
<1>5. Ledger'
    BY JournalFrame DEF Follows, Run, Go, outside
<1>6. Unblocked' /\ Fenced' /\ Undecided' /\ EndStays /\ DecisionShown
    BY CheckpointFacts
    DEF TInv, Typed, States, Unblocked, Turn, Fenced, Told, Awaited, Resumed, Undecided, EndStays,
        DecisionShown, Run, At, Free, Go
<1> QED BY <1>1, <1>2, <1>3, <1>4, <1>5, <1>6 DEF Kept, Typed, Ledger

LEMMA BeginWriteStep ==
    ASSUME TInv, NEW w \in Writes, BeginWrite(w)
    PROVE  Kept
<1>1. harness'.of = Restrict(harness.of, (DOMAIN harness.of) \ {w})
        /\ worker'.at = "invoke" /\ worker'.on = w /\ step' = [step EXCEPT ![w] = "started"]
    BY DEF BeginWrite
<1>2. /\ w \notin DOMAIN harness'.of /\ DOMAIN harness'.of \subseteq DOMAIN harness.of
     /\ harness'.of \in Reads
     /\ \A v \in DOMAIN harness'.of : harness'.of[v] = harness.of[v]
    <2>1. harness.of \in Reads
        BY DEF TInv, Typed, HarnessTyped
    <2>2. harness'.of \in Reads /\ DOMAIN harness'.of = (DOMAIN harness.of) \ {w}
        BY <2>1, <1>1, RestFacts
    <2>3. \A v \in DOMAIN harness'.of : harness'.of[v] = harness.of[v]
        BY <1>1 DEF Restrict
    <2> QED BY <2>2, <2>3
<1>3. tries' = tries /\ tries[w] = 0
    BY DEF TInv, Ledger, Harmless, BeginWrite, Retryable, outside
<1>4. TaskTyped'
    BY DEF TInv, Typed, TaskTyped, BeginWrite
<1>5. WorkerTyped'
    BY TFacts DEF TInv, Typed, WorkerTyped, Turn, Places, NoWorker, BeginWrite, At, outside
<1>6. OwnerTyped' /\ WakeTyped'
    BY DEF TInv, Typed, OwnerTyped, WakeTyped, BeginWrite
<1>7. HarnessTyped'
    BY <1>2 DEF TInv, Typed, HarnessTyped, BeginWrite
<1>8. JournalTyped'
    BY DEF TInv, Ledger, JournalTyped, Outcomes, BeginWrite, outside
<1>9. Unread'
    BY <1>1, <1>2 DEF Unread
<1>10. Unsubmitted'
    BY <1>1, <1>3 DEF TInv, Ledger, JournalTyped, Unsubmitted
<1>11. Harmless'
    BY DEF TInv, Ledger, Harmless, BeginWrite, outside
<1>12. ReadHarmless'
    BY <1>2, <1>3 DEF TInv, Ledger, ReadHarmless
<1>13. Evident'
    BY DEF TInv, Ledger, Evident, BeginWrite, outside
<1>14. WriteAtMostOnce'
    BY DEF TInv, Ledger, WriteAtMostOnce, BeginWrite, outside
<1>15. Unblocked' /\ Fenced' /\ Undecided' /\ EndStays /\ DecisionShown
    BY DEF TInv, Unblocked, Turn, Fenced, Told, Awaited, Resumed, Undecided, EndStays,
           DecisionShown, BeginWrite, At
<1> QED BY <1>4, <1>5, <1>6, <1>7, <1>8, <1>9, <1>10, <1>11, <1>12, <1>13,
          <1>14, <1>15
       DEF Kept, Typed, Ledger

LEMMA InvokeWriteStep ==
    ASSUME TInv, InvokeWrite
    PROVE  Kept
<1>1. TaskTyped'
    BY CheckpointFacts DEF TInv, Typed, TaskTyped, States, InvokeWrite
<1>2. WorkerTyped'
    BY TFacts
    DEF TInv, Typed, WorkerTyped, Turn, Places, NoWorker, InvokeWrite, At, Authorized, Go, Free,
        outside
<1>3. OwnerTyped' /\ WakeTyped'
    BY DEF TInv, Typed, OwnerTyped, WakeTyped, InvokeWrite
<1>4. HarnessTyped'
    BY DEF TInv, Typed, HarnessTyped, InvokeWrite
<1>5. Ledger'
    BY TFacts
    DEF TInv, Typed, JournalTyped, HarnessTyped, Outcomes, WorkerTyped, Ledger, Unread, Unsubmitted,
        Harmless, ReadHarmless, Evident, WriteAtMostOnce, Turn, InvokeWrite, At, Authorized, Go,
        Free, outside
<1>6. Unblocked' /\ Fenced' /\ Undecided' /\ EndStays /\ DecisionShown
  <2>1. /\ worker.at = "invoke" /\ ~worker.cancel /\ worker'.cancel = worker.cancel
        /\ UNCHANGED <<revoked, owner, consumer>>
    <3>1. worker' = [worker EXCEPT !.at = "think", !.on = NoWrite] \/ worker' = [worker EXCEPT !.at = "run"]
        BY DEF InvokeWrite, Go
    <3>2. worker'.cancel = worker.cancel
        BY <3>1 DEF TInv, Typed, WorkerTyped
    <3> QED
        BY <3>2 DEF InvokeWrite, At
  <2>2. task' = task \/ (Free /\ task' = Checkpoint("waiting_authorization"))
      BY DEF InvokeWrite
  <2>3. task.state \in Ended => task'.state = task.state
      BY <2>2, CheckpointFacts DEF TInv, Typed, States
  <2>4. task'.state = "waiting_input" => task.state = "waiting_input"
      BY <2>2, CheckpointFacts DEF TInv, Typed, States
  <2>5. owner.at = "lock" => task' = task
      BY <2>2 DEF Free
  <2>6. Unblocked'
      BY <2>1, <2>4 DEF TInv, Unblocked, Turn
  <2>7. Fenced'
      BY <2>1 DEF TInv, Fenced, Told, Awaited, Resumed
  <2>8. Undecided'
      BY <2>1, <2>5 DEF TInv, Undecided
  <2> QED
      BY <2>1, <2>3, <2>6, <2>7, <2>8 DEF EndStays, DecisionShown
<1> QED BY <1>1, <1>2, <1>3, <1>4, <1>5, <1>6 DEF Kept, Typed, Ledger

LEMMA SubmitWriteStep ==
    ASSUME TInv, SubmitWrite
    PROVE  Kept
<1>1. worker.on \in Writes
    BY DEF TInv, Ledger, Unread, SubmitWrite, At
<1>2. Typed'
    BY DEF TInv, Typed, TaskTyped, OwnerTyped, WorkerTyped, Turn, Places, WakeTyped, HarnessTyped,
           SubmitWrite, Go
<1>3. JournalTyped'
    BY <1>1 DEF TInv, Ledger, JournalTyped, SubmitWrite
<1>4. Unread'
    BY DEF TInv, Ledger, Unread, SubmitWrite, At, Go
<1>5. Unsubmitted'
    BY DEF Unsubmitted, SubmitWrite, Go
<1>6. Harmless'
    BY DEF TInv, Ledger, Unsubmitted, Harmless, SubmitWrite, At
<1>7. ReadHarmless'
    BY DEF TInv, Ledger, Unread, ReadHarmless, SubmitWrite, At
<1>8. Evident'
    BY DEF TInv, JournalTyped, Ledger, Evident, SubmitWrite
<1>9. WriteAtMostOnce'
    BY DEF TInv, Ledger, Unsubmitted, WriteAtMostOnce, SubmitWrite, At
<1>10. Unblocked' /\ Fenced' /\ Undecided' /\ EndStays /\ DecisionShown
    BY DEF TInv, Unblocked, Fenced, Told, Awaited, Resumed, Undecided, EndStays, DecisionShown,
           SubmitWrite, At, Authorized, Go
<1> QED BY <1>2, <1>3, <1>4, <1>5, <1>6, <1>7, <1>8, <1>9, <1>10 DEF Kept, Typed, Ledger

LEMMA WriteEndsStep ==
    ASSUME TInv, WriteEnds
    PROVE  Kept
<1>1. worker.on \in Writes /\ worker.on \notin DOMAIN harness.of /\ harness' = harness
    BY DEF TInv, Ledger, Unread, WriteEnds, At
<1>2. \A w \in Writes \ {worker.on} : tries'[w] = tries[w]
    BY DEF TInv, Ledger, JournalTyped, WriteEnds, Settles
<1>3. TaskTyped'
    BY CheckpointFacts DEF TInv, Typed, TaskTyped, States, WriteEnds
<1>4. WorkerTyped'
    BY TFacts DEF TInv, Typed, WorkerTyped, Turn, Places, NoWorker, WriteEnds, At, Settles, Free
<1>5. OwnerTyped' /\ WakeTyped'
    BY DEF TInv, Typed, OwnerTyped, WakeTyped, WriteEnds
<1>6. HarnessTyped'
    BY DEF TInv, Typed, HarnessTyped, WriteEnds
<1>7. JournalTyped'
    BY DEF TInv, Ledger, JournalTyped, Outcomes, WriteEnds, Settles
<1>8. Unread'
    BY DEF Unread, WriteEnds
<1>9. Unsubmitted'
    BY DEF Unsubmitted, WriteEnds
<1>10. Harmless'
    BY DEF TInv, JournalTyped, Ledger, Harmless, WriteEnds, Settles
<1>11. ReadHarmless'
    BY <1>1, <1>2 DEF TInv, Typed, Ledger, HarnessTyped, Reads, ReadHarmless
<1>12. Evident'
    BY DEF TInv, JournalTyped, Ledger, Evident, WriteEnds, Settles
<1>13. WriteAtMostOnce'
    BY DEF TInv, JournalTyped, Ledger, WriteAtMostOnce, WriteEnds, Settles
<1>14. Unblocked' /\ Fenced' /\ Undecided' /\ EndStays /\ DecisionShown
    BY CheckpointFacts
    DEF TInv, Typed, States, Unblocked, Turn, Fenced, Told, Awaited, Resumed, Undecided, EndStays,
        DecisionShown, WriteEnds, At, Free
<1> QED BY <1>3, <1>4, <1>5, <1>6, <1>7, <1>8, <1>9, <1>10, <1>11, <1>12, <1>13, <1>14 DEF Kept, Typed, Ledger

LEMMA DeferStep ==
    ASSUME TInv, Defer
    PROVE  Kept
<1>1. task' = [Checkpoint("waiting_event") EXCEPT !.wake = TRUE]
    BY DEF Defer
<1>2. Checkpoint("waiting_event") \in [state : States, wake : BOOLEAN, device : BOOLEAN]
    BY CheckpointFacts DEF TInv, Typed, States, Waiting
<1>3. TaskTyped'
    BY <1>1, <1>2 DEF TaskTyped
<1>4. WorkerTyped'
    BY DEF TInv, Typed, WorkerTyped, Places, Defer, Go
<1>5. OwnerTyped' /\ WakeTyped'
    BY DEF TInv, Typed, OwnerTyped, WakeTyped, Defer
<1>6. HarnessTyped'
    BY DEF TInv, Typed, HarnessTyped, Defer
<1>7. Ledger'
    BY JournalFrame DEF Follows, Defer, Go, outside
<1>8. Unblocked' /\ Fenced' /\ Undecided' /\ EndStays /\ DecisionShown
    BY DEF Ended, Unblocked, Turn, Fenced, Told, Awaited, Resumed, Undecided, EndStays,
           DecisionShown, Defer, At, Free, Go
<1> QED BY <1>3, <1>4, <1>5, <1>6, <1>7, <1>8 DEF Kept, Typed, Ledger

LEMMA ConcludeStep ==
    ASSUME TInv, Conclude
    PROVE  Kept
<1>1. PICK v \in Verdicts : task' = [Checkpoint(v) EXCEPT !.device = @ \/ v = "waiting_event"]
    BY DEF Conclude
<1>2. Checkpoint(v) \in [state : States, wake : BOOLEAN, device : BOOLEAN]
    BY CheckpointFacts DEF TInv, Typed, Verdicts, States, Ended, Waiting
<1>3. TaskTyped'
    BY <1>1, <1>2 DEF TaskTyped
<1>4. WorkerTyped'
    BY DEF TInv, Typed, WorkerTyped, Places, Conclude, Go
<1>5. OwnerTyped' /\ WakeTyped'
    BY DEF TInv, Typed, OwnerTyped, WakeTyped, Conclude
<1>6. HarnessTyped'
    BY DEF TInv, Typed, HarnessTyped, Conclude
<1>7. Ledger'
    BY JournalFrame DEF Follows, Conclude, Go, outside
<1>8. Unblocked' /\ Fenced' /\ Undecided' /\ EndStays /\ DecisionShown
    BY CheckpointFacts
    DEF TInv, Typed, States, Ended, Waiting, Unblocked, Turn, Fenced, Told, Awaited, Resumed,
        Undecided, EndStays, DecisionShown, Conclude, Free, Verdicts, Go
<1> QED BY <1>3, <1>4, <1>5, <1>6, <1>7, <1>8 DEF Kept, Typed, Ledger

LEMMA TimesOutStep ==
    ASSUME TInv, TimesOut
    PROVE  Kept
<1>1. TaskTyped'
    BY CheckpointFacts DEF TInv, Typed, TaskTyped, States, TimesOut
<1>2. WorkerTyped'
    BY DEF TInv, Typed, WorkerTyped, Places, TimesOut, Go
<1>3. OwnerTyped' /\ WakeTyped'
    BY DEF TInv, Typed, OwnerTyped, WakeTyped, TimesOut
<1>4. HarnessTyped'
    BY DEF TInv, Typed, HarnessTyped, TimesOut
<1>5. Ledger'
    BY JournalFrame DEF Follows, TimesOut, Go, outside
<1>6. Unblocked' /\ Fenced' /\ Undecided' /\ EndStays /\ DecisionShown
    BY CheckpointFacts
    DEF TInv, Typed, States, Unblocked, Turn, Fenced, Told, Awaited, Resumed, Undecided, EndStays,
        DecisionShown, TimesOut, Free, Go
<1> QED BY <1>1, <1>2, <1>3, <1>4, <1>5, <1>6 DEF Kept, Typed, Ledger

LEMMA StandDownStep ==
    ASSUME TInv, StandDown
    PROVE  Kept
<1>1. TaskTyped'
    BY DEF TInv, Typed, TaskTyped, StandDown
<1>2. WorkerTyped'
    BY TFacts DEF TInv, Typed, WorkerTyped, Turn, Places, NoWorker, StandDown, At, outside
<1>3. OwnerTyped' /\ WakeTyped'
    BY DEF TInv, Typed, OwnerTyped, WakeTyped, StandDown
<1>4. HarnessTyped'
    BY DEF TInv, Typed, HarnessTyped, StandDown
<1>5. Ledger'
    BY JournalFrame DEF Follows, StandDown, outside
<1>6. Unblocked' /\ Fenced' /\ Undecided' /\ EndStays /\ DecisionShown
    BY DEF TInv, Unblocked, Turn, Fenced, Told, Awaited, Resumed, Undecided, EndStays,
           DecisionShown, StandDown, At
<1> QED BY <1>1, <1>2, <1>3, <1>4, <1>5, <1>6 DEF Kept, Typed, Ledger

LEMMA CancelledStep ==
    ASSUME TInv, Cancelled
    PROVE  Kept
<1>1. Typed'
    BY CheckpointFacts
    DEF TInv, Typed, TaskTyped, OwnerTyped, States, WorkerTyped, Places, NoWorker, WakeTyped,
        HarnessTyped, Cancelled, Armed
<1>2. Ledger'
    BY JournalFrame DEF NoWorker, Follows, Cancelled, outside
<1>3. Unblocked' /\ Fenced' /\ Undecided' /\ EndStays /\ DecisionShown
    BY DEF Ended, Unblocked, Turn, Fenced, Told, Awaited, Resumed, NoWorker, Undecided, EndStays,
           DecisionShown, Cancelled, Free
<1> QED BY <1>1, <1>2, <1>3 DEF Kept, Typed, Ledger

LEMMA LeaveStep ==
    ASSUME TInv, Leave
    PROVE  Kept
<1>1. Typed'
    BY DEF TInv, Typed, TaskTyped, OwnerTyped, WorkerTyped, Places, NoWorker, WakeTyped,
           HarnessTyped, Leave, Armed
<1>2. Ledger'
    BY JournalFrame DEF NoWorker, Follows, Leave, outside
<1>3. Unblocked' /\ Fenced' /\ Undecided' /\ EndStays /\ DecisionShown
    BY DEF Unblocked, Turn, Fenced, Told, Awaited, Resumed, NoWorker, Undecided, EndStays,
           DecisionShown, Leave, Free
<1> QED BY <1>1, <1>2, <1>3 DEF Kept, Typed, Ledger

LEMMA OwnerActsStep ==
    ASSUME TInv, NEW op \in OwnerOps \ {"reconcile"}, OwnerActs(op)
    PROVE  Kept
<1>1. Typed'
    BY TFacts
    DEF TInv, Typed, TaskTyped, OwnerTyped, Revokes, WorkerTyped, WakeTyped, OwnerCalls,
        HarnessTyped, OwnerActs, rows
<1>2. Ledger'
    BY JournalFrame DEF Follows, OwnerActs, rows, outside
<1>3. Unblocked' /\ Fenced' /\ Undecided' /\ EndStays /\ DecisionShown
    BY DEF TInv, Unblocked, Fenced, Told, Awaited, Resumed, Undecided, EndStays, DecisionShown,
           OwnerActs, rows
<1> QED BY <1>1, <1>2, <1>3 DEF Kept, Typed, Ledger

LEMMA OwnerSavesStep ==
    ASSUME TInv, OwnerSaves
    PROVE  Kept
<1>1. TaskTyped'
    BY AfterFacts DEF TInv, Typed, TaskTyped, OwnerTyped, OwnerSaves
<1>2. WorkerTyped'
    <2>1. CASE owner.op # "resume" /\ worker.at # "none"
        BY <2>1 DEF TInv, Typed, WorkerTyped, OwnerSaves
    <2>2. CASE owner.op = "resume" \/ worker.at = "none"
        <3>1. worker' \in {worker, NewWorker} /\ revoked' = revoked
              /\ deferred' = (deferred /\ owner.op # "resume")
            BY <2>2 DEF OwnerSaves, Launched
        <3>2. worker' \in [at : Places, on : Writes \cup {NoWrite}, cancel : BOOLEAN]
            BY <3>1, NewTyped DEF TInv, Typed, WorkerTyped
        <3>3. worker'.at = "none" => worker' = NoWorker
            BY <3>1 DEF TInv, Typed, WorkerTyped, NewWorker
        <3>4. revoked' \in BOOLEAN /\ deferred' \in BOOLEAN
            BY <3>1 DEF TInv, Typed, WorkerTyped
        <3> QED BY <3>2, <3>3, <3>4 DEF WorkerTyped
    <2> QED BY <2>1, <2>2
<1>3. OwnerTyped' /\ WakeTyped'
    BY DEF TInv, Typed, OwnerTyped, WakeTyped, OwnerSaves, Joins, WakeDropped, NoCall
<1>4. HarnessTyped'
    BY DEF TInv, Typed, HarnessTyped, OwnerSaves
<1>5. Ledger'
    BY JournalFrame DEF TInv, Typed, WorkerTyped, Follows, OwnerSaves, outside, Launched, NewWorker
<1>6. Unblocked' /\ Fenced' /\ Undecided' /\ EndStays /\ DecisionShown
    BY AfterFacts
    DEF TInv, Typed, WorkerTyped, OwnerTyped, Unblocked, Fenced, Told, Awaited, Resumed, NoWorker,
        Undecided, EndStays, DecisionShown, OwnerSaves, Joins, WakeDropped, NoCall, Launched,
        NewWorker
<1> QED BY <1>1, <1>2, <1>3, <1>4, <1>5, <1>6 DEF Kept, Typed, Ledger

LEMMA OwnerJoinsStep ==
    ASSUME TInv, OwnerJoins
    PROVE  Kept
<1>1. Typed'
    BY DEF TInv, Typed, TaskTyped, OwnerTyped, WorkerTyped, WakeTyped, HarnessTyped, OwnerJoins,
           rows, WakeDropped, NoCall
<1>2. Ledger'
    BY JournalFrame DEF Follows, OwnerJoins, rows, outside
<1>3. Unblocked' /\ Fenced' /\ Undecided' /\ EndStays /\ DecisionShown
    BY DEF TInv, Unblocked, Fenced, Told, Awaited, Resumed, Undecided, EndStays, DecisionShown,
           OwnerJoins, Joined, rows, WakeDropped, NoCall
<1> QED BY <1>1, <1>2, <1>3 DEF Kept, Typed, Ledger

LEMMA OwnerAuditsStep ==
    ASSUME TInv, OwnerAudits
    PROVE  Kept
<1>1. Typed'
    BY DEF TInv, Typed, TaskTyped, OwnerTyped, WorkerTyped, WakeTyped, HarnessTyped, OwnerAudits,
           NoCall
<1>2. Ledger'
    BY SettledFacts, UnsettledFacts
    DEF TInv, JournalTyped, Ledger, Unread, Unsubmitted, Harmless, ReadHarmless, Evident,
        WriteAtMostOnce, OwnerAudits, Audit, outside, Proven
<1>3. Unblocked' /\ Fenced' /\ Undecided' /\ EndStays /\ DecisionShown
    BY DEF TInv, Unblocked, Fenced, Told, Awaited, Resumed, Undecided, EndStays, DecisionShown,
           OwnerAudits, NoCall
<1> QED BY <1>1, <1>2, <1>3 DEF Kept, Typed, Ledger

LEMMA ReconcileStep ==
    ASSUME TInv, NEW w \in Writes, NEW o \in {"accepted", "rejected"}, Reconcile(w, o)
    PROVE  Kept
<1>1. Typed'
    BY DEF TInv, Typed, TaskTyped, OwnerTyped, States, WorkerTyped, WakeTyped, HarnessTyped,
           Reconcile, memory
<1>2. Ledger'
    BY DEF TInv, JournalTyped, Outcomes, Ledger, Unread, Unsubmitted, Harmless, ReadHarmless,
           Evident, WriteAtMostOnce, Reconcile, outside, memory
<1>3. Unblocked' /\ Fenced' /\ Undecided' /\ EndStays /\ DecisionShown
    BY DEF TInv, Unblocked, Fenced, Told, Awaited, Resumed, Undecided, EndStays, DecisionShown,
           Reconcile, NoCall, memory
<1> QED BY <1>1, <1>2, <1>3 DEF Kept, Typed, Ledger

LEMMA HarnessReadsStep ==
    ASSUME TInv, HarnessReads
    PROVE  Kept
<1>1. \/ harness' = [at |-> "recover", of |-> Unsettled] /\ task.state = "waiting_input"
     \/ harness' = [at |-> "deliver", of |-> <<>>]
    BY DEF HarnessReads
<1>2. UNCHANGED <<step, tries, worker>>
    BY DEF HarnessReads, rows, outside
<1>3. \A w \in DOMAIN harness'.of : harness'.of[w] = step[w] /\ w \in Writes
    BY <1>1, UnsettledFacts DEF TInv, Ledger, Uncertain
<1>4. worker.at \in Turn => DOMAIN harness'.of = {}
    BY <1>1 DEF TInv, Unblocked
<1>5. Typed'
    BY TFacts, UnsettledFacts
    DEF TInv, Typed, Ledger, TaskTyped, OwnerTyped, WorkerTyped, WakeTyped, HarnessTyped,
        HarnessReads, rows
<1>6. JournalTyped'
    BY DEF TInv, Ledger, JournalTyped, HarnessReads, rows, outside
<1>7. Unread'
    BY <1>2, <1>4 DEF TInv, Ledger, Unread, Turn
<1>8. Unsubmitted'
    BY DEF TInv, Ledger, Unsubmitted, HarnessReads, rows, outside
<1>9. Harmless'
    BY DEF TInv, Ledger, Harmless, HarnessReads, rows, outside
<1>10. ReadHarmless'
    BY <1>2, <1>3 DEF TInv, Ledger, Harmless, ReadHarmless
<1>11. Evident'
    BY DEF TInv, Ledger, Evident, HarnessReads, rows, outside
<1>12. WriteAtMostOnce'
    BY DEF TInv, Ledger, WriteAtMostOnce, HarnessReads, rows, outside
<1>13. Unblocked' /\ Fenced' /\ Undecided' /\ EndStays /\ DecisionShown
    BY DEF TInv, Unblocked, Fenced, Told, Awaited, Resumed, Undecided, EndStays, DecisionShown,
           HarnessReads, rows
<1> QED BY <1>5, <1>6, <1>7, <1>8, <1>9, <1>10, <1>11, <1>12, <1>13 DEF Kept, Typed, Ledger

LEMMA HarnessGivesUpStep ==
    ASSUME TInv, HarnessGivesUp
    PROVE  Kept
<1>1. Typed'
    BY TFacts
    DEF TInv, Typed, TaskTyped, OwnerTyped, WorkerTyped, WakeTyped, HarnessTyped, HarnessGivesUp,
        Idle, rows
<1>2. Ledger'
    BY JournalFrame DEF Follows, HarnessGivesUp, Idle, rows, outside
<1>3. Unblocked' /\ Fenced' /\ Undecided' /\ EndStays /\ DecisionShown
    BY DEF TInv, Unblocked, Fenced, Told, Awaited, Resumed, Undecided, EndStays, DecisionShown,
           HarnessGivesUp, rows
<1> QED BY <1>1, <1>2, <1>3 DEF Kept, Typed, Ledger

LEMMA HarnessSettlesStep ==
    ASSUME TInv, HarnessSettles
    PROVE  Kept
<1>1. Typed'
    BY TFacts
    DEF TInv, Typed, TaskTyped, OwnerTyped, WorkerTyped, WakeTyped, HarnessTyped, HarnessSettles
<1>2. Ledger'
    BY SettledFacts
    DEF TInv, Typed, JournalTyped, HarnessTyped, Ledger, Unread, Unsubmitted, Harmless,
        ReadHarmless, Evident, WriteAtMostOnce, HarnessSettles, outside
<1>3. Unblocked' /\ Fenced' /\ Undecided' /\ EndStays /\ DecisionShown
    BY DEF TInv, Unblocked, Fenced, Told, Awaited, Resumed, Undecided, EndStays, DecisionShown,
           HarnessSettles
<1> QED BY <1>1, <1>2, <1>3 DEF Kept, Typed, Ledger

LEMMA HarnessQueuesStep ==
    ASSUME TInv, HarnessQueues
    PROVE  Kept
<1>1. Typed'
  <2>1. TaskTyped'
      BY CheckpointFacts DEF TInv, Typed, TaskTyped, States, HarnessQueues
  <2>2. WorkerTyped'
      BY NewTyped DEF TInv, Typed, WorkerTyped, HarnessQueues, Launched, NewWorker
  <2>3. OwnerTyped' /\ WakeTyped'
      BY DEF TInv, Typed, OwnerTyped, WakeTyped, HarnessQueues
  <2>4. HarnessTyped'
      BY TFacts DEF HarnessTyped, HarnessQueues, Idle
  <2> QED
      BY <2>1, <2>2, <2>3, <2>4 DEF Typed
<1>2. Ledger'
    BY JournalFrame DEF Follows, HarnessQueues, Idle, outside, Launched, NewWorker
<1>3. Unblocked' /\ Fenced' /\ Undecided' /\ EndStays /\ DecisionShown
    BY CheckpointFacts
    DEF TInv, Typed, States, Unblocked, Turn, Fenced, Told, Awaited, Resumed, Undecided, EndStays,
        DecisionShown, HarnessQueues, Free, Launched, NewWorker
<1> QED BY <1>1, <1>2, <1>3 DEF Kept, Typed, Ledger

LEMMA HarnessCompletesStep ==
    ASSUME TInv, HarnessCompletes
    PROVE  Kept
<1>1. TaskTyped'
    BY CheckpointFacts
    DEF TInv, Typed, TaskTyped, OwnerTyped, Revokes, States, Ended, Waiting, HarnessCompletes, Free,
        Idle, outside
<1>2. WorkerTyped'
    BY DEF TInv, Typed, WorkerTyped, HarnessCompletes
<1>3. OwnerTyped' /\ WakeTyped'
    BY DEF TInv, Typed, OwnerTyped, WakeTyped, HarnessCompletes
<1>4. HarnessTyped'
    BY TFacts DEF HarnessTyped, HarnessCompletes, Idle
<1>5. Ledger'
    BY JournalFrame DEF Follows, HarnessCompletes, Idle, outside
<1>6. Unblocked' /\ Fenced' /\ Undecided' /\ EndStays /\ DecisionShown
    BY CheckpointFacts
    DEF TInv, Typed, States, Ended, Unblocked, Fenced, Told, Awaited, Resumed, Undecided, EndStays,
        DecisionShown, HarnessCompletes, Free
<1> QED BY <1>1, <1>2, <1>3, <1>4, <1>5, <1>6 DEF Kept, Typed, Ledger

LEMMA TimerFiresStep ==
    ASSUME TInv, TimerFires
    PROVE  Kept
<1>1. Typed'
    BY CheckpointFacts
    DEF TInv, Typed, TaskTyped, OwnerTyped, States, WorkerTyped, WakeTyped, HarnessTyped, TimerFires
<1>2. Ledger'
    BY JournalFrame DEF Follows, TimerFires, outside
<1>3. Unblocked' /\ Fenced' /\ Undecided' /\ EndStays /\ DecisionShown
    BY CheckpointFacts
    DEF TInv, Typed, States, Unblocked, Fenced, Told, Awaited, Resumed, Undecided, EndStays,
        DecisionShown, TimerFires, Free
<1> QED BY <1>1, <1>2, <1>3 DEF Kept, Typed, Ledger

LEMMA ConsumeReadsStep ==
    ASSUME TInv, ConsumeReads
    PROVE  Kept
<1>1. Typed'
    BY DEF TInv, Typed, TaskTyped, OwnerTyped, WorkerTyped, WakeTyped, HarnessTyped, ConsumeReads,
           Consumed
<1>2. Ledger'
    BY JournalFrame DEF Follows, ConsumeReads, outside
<1>3. Unblocked' /\ Fenced' /\ Undecided' /\ EndStays /\ DecisionShown
    BY DEF TInv, Unblocked, Fenced, Told, Awaited, Resumed, Undecided, EndStays, DecisionShown,
           ConsumeReads, Consumed
<1> QED BY <1>1, <1>2, <1>3 DEF Kept, Typed, Ledger

LEMMA ConsumeDecidesStep ==
    ASSUME TInv, ConsumeDecides
    PROVE  Kept
<1>1. Checkpoint("waiting_event") \in [state : States, wake : BOOLEAN, device : BOOLEAN]
    BY CheckpointFacts DEF TInv, Typed, States, Waiting
<1>2. \/ task' = task
     \/ \E b \in BOOLEAN : task' = [Checkpoint("waiting_event") EXCEPT !.wake = b]
    BY DEF ConsumeDecides
<1>3. TaskTyped'
    BY <1>2, <1>1 DEF TInv, Typed, TaskTyped
<1>4. WorkerTyped'
    BY TFacts
    DEF TInv, Typed, WorkerTyped, Turn, Places, NoWorker, ConsumeDecides, Consumed, Free, outside
<1>5. OwnerTyped' /\ WakeTyped'
    BY DEF TInv, Typed, OwnerTyped, WakeTyped, ConsumeDecides, Consumed
<1>6. HarnessTyped'
    BY DEF TInv, Typed, HarnessTyped, ConsumeDecides
<1>7. Ledger'
    BY JournalFrame DEF Follows, ConsumeDecides, outside
<1>8. Unblocked' /\ Fenced' /\ Undecided' /\ EndStays /\ DecisionShown
    BY CheckpointFacts
    DEF TInv, Typed, States, Waiting, Unblocked, Fenced, Told, Awaited, Resumed, Undecided,
        EndStays, DecisionShown, ConsumeDecides, Free
<1> QED BY <1>3, <1>4, <1>5, <1>6, <1>7, <1>8 DEF Kept, Typed, Ledger

LEMMA ConsumeQueuesStep ==
    ASSUME TInv, ConsumeQueues
    PROVE  Kept
<1>1. TaskTyped'
    BY CheckpointFacts
    DEF TInv, Typed, TaskTyped, OwnerTyped, Revokes, States, Ended, Waiting, ConsumeQueues, Free,
        Consumed, outside, Launched, NewWorker
<1>2. WorkerTyped'
    BY DEF TInv, Typed, WorkerTyped, Places, ConsumeQueues, Launched, NewWorker
<1>3. OwnerTyped' /\ WakeTyped'
    BY DEF TInv, Typed, OwnerTyped, WakeTyped, ConsumeQueues, Consumed
<1>4. HarnessTyped'
    BY DEF TInv, Typed, HarnessTyped, ConsumeQueues
<1>5. Ledger'
    BY JournalFrame DEF Follows, ConsumeQueues, outside, Launched, NewWorker
<1>6. Unblocked' /\ Fenced' /\ Undecided' /\ EndStays /\ DecisionShown
    BY CheckpointFacts
    DEF TInv, Typed, States, Unblocked, Turn, Fenced, Told, Awaited, Resumed, Undecided, EndStays,
        DecisionShown, ConsumeQueues, Free, Launched, NewWorker
<1> QED BY <1>1, <1>2, <1>3, <1>4, <1>5, <1>6 DEF Kept, Typed, Ledger

LEMMA RestartStep ==
    ASSUME TInv, Restart
    PROVE  Kept
<1>1. worker' \in {NewWorker, NoWorker} /\ revoked' = FALSE /\ deferred' = FALSE
    BY DEF Restart
<1>2. TaskTyped'
    BY DEF TInv, Typed, TaskTyped, States, Waiting, Restart, Resumes
<1>3. WorkerTyped'
    <2>1. worker' \in [at : Places, on : Writes \cup {NoWrite}, cancel : BOOLEAN]
        BY <1>1, NewTyped, NoTyped
    <2>2. worker'.at = "none" => worker' = NoWorker
        BY <1>1 DEF NewWorker
    <2> QED BY <2>1, <2>2, <1>1 DEF WorkerTyped
<1>4. OwnerTyped' /\ WakeTyped'
    BY DEF TInv, Typed, OwnerTyped, WakeTyped, Restart, NoCall
<1>5. HarnessTyped'
    BY TFacts DEF HarnessTyped, Restart, Idle
<1>6. Ledger'
    BY SettledFacts, UnsettledFacts
    DEF TInv, JournalTyped, Ledger, Unread, Unsubmitted, Harmless, ReadHarmless, Evident,
        WriteAtMostOnce, Restart, Idle, Audit, NewWorker, NoWorker, outside
<1>7. Unblocked' /\ Fenced' /\ Undecided' /\ EndStays /\ DecisionShown
    BY DEF Ended, Unblocked, Turn, Fenced, Told, Awaited, Resumed, NoWorker, Undecided, EndStays,
           DecisionShown, Restart, NoCall, NewWorker
<1> QED BY <1>2, <1>3, <1>4, <1>5, <1>6, <1>7 DEF Kept, Typed, Ledger

LEMMA ApplyStep ==
    ASSUME TInv, NEW w \in Writes, Apply(w)
    PROVE  Kept
<1>1. Typed'
    BY DEF TInv, Typed, TaskTyped, OwnerTyped, WorkerTyped, WakeTyped, HarnessTyped, Apply, memory
<1>2. Ledger'
    BY DEF TInv, JournalTyped, Ledger, Unread, Unsubmitted, Harmless, ReadHarmless, Evident,
           WriteAtMostOnce, Apply, memory
<1>3. Unblocked' /\ Fenced' /\ Undecided' /\ EndStays /\ DecisionShown
    BY DEF TInv, Unblocked, Fenced, Told, Awaited, Resumed, Undecided, EndStays, DecisionShown,
           Apply, memory
<1> QED BY <1>1, <1>2, <1>3 DEF Kept, Typed, Ledger

------------------------------------------------------------------------------
(* The invariant and what it gives. *)

LEMMA InitHolds == TInit => TInv
<1> SUFFICES ASSUME TInit PROVE TInv
    OBVIOUS
<1>1. Typed
    <2>1. TaskTyped
        BY DEF TInit, TaskTyped, States, Waiting
    <2>2. WorkerTyped
        BY NewTyped, NoTyped DEF TInit, WorkerTyped, NewWorker
    <2>3. OwnerTyped /\ HarnessTyped /\ WakeTyped
        BY TFacts DEF TInit, OwnerTyped, HarnessTyped, WakeTyped, NoCall, Idle
    <2> QED BY <2>1, <2>2, <2>3 DEF Typed
<1>2. FreshTyped
    BY DEF TInit, FreshTyped
<1>3. Ledger
    <2>1. worker.at \notin {"invoke", "run", "await"}
        BY DEF TInit, NewWorker, NoWorker
    <2>2. DOMAIN harness.of = {}
        BY DEF TInit, Idle
    <2> QED BY <2>1, <2>2 DEF TInit, Ledger, JournalTyped, Outcomes, Unread, Unsubmitted, Harmless,
            ReadHarmless, Evident, WriteAtMostOnce
<1>4. Unblocked /\ Fenced /\ Undecided
    BY DEF TInit, Unblocked, Fenced, Told, Awaited, Resumed, Undecided, NoCall, NewWorker, NoWorker,
           Turn
<1> QED BY <1>1, <1>2, <1>3, <1>4 DEF TInv

LEMMA StepKeeps ==
    ASSUME TInv, Worker \/ Owner \/ Harness \/ TimerFires \/ Consumer \/ Restart
                 \/ \E w \in Writes : Apply(w)
    PROVE  Kept
<1>1. CASE Worker
    BY <1>1, TakeSlotStep, RunStep, InvokeWriteStep, SubmitWriteStep, WriteEndsStep, DeferStep,
       ConcludeStep, TimesOutStep, StandDownStep, CancelledStep, LeaveStep, BeginWriteStep
    DEF Worker
<1>2. CASE Owner
    BY <1>2, OwnerActsStep, OwnerSavesStep, OwnerJoinsStep, OwnerAuditsStep, ReconcileStep DEF Owner
<1>3. CASE Harness
    BY <1>3, HarnessReadsStep, HarnessGivesUpStep, HarnessSettlesStep, HarnessQueuesStep,
       HarnessCompletesStep
    DEF Harness
<1>4. CASE Consumer
    BY <1>4, ConsumeReadsStep, ConsumeDecidesStep, ConsumeQueuesStep DEF Consumer
<1>5. CASE TimerFires \/ Restart \/ \E w \in Writes : Apply(w)
    BY <1>5, TimerFiresStep, RestartStep, ApplyStep
<1> QED BY <1>1, <1>2, <1>3, <1>4, <1>5

LEMMA NextHolds == TInv /\ [TNext]_tvars => TInv'
<1> SUFFICES ASSUME TInv, [TNext]_tvars PROVE TInv'
    OBVIOUS
<1>1. CASE TNext
    <2>1. Kept
        BY <1>1, StepKeeps DEF TNext
    <2>2. FreshTyped'
        BY <1>1, <2>1 DEF TNext, Watch, Kept, DecisionShown, TInv, FreshTyped
    <2> QED BY <2>1, <2>2 DEF TInv, Kept
<1>2. CASE UNCHANGED tvars
    BY <1>2
    DEF tvars, rows, memory, outside, TInv, Typed, TaskTyped, WorkerTyped, OwnerTyped, HarnessTyped,
        WakeTyped, FreshTyped, Ledger, JournalTyped, Unread, Unsubmitted, Harmless, ReadHarmless,
        Evident, WriteAtMostOnce, Unblocked, Fenced, Told, Awaited, Resumed, Undecided
<1> QED BY <1>1, <1>2

LEMMA Invariance == TSpec => []TInv
BY InitHolds, NextHolds, PTL DEF TSpec

\* Every variable stays in its range, for any writes and any choice of the owner's calls.
THEOREM AgentTasksTyped == TSpec => []TTypeOK
<1>1. TInv => TTypeOK
    <2> SUFFICES ASSUME TInv PROVE TTypeOK
        OBVIOUS
    <2>1. /\ DOMAIN harness.of \subseteq Writes /\ harness.at \in {"idle", "recover", "queue", "deliver"}
          /\ \A w \in DOMAIN harness.of : harness.of[w] \in {"started", "unknown", "refused"}
        BY ReadFacts DEF TInv, Typed, HarnessTyped
    <2>2. Ledger /\ TaskTyped /\ WorkerTyped /\ OwnerTyped /\ WakeTyped /\ FreshTyped
        BY DEF TInv, Typed
    <2> QED BY <2>1, <2>2 DEF TTypeOK, Ledger, TaskTyped, JournalTyped, WorkerTyped, OwnerTyped,
            WakeTyped, FreshTyped, Outcomes, Places, Turn
<1> QED BY <1>1, Invariance, PTL

\* No write is submitted again while its effect may exist (_TaskGateway.invoke,
\* recover_uncertain, reconcile), over any number of attempts, restarts and reports.
THEOREM WritesAreSubmittedOnce == TSpec => []WriteAtMostOnce
<1>1. TInv => WriteAtMostOnce
    BY DEF TInv, Ledger
<1> QED BY <1>1, Invariance, PTL

\* A revocation whose call has joined the worker leaves no worker beyond its slot
\* (action, update_authorization, _launch).
THEOREM RevocationsStopWorkers == TSpec => []RevokedIsStopped
<1>1. TInv => RevokedIsStopped
    BY DEF TInv, Fenced, Told, Awaited, RevokedIsStopped
<1> QED BY <1>1, Invariance, PTL

\* A task that has ended keeps its state (update_checkpoint, complete_delivery).
THEOREM TaskEndsAreFinal == TSpec => TaskEndIsFinal
<1>1. TInv /\ [TNext]_tvars => [(task.state \in Ended) => task'.state = task.state]_tvars
    BY StepKeeps DEF TNext, Kept, EndStays
<1> QED BY <1>1, Invariance, PTL DEF TSpec, TaskEndIsFinal
===============================================================================
