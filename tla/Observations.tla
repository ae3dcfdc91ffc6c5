------------------------------ MODULE Observations ------------------------------
(***************************************************************************)
(* The journal of observations the owner harness works through: every      *)
(* revision of a source record in a room the runtime processes becomes one *)
(* row, a newer revision supersedes the rows of older ones, and three      *)
(* workers claim rows under a lease, process them in batches of one room   *)
(* and settle them.  Every claim, cohort, settlement, release, review and  *)
(* ingestion is one transaction; a worker awaits between them.             *)
(*                                                                         *)
(* Due times are left out: a pending row may be claimed whenever a worker  *)
(* looks.  A lease of 360 s runs out at any time after its worker is gone, *)
(* and, MaxOverruns times, while the worker still holds it: the checks     *)
(* before the processing, unlike the processing, have no timeout.          *)
(***************************************************************************)
EXTENDS Naturals, FiniteSets, Functions

CONSTANTS
    Sources,        \* the source records
    RoomOf,         \* the room of each
    Historical,     \* the revisions ingested as history
    MaxRevision,    \* how often each is revised
    MaxAttempts,    \* attempts >= 5 in settle
    Workers,
    MaxSetbacks,    \* stops, crashes, failing checks and retries of the owner
    MaxOverruns     \* leases that end while their worker is at work

ASSUME ObservationAssumption ==
    /\ DOMAIN RoomOf = Sources
    /\ MaxRevision \in [Sources -> Nat] /\ MaxAttempts \in Nat \ {0}
    /\ MaxSetbacks \in Nat /\ MaxOverruns \in Nat

VARIABLES
    head,       \* the knowledge record of each source: its revision, whether deleted
    row,        \* harness_observations.state
    attempts,   \* attempts in the payload of a row
    expired,    \* the running rows whose lease is over
    receipts,   \* harness_processing_receipts
    worker,     \* phase of each worker and the attempts of the rows it still has to settle
    setbacks, overruns

ovars == <<head, row, attempts, expired, receipts, worker, setbacks, overruns>>

Rows    == UNION {{s} \X (1..MaxRevision[s]) : s \in Sources}
Room(o) == RoomOf[o[1]]
Past(o) == o \in Historical

Idle == [phase |-> "idle", todo |-> <<>>, good |-> <<>>]

OInit ==
    /\ head = [s \in Sources |-> [revision |-> 0, deleted |-> FALSE]]
    /\ row = [o \in Rows |-> "absent"] /\ attempts = [o \in Rows |-> 0]
    /\ expired = {} /\ receipts = {} /\ worker = [w \in Workers |-> Idle]
    /\ setbacks = 0 /\ overruns = 0

------------------------------------------------------------------------------
\* The rows a worker still has in hand.
Held(w) == DOMAIN worker[w].todo \cup DOMAIN worker[w].good

\* observe_in: a new revision supersedes what is not yet done with the older ones.
Obsolete == {"pending", "running", "failed"}

Observe(s, deleted) ==
    /\ head[s].revision < MaxRevision[s] /\ ~head[s].deleted
    /\ LET r == head[s].revision + 1 IN
       /\ head' = [head EXCEPT ![s] = [revision |-> r, deleted |-> deleted]]
       /\ row' = [o \in Rows |->
                    IF o[1] = s /\ o[2] < r /\ row[o] \in Obsolete THEN "superseded"
                    ELSE IF o = <<s, r>> /\ ~deleted THEN "pending" ELSE row[o]]
    /\ UNCHANGED <<attempts, expired, receipts, worker, setbacks, overruns>>

\* Fault: a claim leaves the rows of a dead worker running.
FaultSwept == row

\* Fault: a claim takes back every running row.
FaultSweepsAll == [o \in Rows |-> IF row[o] = "running" THEN "pending" ELSE row[o]]

\* claim first takes back the rows whose lease is over.
Swept == [o \in Rows |-> IF row[o] = "running" /\ o \in expired THEN "pending" ELSE row[o]]

\* A pending row of a room with nothing running; one historical row at a time.
Claimable(o, rows) ==
    /\ rows[o] = "pending"
    /\ \A r \in Rows : rows[r] = "running" => Room(r) # Room(o) /\ ~(Past(r) /\ Past(o))

Claim(w) ==
    /\ worker[w].phase = "idle"
    /\ LET rows == Swept
           open == {o \in Rows : Claimable(o, rows)}
           live == {o \in open : ~Past(o)}
       IN  \/ /\ open = {} /\ expired # {} /\ row' = rows /\ UNCHANGED worker
           \/ \E o \in (IF live = {} THEN open ELSE live) :
                 /\ row' = [rows EXCEPT ![o] = "running"]
                 /\ worker' = [worker EXCEPT ![w] =
                        [phase |-> "cohort", todo |-> [x \in {o} |-> attempts[o]], good |-> <<>>]]
    /\ expired' = {}
    /\ UNCHANGED <<head, attempts, receipts, setbacks, overruns>>

\* cohort: further pending rows of the room and the mode, as many as fit.
Cohort(w) ==
    /\ worker[w].phase = "cohort"
    /\ \E o \in DOMAIN worker[w].todo :
       \E more \in SUBSET {p \in Rows : row[p] = "pending" /\ Room(p) = Room(o) /\ (Past(p) <=> Past(o))} :
          /\ row' = [p \in Rows |-> IF p \in more THEN "running" ELSE row[p]]
          /\ worker' = [worker EXCEPT ![w] =
                [phase |-> "check", good |-> <<>>,
                 todo  |-> [p \in more \cup {o} |->
                              IF p = o THEN worker[w].todo[o] ELSE attempts[p]]]]
    /\ UNCHANGED <<head, attempts, expired, receipts, setbacks, overruns>>

\* Fault: a settlement changes the row whatever has become of it.
FaultSettled(o, state) == [row EXCEPT ![o] = state]

\* settle and release_observation write only a row that is still running.
Settled(o, state) == IF row[o] = "running" THEN [row EXCEPT ![o] = state] ELSE row

\* Fault: the receipt is written for a failed attempt too.
FaultReceipted(o, failed) == receipts \cup {o}

\* A receipt says that this revision needs no processing any more.
Receipted(o, failed) == IF failed THEN receipts ELSE receipts \cup {o}

Verdict(n, failed) == IF n >= MaxAttempts THEN "failed" ELSE IF failed THEN "pending" ELSE "done"

\* settle, with the attempts the worker read when it claimed the row.
Settle(o, before, failed) ==
    LET n == IF failed THEN before + 1 ELSE before
    IN  /\ row' = Settled(o, Verdict(n, failed))
        /\ attempts' = IF row[o] = "running" THEN [attempts EXCEPT ![o] = n] ELSE attempts
        /\ expired' = expired \ {o} /\ receipts' = Receipted(o, failed)

\* The source is as the row saw it; policies may make it ineligible all the same.
Current(o) == head[o[1]].revision = o[2] /\ ~head[o[1]].deleted

\* The candidates that are left decide: go on checking, process, or nothing to do.
Checked(todo, good) ==
    IF DOMAIN todo # {} THEN [phase |-> "check", todo |-> todo, good |-> good]
    ELSE IF DOMAIN good # {} THEN [phase |-> "process", todo |-> <<>>, good |-> good]
    ELSE Idle

Check(w) ==
    /\ worker[w].phase = "check"
    /\ \E o \in DOMAIN worker[w].todo :
       LET todo == worker[w].todo
           good == worker[w].good
           rest == Restrict(todo, DOMAIN todo \ {o})
       IN  \/ /\ Current(o)
              /\ worker' = [worker EXCEPT ![w] = Checked(rest,
                      [p \in DOMAIN good \cup {o} |-> IF p = o THEN todo[o] ELSE good[p]])]
              /\ UNCHANGED <<row, attempts, expired, receipts>>
           \/ Settle(o, todo[o], FALSE) /\ worker' = [worker EXCEPT ![w] = Checked(rest, good)]
    /\ UNCHANGED <<head, setbacks, overruns>>

\* _process succeeds or fails for the whole batch.
Processed(w) ==
    /\ worker[w].phase = "process"
    /\ \E end \in {"success", "failure"} : worker' = [worker EXCEPT ![w].phase = end]
    /\ UNCHANGED <<head, row, attempts, expired, receipts, setbacks, overruns>>

SettleNext(w) ==
    /\ worker[w].phase \in {"success", "failure"}
    /\ \E o \in DOMAIN worker[w].good :
       LET rest == Restrict(worker[w].good, DOMAIN worker[w].good \ {o})
       IN  /\ Settle(o, worker[w].good[o], worker[w].phase = "failure")
           /\ worker' = [worker EXCEPT ![w] =
                 IF DOMAIN rest = {} THEN Idle ELSE [worker[w] EXCEPT !.good = rest]]
    /\ UNCHANGED <<head, setbacks, overruns>>

\* An await before the processing raises: nothing is settled, the lease has to end.
CheckFails(w) ==
    /\ worker[w].phase \in {"cohort", "check"} /\ setbacks < MaxSetbacks /\ setbacks' = setbacks + 1
    /\ worker' = [worker EXCEPT ![w] = Idle]
    /\ UNCHANGED <<head, row, attempts, expired, receipts, overruns>>

\* stop() cancels every worker, and a worker that is processing releases its rows;
\* a crash, and a cancellation elsewhere, leave them running.
Stop ==
    /\ setbacks < MaxSetbacks /\ setbacks' = setbacks + 1
    /\ \E kind \in {"stop", "crash"} :
       LET released == IF kind = "crash" THEN {}
                       ELSE UNION {Held(w) : w \in {v \in Workers : worker[v].phase = "process"}}
       IN  row' = [o \in Rows |-> IF o \in released /\ row[o] = "running" THEN "pending" ELSE row[o]]
    /\ worker' = [w \in Workers |-> Idle]
    /\ UNCHANGED <<head, attempts, expired, receipts, overruns>>

\* lease_until passes.
LeaseEnds(o) ==
    /\ row[o] = "running" /\ o \notin expired /\ expired' = expired \cup {o}
    /\ \/ (\A w \in Workers : o \notin Held(w)) /\ UNCHANGED overruns
       \/ (\E w \in Workers : o \in Held(w)) /\ overruns < MaxOverruns /\ overruns' = overruns + 1
    /\ UNCHANGED <<head, row, attempts, receipts, worker, setbacks>>

\* review_observation: the owner has a failed row tried again or drops it.
Review(o, retry) ==
    /\ row[o] = "failed"
    /\ IF retry THEN setbacks < MaxSetbacks /\ setbacks' = setbacks + 1 ELSE UNCHANGED setbacks
    /\ row' = [row EXCEPT ![o] = IF retry THEN "pending" ELSE "done"]
    /\ attempts' = IF retry THEN [attempts EXCEPT ![o] = 0] ELSE attempts
    /\ receipts' = IF retry THEN receipts ELSE receipts \cup {o}
    /\ UNCHANGED <<head, expired, worker, overruns>>

WorkerStep(w) == Claim(w) \/ Cohort(w) \/ Check(w) \/ Processed(w) \/ SettleNext(w)

ONext ==
    \/ \E s \in Sources, d \in BOOLEAN : Observe(s, d)
    \/ \E w \in Workers : WorkerStep(w) \/ CheckFails(w)
    \/ Stop
    \/ \E o \in Rows : LeaseEnds(o)
    \/ \E o \in Rows, retry \in BOOLEAN : Review(o, retry)

OSpec == OInit /\ [][ONext]_ovars

\* asyncio runs every worker, and time passes.
OFairness ==
    /\ \A w \in Workers : WF_ovars(WorkerStep(w))
    /\ \A o \in Rows : WF_ovars(LeaseEnds(o))

OLiveSpec == OSpec /\ OFairness

------------------------------------------------------------------------------
(* Properties.                                                              *)

\* Every variable stays in its range; a row exists for what was ingested.
OTypeOK ==
    /\ head \in [Sources -> [revision : Nat, deleted : BOOLEAN]]
    /\ \A s \in Sources : head[s].revision <= MaxRevision[s]
    /\ row \in [Rows -> {"absent", "pending", "running", "done", "failed", "superseded"}]
    /\ attempts \in [Rows -> 0..MaxAttempts]
    /\ expired \subseteq Rows /\ receipts \subseteq Rows
    /\ \A w \in Workers :
          /\ worker[w].phase \in {"idle", "cohort", "check", "process", "success", "failure"}
          /\ \A o \in DOMAIN worker[w].todo : o \in Rows /\ worker[w].todo[o] \in 0..MaxAttempts
          /\ \A o \in DOMAIN worker[w].good : o \in Rows /\ worker[w].good[o] \in 0..MaxAttempts
    /\ \A o \in Rows : row[o] # "absent" => o[2] <= head[o[1]].revision
    /\ setbacks \in 0..MaxSetbacks /\ overruns \in 0..MaxOverruns

\* As long as no lease ends before its worker, a running row is in the hands of one
\* worker.  (Of a whole room this is not true: a row that is superseded between
\* claim and cohort frees the room, and cohort does not look again.)
OneWorkerPerRow ==
    overruns = 0 =>
        \A v, w \in Workers : v # w => \A o \in Held(v) \cap Held(w) : row[o] # "running"

\* A revision with a receipt is not processed again unless a lease ended early: its
\* row is done, superseded, or never comes back to the queue.
ReceiptIsFinal ==
    overruns = 0 => \A o \in receipts : row[o] \notin {"pending", "failed"}

\* Once a newer revision has superseded a row, nothing revives it: not the worker
\* that still processes it, not a lease that ends, not the owner's review.
SupersededStays == [][\A o \in Rows : (row[o] = "superseded") => row'[o] = "superseded"]_ovars

\* Every observation comes to an end, through failed attempts, crashes and leases:
\* done, superseded, or failed and before the owner.
EveryObservationEnds ==
    \A o \in Rows : (row[o] = "pending") ~> (row[o] \in {"done", "failed", "superseded"})
=============================================================================
