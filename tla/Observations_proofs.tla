-------------------------- MODULE Observations_proofs --------------------------
(***************************************************************************)
(* The safety of Observations for every set of sources, rooms, revisions   *)
(* and workers, any number of setbacks and overruns.  What a worker holds, *)
(* the lease of a row and its receipt belong together as long as no lease  *)
(* ends before its worker (Leased); superseded rows need no such premise.  *)
(***************************************************************************)
EXTENDS Observations, TLAPS

Phases == {"idle", "cohort", "check", "process", "success", "failure"}
States == {"absent", "pending", "running", "done", "failed", "superseded"}

\* What a worker carries: rows with the attempts it read, which were not used up.
Batches == UNION {[D -> 0..(MaxAttempts - 1)] : D \in SUBSET Rows}
Jobs    == {j \in [phase : Phases, todo : Batches, good : Batches] :
               DOMAIN j.todo \cap DOMAIN j.good = {}}

Typed ==
    /\ head \in [Sources -> [revision : Nat, deleted : BOOLEAN]]
    /\ \A s \in Sources : head[s].revision <= MaxRevision[s]
    /\ row \in [Rows -> States]
    /\ attempts \in [Rows -> 0..MaxAttempts]
    /\ expired \subseteq Rows /\ receipts \subseteq Rows
    /\ worker \in [Workers -> Jobs]
    /\ setbacks \in 0..MaxSetbacks /\ overruns \in 0..MaxOverruns

\* A row exists for what was ingested.
Ingested == \A o \in Rows : row[o] # "absent" => o[2] <= head[o[1]].revision

\* A row that may still be tried has an attempt left.
Triable == \A o \in Rows : row[o] \in {"absent", "pending", "running"} => attempts[o] < MaxAttempts

\* No lease of a row in hand has ended, and nobody but Observe touches it.
InHand ==
    \A w \in Workers : \A o \in Held(w) : o \notin expired /\ row[o] \in {"running", "superseded"}
Lost == \A o \in expired : row[o] \in {"running", "superseded"}
Single == \A v, w \in Workers : v # w => \A o \in Held(v) \cap Held(w) : row[o] # "running"
Filed == \A o \in receipts : row[o] \in {"done", "superseded"}

Leased == InHand /\ Lost /\ Single /\ Filed

OInv == Typed /\ Ingested /\ Triable /\ (overruns = 0 => Leased)

Stays == \A o \in Rows : row[o] = "superseded" => row'[o] = "superseded"

------------------------------------------------------------------------------
(* Rows and batches. *)

LEMMA RowFacts ==
    /\ \A o \in Rows : o[1] \in Sources /\ o[2] \in Nat /\ o = <<o[1], o[2]>>
    /\ \A s \in Sources : \A r \in Nat : r \in 1..MaxRevision[s] => <<s, r>> \in Rows
BY ObservationAssumption DEF Rows

LEMMA Bounds == MaxAttempts \in Nat /\ MaxAttempts > 0 /\ MaxSetbacks \in Nat /\ MaxOverruns \in Nat
BY ObservationAssumption

LEMMA BatchFacts ==
    ASSUME NEW f \in Batches
    PROVE  /\ DOMAIN f \subseteq Rows
           /\ \A o \in DOMAIN f : f[o] \in 0..MaxAttempts /\ f[o] < MaxAttempts
<1>1. PICK D \in SUBSET Rows : f \in [D -> 0..(MaxAttempts - 1)]
    BY DEF Batches
<1> QED BY <1>1, Bounds

LEMMA BatchOf ==
    ASSUME NEW D \in SUBSET Rows, NEW f \in [D -> 0..(MaxAttempts - 1)]
    PROVE  f \in Batches /\ DOMAIN f = D
BY DEF Batches

LEMMA NoBatch == <<>> \in Batches /\ DOMAIN <<>> = {}
<1>1. <<>> \in [{} -> 0..(MaxAttempts - 1)] /\ DOMAIN <<>> = {}
    OBVIOUS
<1> QED BY <1>1, BatchOf

LEMMA RestOf ==
    ASSUME NEW f \in Batches, NEW S \in SUBSET DOMAIN f
    PROVE  Restrict(f, S) \in Batches /\ DOMAIN Restrict(f, S) = S
<1>1. Restrict(f, S) \in [S -> 0..(MaxAttempts - 1)] /\ S \in SUBSET Rows
    BY BatchFacts, Bounds DEF Restrict
<1> QED BY <1>1, BatchOf

LEMMA IdleJob == Idle \in Jobs /\ Idle.phase = "idle" /\ DOMAIN Idle.todo = {} /\ DOMAIN Idle.good = {}
BY NoBatch DEF Idle, Jobs, Phases

\* What a worker with the job j holds.
HoldOf(j) == DOMAIN j.todo \cup DOMAIN j.good

LEMMA HoldFacts ==
    ASSUME Typed, NEW w \in Workers
    PROVE  /\ worker[w] \in Jobs /\ Held(w) = HoldOf(worker[w]) /\ Held(w) \subseteq Rows
           /\ \A o \in DOMAIN worker[w].todo :
                 worker[w].todo[o] \in 0..MaxAttempts /\ worker[w].todo[o] < MaxAttempts
           /\ \A o \in DOMAIN worker[w].good :
                 worker[w].good[o] \in 0..MaxAttempts /\ worker[w].good[o] < MaxAttempts
<1>1. worker[w] \in Jobs
    BY DEF Typed
<1>2. worker[w].todo \in Batches /\ worker[w].good \in Batches
    BY <1>1 DEF Jobs
<1> QED BY <1>1, <1>2, BatchFacts DEF Held, HoldOf

\* The next job of one worker.
LEMMA NextJob ==
    ASSUME Typed, NEW w \in Workers, NEW j \in Jobs, worker' = [worker EXCEPT ![w] = j]
    PROVE  /\ worker' \in [Workers -> Jobs]
           /\ Held(w)' = HoldOf(j)
           /\ \A v \in Workers \ {w} : Held(v)' = Held(v)
BY DEF Typed, Held, HoldOf

------------------------------------------------------------------------------
(* Every step keeps the invariant and leaves superseded rows alone. *)

Kept == OInv' /\ Stays

LEMMA ObserveStep ==
    ASSUME OInv, NEW s \in Sources, NEW deleted \in BOOLEAN, Observe(s, deleted)
    PROVE  Kept
<1> DEFINE r == head[s].revision + 1
<1>0. Typed /\ Ingested /\ Triable
    BY DEF OInv
<1>1. r \in Nat /\ r \in 1..MaxRevision[s] /\ r > head[s].revision /\ <<s, r>> \in Rows
    <2>1. head[s].revision \in Nat /\ MaxRevision[s] \in Nat
        BY <1>0, ObservationAssumption DEF Typed
    <2>2. r \in 1..MaxRevision[s]
        BY <2>1 DEF Observe
    <2> QED BY <2>1, <2>2, RowFacts
<1>2. row[<<s, r>>] = "absent"
    BY <1>0, <1>1 DEF Ingested, Typed
<1>3. /\ head' = [head EXCEPT ![s] = [revision |-> r, deleted |-> deleted]]
      /\ UNCHANGED <<attempts, expired, receipts, worker, setbacks, overruns>>
      /\ row' \in [Rows -> States]
      /\ \A o \in Rows : \/ row'[o] = row[o]
                         \/ row[o] \in Obsolete /\ row'[o] = "superseded"
                         \/ o = <<s, r>> /\ row'[o] = "pending"
    BY <1>0, <1>1 DEF Observe, Typed, States, Obsolete
<1>4. Typed'
    BY <1>0, <1>1, <1>3 DEF Typed
<1>5. Ingested'
    <2>1. \A t \in Sources : head'[t].revision \in Nat /\ head[t].revision <= head'[t].revision
        BY <1>0, <1>1, <1>3 DEF Typed
    <2>2. head'[s].revision = r
        BY <1>0, <1>3 DEF Typed
    <2>3. ASSUME NEW o \in Rows, row'[o] # "absent"
          PROVE  o[2] <= head'[o[1]].revision
        <3>1. CASE row[o] # "absent"
            <4>1. o[2] <= head[o[1]].revision /\ o[1] \in Sources /\ o[2] \in Nat
                BY <1>0, <3>1, RowFacts DEF Ingested
            <4> QED BY <4>1, <2>1, <1>0 DEF Typed
        <3>2. CASE o = <<s, r>>
            BY <3>2, <2>2, <1>1
        <3> QED BY <2>3, <3>1, <3>2, <1>3 DEF Obsolete
    <2> QED BY <2>3 DEF Ingested
<1>6. Triable'
    BY <1>0, <1>1, <1>2, <1>3 DEF Triable, Typed
<1>7. ASSUME overruns = 0
      PROVE  Leased'
    <2>1. Leased
        BY <1>7 DEF OInv
    <2>2. \A o \in Rows : row[o] \in {"running", "superseded"} => row'[o] \in {"running", "superseded"}
        BY <1>2, <1>3
    <2>3. \A o \in Rows : row'[o] = "running" => row[o] = "running"
        BY <1>3
    <2>4. InHand'
        BY <1>0, <1>3, <2>1, <2>2, HoldFacts DEF Leased, InHand, Held
    <2>5. Lost' /\ Filed'
        BY <1>0, <1>2, <1>3, <2>1, <2>2 DEF Leased, Lost, Filed, Typed, Obsolete
    <2>6. Single'
        BY <1>0, <1>3, <2>1, <2>3, HoldFacts DEF Leased, Single, Held
    <2> QED BY <2>4, <2>5, <2>6 DEF Leased
<1>8. Stays
    BY <1>2, <1>3 DEF Stays, Obsolete
<1> QED BY <1>3, <1>4, <1>5, <1>6, <1>7, <1>8 DEF Kept, OInv

\* A worker that keeps, or drops, what it holds disturbs nothing.
LEMMA JobShrinks ==
    ASSUME OInv, NEW w \in Workers, NEW j \in Jobs, HoldOf(j) \subseteq Held(w),
           worker' = [worker EXCEPT ![w] = j], setbacks' \in 0..MaxSetbacks,
           UNCHANGED <<head, row, attempts, expired, receipts, overruns>>
    PROVE  Kept
<1>0. Typed /\ Ingested /\ Triable
    BY DEF OInv
<1>1. /\ worker' \in [Workers -> Jobs]
      /\ \A v \in Workers : Held(v)' \subseteq Held(v)
    BY <1>0, NextJob
<1>2. Typed'
    BY <1>0, <1>1 DEF Typed
<1>3. Ingested' /\ Triable' /\ Stays
    BY <1>0 DEF Ingested, Triable, Stays
<1>4. ASSUME overruns = 0
      PROVE  Leased'
    <2>1. Leased
        BY <1>4 DEF OInv
    <2>2. InHand'
        BY <1>1, <2>1 DEF Leased, InHand
    <2>3. Lost' /\ Filed'
        BY <2>1 DEF Leased, Lost, Filed
    <2>4. Single'
        BY <1>1, <2>1 DEF Leased, Single
    <2> QED BY <2>2, <2>3, <2>4 DEF Leased
<1> QED BY <1>2, <1>3, <1>4 DEF Kept, OInv

\* settle of a row in hand, which leaves the hands of its worker.
LEMMA SettleKeeps ==
    ASSUME OInv, NEW w \in Workers, NEW o \in Held(w), NEW before \in 0..MaxAttempts,
           before < MaxAttempts, NEW failed \in BOOLEAN, Settle(o, before, failed),
           NEW j \in Jobs, HoldOf(j) \subseteq Held(w) \ {o},
           worker' = [worker EXCEPT ![w] = j], UNCHANGED <<head, setbacks, overruns>>
    PROVE  Kept
<1> DEFINE n == IF failed THEN before + 1 ELSE before
<1>0. Typed /\ Ingested /\ Triable /\ o \in Rows
    BY HoldFacts DEF OInv
<1>1. n \in 0..MaxAttempts
    BY Bounds
<1>2. /\ Verdict(n, failed) \in {"pending", "failed", "done"}
      /\ Verdict(n, failed) = "pending" => n < MaxAttempts
      /\ ~failed => Verdict(n, failed) = "done"
    BY Bounds DEF Verdict
<1>3. /\ row' = IF row[o] = "running" THEN [row EXCEPT ![o] = Verdict(n, failed)] ELSE row
      /\ attempts' = IF row[o] = "running" THEN [attempts EXCEPT ![o] = n] ELSE attempts
      /\ expired' = expired \ {o}
      /\ receipts' \in {receipts, receipts \cup {o}}
      /\ failed => receipts' = receipts
    BY DEF Settle, Settled, Receipted
<1>4. /\ worker' \in [Workers -> Jobs]
      /\ Held(w)' \subseteq Held(w) \ {o}
      /\ \A v \in Workers : Held(v)' \subseteq Held(v)
    BY <1>0, NextJob
<1> HIDE DEF n
<1>5. Typed'
    BY <1>0, <1>1, <1>2, <1>3, <1>4 DEF Typed, States
<1>6. Ingested' /\ Stays
    BY <1>0, <1>2, <1>3 DEF Typed, Ingested, Stays
<1>7. Triable'
    BY <1>0, <1>1, <1>2, <1>3 DEF Typed, Triable
<1>8. ASSUME overruns = 0
      PROVE  Leased'
    <2>1. Leased
        BY <1>8 DEF OInv
    <2>2. row[o] \in {"running", "superseded"}
        BY <2>1 DEF Leased, InHand
    <2>3. \A v \in Workers : o \in Held(v)' => row[o] # "running"
        BY <1>4, <2>1 DEF Leased, Single
    <2>4. \A q \in Rows : q # o \/ row[o] # "running" => row'[q] = row[q]
        BY <1>0, <1>3 DEF Typed
    <2>5. InHand'
        <3> SUFFICES ASSUME NEW v \in Workers, NEW q \in Held(v)'
                     PROVE  q \notin expired' /\ row'[q] \in {"running", "superseded"}
            BY DEF InHand
        <3>1. q \in Held(v) /\ q \in Rows
            BY <1>0, <1>4, HoldFacts
        <3>2. q \notin expired /\ row[q] \in {"running", "superseded"}
            BY <2>1, <3>1 DEF Leased, InHand
        <3> QED BY <1>3, <2>3, <2>4, <3>1, <3>2
    <2>6. Lost'
        BY <1>0, <1>3, <2>1, <2>4 DEF Leased, Lost, Typed
    <2>7. Filed'
        <3> SUFFICES ASSUME NEW q \in receipts' PROVE row'[q] \in {"done", "superseded"}
            BY DEF Filed
        <3>1. CASE q = o /\ row[o] = "running"
            <4>1. q \notin receipts
                BY <2>1, <3>1 DEF Leased, Filed
            <4>2. ~failed
                BY <1>3, <4>1
            <4> QED BY <1>0, <1>2, <1>3, <3>1, <4>2 DEF Typed
        <3>2. CASE ~(q = o /\ row[o] = "running")
            <4>1. q \in Rows /\ row'[q] = row[q]
                BY <1>0, <1>3, <2>4, <3>2 DEF Typed
            <4>2. q \in receipts \/ q = o
                BY <1>3
            <4> QED BY <2>1, <2>2, <3>2, <4>1, <4>2 DEF Leased, Filed
        <3> QED BY <3>1, <3>2
    <2>8. Single'
        <3> SUFFICES ASSUME NEW v \in Workers, NEW u \in Workers, v # u,
                            NEW q \in Held(v)' \cap Held(u)'
                     PROVE  row'[q] # "running"
            BY DEF Single
        <3>1. q \in Held(v) \cap Held(u) /\ q \in Rows
            BY <1>0, <1>4, HoldFacts
        <3>2. row[q] # "running"
            BY <2>1, <3>1 DEF Leased, Single
        <3> QED BY <2>3, <2>4, <3>1, <3>2
    <2> QED BY <2>5, <2>6, <2>7, <2>8 DEF Leased
<1> QED BY <1>3, <1>5, <1>6, <1>7, <1>8 DEF Kept, OInv

LEMMA ProcessedStep ==
    ASSUME OInv, NEW w \in Workers, Processed(w)
    PROVE  Kept
<1>0. Typed
    BY DEF OInv
<1>1. PICK end \in {"success", "failure"} : worker' = [worker EXCEPT ![w].phase = end]
    BY DEF Processed
<1> DEFINE j == [worker[w] EXCEPT !.phase = end]
<1>2. j \in Jobs /\ HoldOf(j) = Held(w)
    BY <1>0, HoldFacts DEF Jobs, Phases, HoldOf
<1>3. worker' = [worker EXCEPT ![w] = j]
    BY <1>1
<1>4. setbacks' \in 0..MaxSetbacks
    BY <1>0 DEF Processed, Typed
<1> HIDE DEF j
<1> QED BY <1>2, <1>3, <1>4, JobShrinks DEF Processed

LEMMA CheckFailsStep ==
    ASSUME OInv, NEW w \in Workers, CheckFails(w)
    PROVE  Kept
<1>0. Typed
    BY DEF OInv
<1>1. setbacks' \in 0..MaxSetbacks
    BY <1>0, Bounds DEF CheckFails, Typed
<1>2. HoldOf(Idle) = {}
    BY IdleJob DEF HoldOf
<1> QED BY <1>1, <1>2, IdleJob, JobShrinks DEF CheckFails

LEMMA SettleNextStep ==
    ASSUME OInv, NEW w \in Workers, SettleNext(w)
    PROVE  Kept
<1> DEFINE job == worker[w]
<1>0. Typed /\ job \in Jobs
    BY HoldFacts DEF OInv
<1>1. PICK o \in DOMAIN job.good :
          LET rest == Restrict(job.good, DOMAIN job.good \ {o})
          IN  /\ Settle(o, job.good[o], job.phase = "failure")
              /\ worker' = [worker EXCEPT ![w] =
                    IF DOMAIN rest = {} THEN Idle ELSE [job EXCEPT !.good = rest]]
    BY DEF SettleNext
<1> DEFINE rest == Restrict(job.good, DOMAIN job.good \ {o})
           j == IF DOMAIN rest = {} THEN Idle ELSE [job EXCEPT !.good = rest]
<1>2. rest \in Batches /\ DOMAIN rest = DOMAIN job.good \ {o}
    BY <1>0, RestOf DEF Jobs
<1>3. DOMAIN job.todo \cap DOMAIN job.good = {} /\ o \in Held(w)
    BY <1>0, HoldFacts DEF Jobs, HoldOf
<1>4. [job EXCEPT !.good = rest] \in Jobs
    <2> HIDE DEF rest
    <2> QED BY <1>0, <1>2, <1>3 DEF Jobs
<1>5. j \in Jobs /\ HoldOf(j) \subseteq Held(w) \ {o}
    <2>1. HoldOf([job EXCEPT !.good = rest]) = DOMAIN job.todo \cup (DOMAIN job.good \ {o})
        <3> HIDE DEF rest
        <3> QED BY <1>0, <1>2 DEF Jobs, HoldOf
    <2>2. HoldOf(Idle) = {}
        BY IdleJob DEF HoldOf
    <2>3. Held(w) = DOMAIN job.todo \cup DOMAIN job.good
        BY DEF Held
    <2> HIDE DEF rest
    <2> QED BY <1>3, <1>4, <2>1, <2>2, <2>3, IdleJob
<1>6. job.good[o] \in 0..MaxAttempts /\ job.good[o] < MaxAttempts
    BY <1>0, HoldFacts
<1>7. worker' = [worker EXCEPT ![w] = j] /\ Settle(o, job.good[o], job.phase = "failure")
    BY <1>1
<1>8. UNCHANGED <<head, setbacks, overruns>>
    BY DEF SettleNext
<1> HIDE DEF j
<1> QED BY <1>3, <1>5, <1>6, <1>7, <1>8, SettleKeeps

LEMMA CheckedJob ==
    ASSUME NEW todo \in Batches, NEW good \in Batches, DOMAIN todo \cap DOMAIN good = {}
    PROVE  Checked(todo, good) \in Jobs /\ HoldOf(Checked(todo, good)) = DOMAIN todo \cup DOMAIN good
BY NoBatch, IdleJob DEF Checked, Jobs, Phases, HoldOf

LEMMA CheckStep ==
    ASSUME OInv, NEW w \in Workers, Check(w)
    PROVE  Kept
<1> DEFINE todo == worker[w].todo
           good == worker[w].good
           rest(o) == Restrict(todo, DOMAIN todo \ {o})
           more(o) == [p \in DOMAIN good \cup {o} |-> IF p = o THEN todo[o] ELSE good[p]]
<1>0. /\ Typed /\ todo \in Batches /\ good \in Batches /\ DOMAIN todo \cap DOMAIN good = {}
      /\ Held(w) = DOMAIN todo \cup DOMAIN good
    BY HoldFacts DEF OInv, Jobs, HoldOf
<1>1. PICK o \in DOMAIN todo :
         \/ /\ worker' = [worker EXCEPT ![w] = Checked(rest(o), more(o))]
            /\ UNCHANGED <<row, attempts, expired, receipts>>
         \/ Settle(o, todo[o], FALSE) /\ worker' = [worker EXCEPT ![w] = Checked(rest(o), good)]
    BY DEF Check
<1>2. /\ rest(o) \in Batches /\ DOMAIN rest(o) = DOMAIN todo \ {o}
      /\ o \in Rows /\ todo[o] \in 0..MaxAttempts /\ todo[o] < MaxAttempts
    BY <1>0, RestOf, BatchFacts
<1>3. more(o) \in Batches /\ DOMAIN more(o) = DOMAIN good \cup {o}
    <2>1. \A p \in DOMAIN good : p \in Rows /\ good[p] \in 0..(MaxAttempts - 1)
        BY <1>0, BatchFacts, Bounds
    <2>2. todo[o] \in 0..(MaxAttempts - 1)
        BY <1>2, Bounds
    <2>3. more(o) \in [DOMAIN good \cup {o} -> 0..(MaxAttempts - 1)]
        BY <2>1, <2>2
    <2>4. DOMAIN good \cup {o} \in SUBSET Rows
        BY <1>2, <2>1
    <2> QED BY <2>3, <2>4, BatchOf
<1>4. UNCHANGED <<head, setbacks, overruns>> /\ setbacks' \in 0..MaxSetbacks
    BY <1>0 DEF Check, Typed
<1>5. CASE /\ worker' = [worker EXCEPT ![w] = Checked(rest(o), more(o))]
           /\ UNCHANGED <<row, attempts, expired, receipts>>
    <2>1. Checked(rest(o), more(o)) \in Jobs /\ HoldOf(Checked(rest(o), more(o))) = Held(w)
        <3> HIDE DEF rest, more
        <3>1. DOMAIN rest(o) \cap DOMAIN more(o) = {}
            BY <1>0, <1>2, <1>3
        <3> QED BY <1>0, <1>2, <1>3, <3>1, CheckedJob
    <2> HIDE DEF rest, more
    <2> QED BY <1>4, <1>5, <2>1, JobShrinks
<1>6. CASE Settle(o, todo[o], FALSE) /\ worker' = [worker EXCEPT ![w] = Checked(rest(o), good)]
    <2>1. Checked(rest(o), good) \in Jobs /\ HoldOf(Checked(rest(o), good)) = Held(w) \ {o}
        <3> HIDE DEF rest
        <3>1. DOMAIN rest(o) \cap DOMAIN good = {}
            BY <1>0, <1>2
        <3> QED BY <1>0, <1>2, <3>1, CheckedJob
    <2>2. o \in Held(w)
        BY <1>0
    <2> HIDE DEF rest
    <2> QED BY <1>2, <1>4, <1>6, <2>1, <2>2, SettleKeeps
<1> QED BY <1>1, <1>5, <1>6

LEMMA ClaimStep ==
    ASSUME OInv, NEW w \in Workers, Claim(w)
    PROVE  Kept
<1>0. Typed /\ Ingested /\ Triable
    BY DEF OInv
<1>1. /\ Swept \in [Rows -> States]
      /\ \A q \in Rows : Swept[q] = IF row[q] = "running" /\ q \in expired THEN "pending" ELSE row[q]
    BY <1>0 DEF Swept, Typed, States
<1>2. expired' = {} /\ UNCHANGED <<head, attempts, receipts, setbacks, overruns>>
    BY DEF Claim
<1>3. CASE row' = Swept /\ UNCHANGED worker
    <2>1. Typed' /\ Ingested' /\ Triable' /\ Stays
        BY <1>0, <1>1, <1>2, <1>3 DEF Typed, Ingested, Triable, Stays, States
    <2>2. ASSUME overruns = 0
          PROVE  Leased'
        BY <1>0, <1>1, <1>2, <1>3, <2>2, HoldFacts
        DEF OInv, Leased, InHand, Lost, Single, Filed, Held, Typed
    <2> QED BY <1>2, <2>1, <2>2 DEF Kept, OInv
<1>4. ASSUME NEW o \in Rows, Swept[o] = "pending", row' = [Swept EXCEPT ![o] = "running"],
             worker' = [worker EXCEPT ![w] =
                 [phase |-> "cohort", todo |-> [x \in {o} |-> attempts[o]], good |-> <<>>]]
      PROVE  Kept
    <2> DEFINE f == [x \in {o} |-> attempts[o]]
               j == [phase |-> "cohort", todo |-> f, good |-> <<>>]
    <2>1. f \in Batches /\ DOMAIN f = {o}
        <3>1. attempts[o] \in 0..(MaxAttempts - 1)
            <4>1. row[o] \in {"pending", "running"} /\ attempts[o] \in 0..MaxAttempts
                BY <1>0, <1>1, <1>4 DEF Typed
            <4> QED BY <1>0, <4>1, Bounds DEF Triable
        <3>2. f \in [{o} -> 0..(MaxAttempts - 1)] /\ {o} \in SUBSET Rows
            BY <3>1
        <3> HIDE DEF f
        <3> QED BY <3>2, BatchOf
    <2>2. j \in Jobs /\ HoldOf(j) = {o}
        <3> HIDE DEF f
        <3> QED BY <2>1, NoBatch DEF Jobs, Phases, HoldOf
    <2>3. worker' = [worker EXCEPT ![w] = j]
        BY <1>4
    <2>4. /\ worker' \in [Workers -> Jobs] /\ Held(w)' = {o}
          /\ \A v \in Workers \ {w} : Held(v)' = Held(v)
        <3> HIDE DEF j
        <3> QED BY <1>0, <2>2, <2>3, NextJob
    <2> HIDE DEF f, j
    <2>5. \A q \in Rows : row'[q] = IF q = o THEN "running" ELSE Swept[q]
        BY <1>1, <1>4
    <2>6. Typed' /\ Ingested' /\ Triable' /\ Stays
        BY <1>0, <1>1, <1>2, <1>4, <2>4, <2>5 DEF Typed, Ingested, Triable, Stays, States
    <2>7. ASSUME overruns = 0
          PROVE  Leased'
        <3>1. Leased
            BY <2>7 DEF OInv
        <3>2. row[o] = "pending" \/ (row[o] = "running" /\ o \in expired)
            BY <1>1, <1>4
        <3>3. \A v \in Workers : o \notin Held(v) /\ o \notin receipts
            BY <3>1, <3>2 DEF Leased, InHand, Filed
        <3>4. \A v \in Workers \ {w} : \A q \in Held(v) : row'[q] = row[q] /\ q \in Rows
            BY <1>0, <1>1, <2>5, <3>1, <3>3, HoldFacts DEF Leased, InHand
        <3>5. InHand'
            BY <1>2, <1>4, <2>4, <2>5, <3>1, <3>4 DEF Leased, InHand
        <3>6. Lost'
            BY <1>2 DEF Lost
        <3>7. Filed'
            BY <1>0, <1>1, <1>2, <2>5, <3>1, <3>3 DEF Leased, Filed, Typed
        <3>8. Single'
            BY <2>4, <3>1, <3>3, <3>4 DEF Leased, Single
        <3> QED BY <3>5, <3>6, <3>7, <3>8 DEF Leased
    <2> QED BY <1>2, <2>6, <2>7 DEF Kept, OInv
<1>5. \/ row' = Swept /\ UNCHANGED worker
      \/ \E o \in Rows :
            /\ Swept[o] = "pending" /\ row' = [Swept EXCEPT ![o] = "running"]
            /\ worker' = [worker EXCEPT ![w] =
                 [phase |-> "cohort", todo |-> [x \in {o} |-> attempts[o]], good |-> <<>>]]
    BY DEF Claim, Claimable
<1> QED BY <1>3, <1>4, <1>5

LEMMA CohortStep ==
    ASSUME OInv, NEW w \in Workers, Cohort(w)
    PROVE  Kept
<1>0. Typed /\ Ingested /\ Triable
    BY DEF OInv
<1>1. PICK o \in DOMAIN worker[w].todo, more \in SUBSET {q \in Rows : row[q] = "pending"} :
          /\ row' = [q \in Rows |-> IF q \in more THEN "running" ELSE row[q]]
          /\ worker' = [worker EXCEPT ![w] =
                [phase |-> "check", good |-> <<>>,
                 todo  |-> [p \in more \cup {o} |->
                              IF p = o THEN worker[w].todo[o] ELSE attempts[p]]]]
    BY DEF Cohort
<1>2. o \in Rows /\ o \in Held(w) /\ more \subseteq Rows
    BY <1>0, HoldFacts DEF Held
<1> DEFINE f == [p \in more \cup {o} |-> IF p = o THEN worker[w].todo[o] ELSE attempts[p]]
           j == [phase |-> "check", good |-> <<>>, todo |-> f]
<1>3. f \in Batches /\ DOMAIN f = more \cup {o}
    <2>1. worker[w].todo[o] \in 0..(MaxAttempts - 1)
        BY <1>0, HoldFacts, Bounds
    <2>2. \A p \in more : attempts[p] \in 0..(MaxAttempts - 1)
        BY <1>0, Bounds DEF Typed, Triable
    <2>3. f \in [more \cup {o} -> 0..(MaxAttempts - 1)] /\ more \cup {o} \in SUBSET Rows
        BY <1>2, <2>1, <2>2
    <2> HIDE DEF f
    <2> QED BY <2>3, BatchOf
<1>4. j \in Jobs /\ HoldOf(j) = more \cup {o}
    <2> HIDE DEF f
    <2> QED BY <1>3, NoBatch DEF Jobs, Phases, HoldOf
<1>5. worker' = [worker EXCEPT ![w] = j]
    BY <1>1
<1>6. /\ worker' \in [Workers -> Jobs] /\ Held(w)' = more \cup {o}
      /\ \A v \in Workers \ {w} : Held(v)' = Held(v)
    <2> HIDE DEF j
    <2> QED BY <1>0, <1>4, <1>5, NextJob
<1> HIDE DEF f, j
<1>7. UNCHANGED <<head, attempts, expired, receipts, setbacks, overruns>>
    BY DEF Cohort
<1>8. Typed' /\ Ingested' /\ Triable' /\ Stays
    BY <1>0, <1>1, <1>6, <1>7 DEF Typed, Ingested, Triable, Stays, States
<1>9. ASSUME overruns = 0
      PROVE  Leased'
    <2>1. Leased
        BY <1>9 DEF OInv
    <2>2. \A v \in Workers : more \cap Held(v) = {} /\ more \cap receipts = {}
        BY <2>1 DEF Leased, InHand, Filed
    <2>3. more \cap expired = {}
        BY <2>1 DEF Leased, Lost
    <2>4. \A q \in Rows \ more : row'[q] = row[q]
        BY <1>1
    <2>5. \A v \in Workers : \A q \in Held(v) : q \in Rows \ more /\ row'[q] = row[q]
        BY <1>0, <2>2, <2>4, HoldFacts
    <2>6. InHand'
        BY <1>1, <1>2, <1>6, <1>7, <2>1, <2>3, <2>5 DEF Leased, InHand
    <2>7. Lost' /\ Filed'
        BY <1>0, <1>7, <2>1, <2>2, <2>3, <2>4 DEF Leased, Lost, Filed, Typed
    <2>8. Single'
        BY <1>2, <1>6, <2>1, <2>2, <2>5 DEF Leased, Single
    <2> QED BY <2>6, <2>7, <2>8 DEF Leased
<1> QED BY <1>7, <1>8, <1>9 DEF Kept, OInv

LEMMA StopStep ==
    ASSUME OInv, Stop
    PROVE  Kept
<1>0. Typed /\ Ingested /\ Triable
    BY DEF OInv
<1>1. /\ worker' = [w \in Workers |-> Idle] /\ setbacks' \in 0..MaxSetbacks
      /\ UNCHANGED <<head, attempts, expired, receipts, overruns>>
    BY <1>0, Bounds DEF Stop, Typed
<1> DEFINE processing == UNION {Held(w) : w \in {v \in Workers : worker[v].phase = "process"}}
           releases(kind) == IF kind = "crash" THEN {} ELSE processing
<1>a. PICK kind \in {"stop", "crash"} :
          row' = [q \in Rows |-> IF q \in releases(kind) /\ row[q] = "running" THEN "pending" ELSE row[q]]
    BY DEF Stop
<1> DEFINE released == releases(kind)
<1>b. \A q \in released : \E w \in Workers : q \in Held(w)
    OBVIOUS
<1> HIDE DEF released
<1>2. /\ \A q \in released : \E w \in Workers : q \in Held(w)
      /\ row' = [q \in Rows |-> IF q \in released /\ row[q] = "running" THEN "pending" ELSE row[q]]
    BY <1>a, <1>b DEF released
<1>3. worker' \in [Workers -> Jobs] /\ \A w \in Workers : Held(w)' = {}
    BY <1>1, IdleJob DEF Held
<1>4. Typed' /\ Ingested' /\ Triable' /\ Stays
    BY <1>0, <1>1, <1>2, <1>3 DEF Typed, Ingested, Triable, Stays, States
<1>5. ASSUME overruns = 0
      PROVE  Leased'
    <2>1. Leased
        BY <1>5 DEF OInv
    <2>2. InHand' /\ Single'
        BY <1>3 DEF InHand, Single
    <2>3. Lost'
        BY <1>0, <1>1, <1>2, <2>1 DEF Leased, Lost, InHand, Typed
    <2>4. Filed'
        BY <1>0, <1>1, <1>2, <2>1 DEF Leased, Filed, Typed
    <2> QED BY <2>2, <2>3, <2>4 DEF Leased
<1> QED BY <1>1, <1>4, <1>5 DEF Kept, OInv

LEMMA LeaseEndsStep ==
    ASSUME OInv, NEW o \in Rows, LeaseEnds(o)
    PROVE  Kept
<1>0. Typed /\ Ingested /\ Triable
    BY DEF OInv
<1>1. /\ row[o] = "running" /\ expired' = expired \cup {o}
      /\ UNCHANGED <<head, row, attempts, receipts, worker, setbacks>>
      /\ \/ (\A w \in Workers : o \notin Held(w)) /\ overruns' = overruns
         \/ overruns < MaxOverruns /\ overruns' = overruns + 1
    BY DEF LeaseEnds
<1>2. Typed' /\ Ingested' /\ Triable' /\ Stays
    BY <1>0, <1>1, Bounds DEF Typed, Ingested, Triable, Stays
<1>3. ASSUME overruns' = 0
      PROVE  Leased'
    <2>1. overruns = 0 /\ \A w \in Workers : o \notin Held(w)
        BY <1>0, <1>1, <1>3, Bounds DEF Typed
    <2>2. Leased
        BY <2>1 DEF OInv
    <2> QED BY <1>1, <2>1, <2>2 DEF Leased, InHand, Lost, Single, Filed, Held
<1> QED BY <1>2, <1>3 DEF Kept, OInv

LEMMA ReviewStep ==
    ASSUME OInv, NEW o \in Rows, NEW retry \in BOOLEAN, Review(o, retry)
    PROVE  Kept
<1>0. Typed /\ Ingested /\ Triable
    BY DEF OInv
<1>1. /\ row[o] = "failed" /\ row' = [row EXCEPT ![o] = IF retry THEN "pending" ELSE "done"]
      /\ attempts' = IF retry THEN [attempts EXCEPT ![o] = 0] ELSE attempts
      /\ receipts' = IF retry THEN receipts ELSE receipts \cup {o}
      /\ setbacks' \in 0..MaxSetbacks /\ UNCHANGED <<head, expired, worker, overruns>>
    BY <1>0, Bounds DEF Review, Typed
<1>2. \A q \in Rows : q # o => row'[q] = row[q]
    BY <1>0, <1>1 DEF Typed
<1>3. Typed' /\ Ingested' /\ Triable' /\ Stays
    BY <1>0, <1>1, Bounds DEF Typed, Ingested, Triable, Stays, States
<1>4. ASSUME overruns = 0
      PROVE  Leased'
    <2>1. Leased
        BY <1>4 DEF OInv
    <2>2. (\A w \in Workers : o \notin Held(w)) /\ o \notin expired /\ o \notin receipts
        BY <1>1, <2>1 DEF Leased, InHand, Lost, Filed
    <2>3. InHand' /\ Single'
        BY <1>0, <1>1, <1>2, <2>1, <2>2, HoldFacts DEF Leased, InHand, Single, Held
    <2>4. Lost' /\ Filed'
        BY <1>0, <1>1, <1>2, <2>1, <2>2 DEF Leased, Lost, Filed, Typed
    <2> QED BY <2>3, <2>4 DEF Leased
<1> QED BY <1>1, <1>3, <1>4 DEF Kept, OInv

------------------------------------------------------------------------------
(* The theorems. *)

LEMMA OInitSafe == OInit => OInv
<1> SUFFICES ASSUME OInit
             PROVE  OInv
    OBVIOUS
<1> USE DEF OInit
<1>1. worker \in [Workers -> Jobs] /\ \A w \in Workers : Held(w) = {}
    BY IdleJob DEF Held
<1>2. Typed
    BY <1>1, Bounds, ObservationAssumption DEF Typed, States
<1>3. Ingested /\ Triable
    BY Bounds DEF Ingested, Triable
<1>4. Leased
    BY <1>1 DEF Leased, InHand, Lost, Single, Filed
<1> QED BY <1>2, <1>3, <1>4 DEF OInv

LEMMA ONextSafe == OInv /\ [ONext]_ovars => Kept
<1>1. ASSUME OInv, UNCHANGED ovars
      PROVE  Kept
    BY <1>1 DEF ovars, Kept, Stays, OInv, Typed, Ingested, Triable, Leased, InHand, Lost, Single,
                Filed, Held
<1>2. ASSUME OInv, NEW w \in Workers, WorkerStep(w) \/ CheckFails(w)
      PROVE  Kept
    BY <1>2, ClaimStep, CohortStep, CheckStep, ProcessedStep, SettleNextStep, CheckFailsStep
    DEF WorkerStep
<1> QED BY <1>1, <1>2, ObserveStep, StopStep, LeaseEndsStep, ReviewStep DEF ONext

LEMMA OInvariance == OSpec => []OInv
<1>1. OInv /\ [ONext]_ovars => OInv'
    BY ONextSafe DEF Kept
<1> QED BY OInitSafe, <1>1, PTL DEF OSpec

\* Rows, attempts, receipts and the hands of every worker stay in their types; no row
\* is tried more often than settle allows.
THEOREM ObservationsTyped == OSpec => []OTypeOK
<1>1. OInv => OTypeOK
    <2> SUFFICES ASSUME OInv
                 PROVE  OTypeOK
        OBVIOUS
    <2>1. \A w \in Workers :
              /\ worker[w].phase \in Phases
              /\ \A o \in DOMAIN worker[w].todo : o \in Rows /\ worker[w].todo[o] \in 0..MaxAttempts
              /\ \A o \in DOMAIN worker[w].good : o \in Rows /\ worker[w].good[o] \in 0..MaxAttempts
        BY HoldFacts DEF OInv, Jobs, HoldOf
    <2> QED BY <2>1 DEF OInv, Typed, Ingested, OTypeOK, Phases, States
<1> QED BY <1>1, OInvariance, PTL

\* While every lease outlives its worker, a running row is in the hands of one worker,
\* however claims, cohorts, settlements, releases and sweeps interleave.
THEOREM RowsAreExclusive == OSpec => []OneWorkerPerRow
<1>1. OInv => OneWorkerPerRow
    BY DEF OInv, Leased, Single, OneWorkerPerRow
<1> QED BY <1>1, OInvariance, PTL

\* ... and what has a receipt never comes back to the queue.
THEOREM ReceiptsAreFinal == OSpec => []ReceiptIsFinal
<1>1. OInv => ReceiptIsFinal
    BY DEF OInv, Leased, Filed, ReceiptIsFinal
<1> QED BY <1>1, OInvariance, PTL

\* A superseded row stays superseded, whatever leases end and whoever settles it late.
THEOREM SupersededIsFinal == OSpec => SupersededStays
<1>1. OInv /\ [ONext]_ovars => [\A o \in Rows : (row[o] = "superseded") => row'[o] = "superseded"]_ovars
    BY ONextSafe DEF Kept, Stays
<1> QED BY <1>1, OInvariance, PTL DEF OSpec, SupersededStays
===============================================================================
