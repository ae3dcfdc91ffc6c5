---------------------- MODULE GenerationLifecycle_proofs ----------------------
(***************************************************************************)
(* The safety of GenerationLifecycle for any number of generations, calls  *)
(* of cancel and resets.  The argument: a generation is admitted once,     *)
(* under the start lock; only the entry in _active lets it speak or begin  *)
(* its completion; the flags of that entry remember what happened to it.   *)
(***************************************************************************)
EXTENDS GenerationLifecycle, TLAPS

\* The stages of an admission in which the generation is not in _active yet.
Early == {"new", "superseding", "beginning", "preparing", "cancelling", "failing"}

\* The row of a generation is written once.
Unborn ==
    \A g \in Gens :
        admission[g] \in {"new", "superseding", "beginning"} \/ task[g] = "admitting"
        => row[g] = "none"

\* Nobody can have met a generation before its entry.
Unmet ==
    \A g \in Gens :
        admission[g] \in Early
        => active.gen # g /\ g \notin revoked /\ task[g] = "none" /\ row[g] # "completed"

\* The revocation of a generation outlives every change of its entry.
Fence == \A g \in revoked : active.gen = g => active.revoked

\* The publication barrier: what begins to complete cannot be revoked any more.
Barrier ==
    \A g \in Gens :
        task[g] = "completing" \/ row[g] = "completed"
        => g \notin revoked /\ (active.gen = g => active.completing)

\* An admission holds the start lock from its first step to its last.
Holder ==
    \A g \in Gens :
        admission[g] \in Early \ {"new"} \/ task[g] = "admitting" => lock = g

Control == Unborn /\ Unmet /\ Fence /\ Barrier /\ Holder

\* A task that runs has a row.
Written ==
    \A g \in Gens :
        admission[g] = "preparing" \/ task[g] \in {"ready", "preparing", "streaming"}
        => row[g] # "none"

\* Without a row nothing was said.
Mute == \A g \in Gens : row[g] = "none" => spoken[g] = 0

\* order lists the rows that were written, each once.
Listed ==
    /\ \A i \in DOMAIN order : row[order[i]] # "none"
    /\ \A i, j \in DOMAIN order : order[i] = order[j] => i = j

\* The row that is being prepared is the last one.
Newest ==
    \A g \in Gens : admission[g] = "preparing" => Len(order) > 0 /\ order[Len(order)] = g

\* Whoever is in _active comes after everybody who has spoken.
Frontier ==
    \A i, j \in DOMAIN order : i < j /\ active.gen = order[i] => spoken[order[j]] = 0

Story == Written /\ Mute /\ Listed /\ Newest /\ Frontier

IInv == TypeOK /\ Control /\ Story

------------------------------------------------------------------------------
(* Types. *)

RowsTyped ==
    /\ row \in [Gens -> {"none", "running", "completed", "cancelled", "failed", "deleted"}]
    /\ conversation \in {"idle", "generating"}
    /\ order \in Seq(Gens)

EntryTyped ==
    /\ active \in [gen : Gens \cup {Nobody}, completing : BOOLEAN, revoked : BOOLEAN]
    /\ active.gen = Nobody => active = NoEntry

CallTyped ==
    call \in [Callers -> [stage : {"none", "skip", "wait", "join", "cancelling", "ending", "ended"},
                          gen : Gens \cup {Nobody}]]

AskedTyped == asked \in [Gens -> {"no", "pending", "raised"}]

TaskTyped ==
    task \in [Gens -> {"none", "admitting", "ready", "preparing", "streaming", "live", "closing",
                       "completing", "cancelling", "failing", "ending", "done"}]

IdleTyped == idle \in [Callers -> BOOLEAN]

RestTyped ==
    /\ lock \in Callers \cup {Nobody}
    /\ admission \in [Gens -> {"new", "superseding", "beginning", "committing", "preparing",
                               "cancelling", "failing", "over"}]
    /\ spoken \in [Gens -> 0..Deltas]
    /\ revoked \subseteq Gens
    /\ budget \in 0..Budget

LEMMA TypeParts ==
    TypeOK <=> /\ RowsTyped /\ EntryTyped /\ CallTyped /\ AskedTyped
               /\ TaskTyped /\ IdleTyped /\ RestTyped
BY DEF TypeOK, RowsTyped, EntryTyped, CallTyped, AskedTyped, TaskTyped, IdleTyped, RestTyped

LEMMA GensCall == Gens \subseteq Callers /\ Nobody \notin Gens
BY GenerationAssumption DEF Gens, Callers

LEMMA Bounds == Deltas \in Nat /\ Budget \in Nat
BY GenerationAssumption

LEMMA EntryOf ==
    ASSUME NEW g \in Gens
    PROVE  /\ Entry(g) \in [gen : Gens \cup {Nobody}, completing : BOOLEAN, revoked : BOOLEAN]
           /\ Entry(g).gen = g /\ ~Entry(g).completing /\ ~Entry(g).revoked /\ g # Nobody
BY GensCall DEF Entry

LEMMA EmptyEntry ==
    /\ NoEntry \in [gen : Gens \cup {Nobody}, completing : BOOLEAN, revoked : BOOLEAN]
    /\ NoEntry.gen = Nobody
BY DEF NoEntry, Entry

LEMMA InsertTyped ==
    ASSUME RowsTyped, NEW g \in Gens, Insert(g)
    PROVE  RowsTyped'
<1>1. order' \in Seq(Gens)
    BY DEF RowsTyped, Insert
<1> QED BY <1>1 DEF RowsTyped, Insert

LEMMA SettleTyped ==
    ASSUME RowsTyped, NEW g, NEW v \in {"completed", "cancelled", "failed"}, NEW quiet,
           Settle(g, v, quiet)
    PROVE  RowsTyped'
BY DEF RowsTyped, Settle

LEMMA KeepTyped == RowsTyped /\ KeepRows => RowsTyped'
BY DEF RowsTyped, KeepRows

LEMMA VerdictType ==
    ASSUME NEW st \in {"completing", "cancelling", "failing"}
    PROVE  Verdict(st) \in {"completed", "cancelled", "failed"}
BY DEF Verdict

LEMMA CloseTyped ==
    ASSUME TaskTyped, IdleTyped, NEW g \in Gens,
           NEW st \in {"completing", "cancelling", "failing"}, Close(g, st)
    PROVE  TaskTyped' /\ IdleTyped'
<1>1. TaskTyped'
    BY DEF Close, Goto, TaskTyped
<1>2. IdleTyped'
    BY DEF Close, IsCurrent, IdleTyped
<1> QED BY <1>1, <1>2

LEMMA RevokeTyped ==
    ASSUME EntryTyped, AskedTyped, revoked \subseteq Gens, active.gen # Nobody, Revoke(active.gen)
    PROVE  EntryTyped' /\ AskedTyped' /\ revoked' \subseteq Gens
<1>1. active.gen \in Gens
    BY DEF EntryTyped
<1>2. EntryTyped'
    BY DEF EntryTyped, Revoke
<1>3. AskedTyped'
    BY DEF AskedTyped, Revoke, Request
<1>4. revoked' \subseteq Gens
    BY <1>1 DEF Revoke
<1> QED BY <1>2, <1>3, <1>4

LEMMA BeginsTyped ==
    ASSUME EntryTyped, CallTyped, AskedTyped, IdleTyped, revoked \subseteq Gens,
           NEW c \in Callers, CancelBegins(c)
    PROVE  EntryTyped' /\ CallTyped' /\ AskedTyped' /\ IdleTyped' /\ revoked' \subseteq Gens
<1> active.gen \in Gens \cup {Nobody}
    BY DEF EntryTyped
<1>1. CASE ~Present
    <2> /\ call' = [call EXCEPT ![c] = [stage |-> "skip", gen |-> active.gen]]
        /\ UNCHANGED <<active, revoked, asked, idle>>
        BY <1>1 DEF CancelBegins
    <2> QED BY DEF EntryTyped, CallTyped, AskedTyped, IdleTyped
<1>2. CASE Present /\ active.completing
    <2> DEFINE st == IF HasTask(active.gen) THEN "wait" ELSE "skip"
    <2>1. /\ call' = [call EXCEPT ![c] = [stage |-> st, gen |-> active.gen]]
          /\ UNCHANGED <<active, revoked, asked, idle>>
        BY <1>2 DEF CancelBegins
    <2>2. st \in {"wait", "skip"}
        OBVIOUS
    <2> HIDE DEF st
    <2> QED BY <2>1, <2>2 DEF EntryTyped, CallTyped, AskedTyped, IdleTyped
<1>3. CASE Present /\ ~active.completing
    <2> DEFINE st == IF HasTask(active.gen) THEN "join" ELSE "cancelling"
    <2>1. /\ call' = [call EXCEPT ![c] = [stage |-> st, gen |-> active.gen]]
          /\ Revoke(active.gen)
          /\ idle' = [idle EXCEPT ![c] = ~HasTask(active.gen)]
        BY <1>3 DEF CancelBegins
    <2>2. st \in {"join", "cancelling"}
        OBVIOUS
    <2> HIDE DEF st
    <2>3. CallTyped'
        BY <2>1, <2>2 DEF CallTyped
    <2>4. IdleTyped'
        BY <2>1 DEF IdleTyped
    <2>5. EntryTyped' /\ AskedTyped' /\ revoked' \subseteq Gens
        BY <1>3, <2>1, RevokeTyped DEF Present
    <2> QED BY <2>3, <2>4, <2>5
<1> QED BY <1>1, <1>2, <1>3

LEMMA TypeStep ==
    ASSUME TypeOK, [Next]_vars
    PROVE  TypeOK'
<1> USE GensCall, Bounds DEF vars, service, history
<1> /\ RowsTyped /\ EntryTyped /\ CallTyped /\ AskedTyped
    /\ TaskTyped /\ IdleTyped /\ RestTyped
    BY TypeParts
<1> DEFINE Typed == /\ RowsTyped /\ EntryTyped /\ CallTyped /\ AskedTyped
                    /\ TaskTyped /\ IdleTyped /\ RestTyped
<1> SUFFICES Typed'
    BY DEF TypeOK, RowsTyped, EntryTyped, CallTyped, AskedTyped, TaskTyped, IdleTyped, RestTyped
<1>1. ASSUME NEW c \in Stoppers, Stop(c)
      PROVE  Typed'
    <2>1. /\ EntryTyped' /\ CallTyped' /\ AskedTyped' /\ IdleTyped'
          /\ revoked' \subseteq Gens
        BY <1>1, BeginsTyped DEF Stop, RestTyped, Callers
    <2>2. RowsTyped' /\ TaskTyped' /\ RestTyped'
        BY <1>1, <2>1 DEF Stop, RowsTyped, TaskTyped, RestTyped
    <2> QED BY <2>1, <2>2
<1>2. ASSUME NEW c \in Resetters, ResetBegins(c)
      PROVE  Typed'
    <2>1. /\ EntryTyped' /\ CallTyped' /\ AskedTyped' /\ IdleTyped'
          /\ revoked' \subseteq Gens
        BY <1>2, BeginsTyped DEF ResetBegins, RestTyped, Callers
    <2>2. RowsTyped' /\ TaskTyped' /\ RestTyped'
        BY <1>2, <2>1 DEF ResetBegins, Lock, RowsTyped, TaskTyped, RestTyped, Callers
    <2> QED BY <2>1, <2>2
<1>3. ASSUME NEW g \in Gens, Supersede(g)
      PROVE  Typed'
    <2>1. /\ EntryTyped' /\ CallTyped' /\ AskedTyped' /\ IdleTyped'
          /\ revoked' \subseteq Gens
        BY <1>3, BeginsTyped DEF Supersede, RestTyped
    <2>2. RowsTyped' /\ TaskTyped' /\ RestTyped'
        BY <1>3, <2>1 DEF Supersede, Lock, Admit, RowsTyped, TaskTyped, RestTyped
    <2> QED BY <2>1, <2>2
<1>4. ASSUME NEW g \in Gens, RegisterProactive(g)
      PROVE  Typed'
    <2>1. EntryTyped'
        BY <1>4, EntryOf DEF RegisterProactive, EntryTyped
    <2>2. RowsTyped' /\ TaskTyped' /\ RestTyped'
      <3>1. CASE Present /\ ~active.revoked
          BY <1>4, <3>1 DEF RegisterProactive, Admit, RowsTyped, TaskTyped, RestTyped
      <3>2. CASE ~(Present /\ ~active.revoked)
          BY <1>4, <3>2 DEF RegisterProactive, Admit, Goto, RowsTyped, TaskTyped, RestTyped
      <3> QED BY <3>1, <3>2
    <2>3. CallTyped' /\ AskedTyped' /\ IdleTyped'
        BY <1>4 DEF RegisterProactive, Callers, CallTyped, AskedTyped, IdleTyped
    <2> QED BY <2>1, <2>2, <2>3
<1>5. ASSUME NEW g \in Gens, BeginRealtime(g)
      PROVE  Typed'
    <2>1. EntryTyped'
        BY <1>5, EmptyEntry DEF BeginRealtime, EntryTyped
    <2>2. RowsTyped' /\ CallTyped' /\ AskedTyped' /\ TaskTyped' /\ IdleTyped' /\ RestTyped'
        BY <1>5
        DEF BeginRealtime, Lock, Admit, Request, Callers, RowsTyped, CallTyped, AskedTyped,
            TaskTyped, IdleTyped, RestTyped
    <2> QED BY <2>1, <2>2
<1>6. ASSUME RequestCancel
      PROVE  Typed'
    <2>1. /\ EntryTyped' /\ AskedTyped' /\ revoked' \subseteq Gens
        BY <1>6, RevokeTyped DEF RequestCancel, Present, RestTyped
    <2>2. RowsTyped' /\ CallTyped' /\ TaskTyped' /\ IdleTyped' /\ RestTyped'
        BY <1>6, <2>1 DEF RequestCancel, RowsTyped, CallTyped, TaskTyped, IdleTyped, RestTyped
    <2> QED BY <2>1, <2>2
<1>7. ASSUME NEW c \in Callers, AbandonCall(c)
      PROVE  Typed'
    <2>1. CallTyped'
        BY <1>7 DEF AbandonCall, CallTyped, Gone
    <2>2. AskedTyped'
        BY <1>7 DEF AbandonCall, Request, AskedTyped
    <2>3. RestTyped'
        BY <1>7 DEF AbandonCall, Spend, RestTyped
    <2>4. RowsTyped' /\ EntryTyped' /\ TaskTyped' /\ IdleTyped'
        BY <1>7 DEF AbandonCall, RowsTyped, EntryTyped, TaskTyped, IdleTyped
    <2> QED BY <2>1, <2>2, <2>3, <2>4
<1>8. ASSUME NEW g \in Gens, AbandonLocal(g)
      PROVE  Typed'
    BY <1>8
    DEF AbandonLocal, AbortLocal, Admit, Spend, RowsTyped, EntryTyped, CallTyped, AskedTyped,
        TaskTyped, IdleTyped, RestTyped
<1>9. ASSUME NEW g \in Gens, AbandonCommit(g)
      PROVE  Typed'
    <2>1. RowsTyped'
        BY <1>9, InsertTyped, KeepTyped DEF AbandonCommit
    <2>2. EntryTyped' /\ CallTyped' /\ AskedTyped' /\ TaskTyped' /\ IdleTyped' /\ RestTyped'
        BY <1>9
        DEF AbandonCommit, Admit, Spend, EntryTyped, CallTyped, AskedTyped, TaskTyped, IdleTyped,
            RestTyped
    <2> QED BY <2>1, <2>2
<1>10. ASSUME NEW g \in Gens, Swallow(g)
      PROVE  Typed'
    BY <1>10
    DEF Swallow, Spend, RowsTyped, EntryTyped, CallTyped, AskedTyped, TaskTyped, IdleTyped,
        RestTyped
<1>11. ASSUME NEW c \in Callers, CancelWrites(c)
      PROVE  Typed'
    <2>1. RowsTyped'
        BY <1>11, SettleTyped DEF CancelWrites
    <2>2. CallTyped'
        BY <1>11 DEF CancelWrites, CallTyped
    <2>3. EntryTyped' /\ AskedTyped' /\ TaskTyped' /\ IdleTyped' /\ RestTyped'
        BY <1>11 DEF CancelWrites, EntryTyped, AskedTyped, TaskTyped, IdleTyped, RestTyped
    <2> QED BY <2>1, <2>2, <2>3
<1>12. ASSUME NEW c \in Callers, CancelEnds(c)
      PROVE  Typed'
    <2>1. EntryTyped'
        BY <1>12, EmptyEntry DEF CancelEnds, EntryTyped
    <2>2. CallTyped'
        BY <1>12 DEF CancelEnds, CallTyped
    <2>3. RowsTyped' /\ AskedTyped' /\ TaskTyped' /\ IdleTyped' /\ RestTyped'
        BY <1>12 DEF CancelEnds, RowsTyped, AskedTyped, TaskTyped, IdleTyped, RestTyped
    <2> QED BY <2>1, <2>2, <2>3
<1>13. ASSUME NEW c \in Resetters, ResetDeletes(c)
      PROVE  Typed'
    <2>1. EntryTyped'
        BY <1>13, EmptyEntry DEF ResetDeletes, EntryTyped
    <2>2. RowsTyped' /\ CallTyped' /\ AskedTyped' /\ TaskTyped' /\ IdleTyped' /\ RestTyped'
        BY <1>13 DEF ResetDeletes, RowsTyped, CallTyped, AskedTyped, TaskTyped, IdleTyped, RestTyped
    <2> QED BY <2>1, <2>2
<1>14. ASSUME NEW g \in Gens, Refuse(g)
      PROVE  Typed'
    BY <1>14
    DEF Refuse, Admit, RowsTyped, EntryTyped, CallTyped, AskedTyped, TaskTyped, IdleTyped, RestTyped
<1>15. ASSUME NEW g \in Gens, CommitLocal(g)
      PROVE  Typed'
    <2>1. RowsTyped'
        BY <1>15, InsertTyped DEF CommitLocal
    <2>2. EntryTyped' /\ CallTyped' /\ AskedTyped' /\ TaskTyped' /\ IdleTyped' /\ RestTyped'
        BY <1>15
        DEF CommitLocal, Admit, EntryTyped, CallTyped, AskedTyped, TaskTyped, IdleTyped, RestTyped
    <2> QED BY <2>1, <2>2
<1>16. ASSUME NEW g \in Gens, StartLocal(g)
      PROVE  Typed'
    <2>1. EntryTyped'
        BY <1>16, EntryOf DEF StartLocal, EntryTyped
    <2>2. RowsTyped' /\ CallTyped' /\ AskedTyped' /\ TaskTyped' /\ IdleTyped' /\ RestTyped'
        BY <1>16
        DEF StartLocal, Admit, Goto, RowsTyped, CallTyped, AskedTyped, TaskTyped, IdleTyped,
            RestTyped
    <2> QED BY <2>1, <2>2
<1>17. ASSUME NEW g \in Gens, FailLocal(g)
      PROVE  Typed'
    BY <1>17
    DEF FailLocal, AbortLocal, Admit, RowsTyped, EntryTyped, CallTyped, AskedTyped, TaskTyped,
        IdleTyped, RestTyped
<1>18. ASSUME NEW g \in Gens, AbortedLocal(g)
      PROVE  Typed'
    <2>1. RowsTyped'
        BY <1>18, SettleTyped, VerdictType DEF AbortedLocal
    <2>2. EntryTyped' /\ CallTyped' /\ AskedTyped' /\ TaskTyped' /\ IdleTyped' /\ RestTyped'
        BY <1>18
        DEF AbortedLocal, Admit, EntryTyped, CallTyped, AskedTyped, TaskTyped, IdleTyped, RestTyped
    <2> QED BY <2>1, <2>2
<1>19. ASSUME NEW g \in Gens, RegisterShared(g)
      PROVE  Typed'
    <2>1. EntryTyped'
        BY <1>19, EntryOf DEF RegisterShared, EntryTyped
    <2>2. RowsTyped' /\ CallTyped' /\ AskedTyped' /\ TaskTyped' /\ IdleTyped' /\ RestTyped'
        BY <1>19
        DEF RegisterShared, Admit, Goto, RowsTyped, CallTyped, AskedTyped, TaskTyped, IdleTyped,
            RestTyped
    <2> QED BY <2>1, <2>2
<1>20. ASSUME NEW g \in Gens, StartOwned(g)
      PROVE  Typed'
    <2>1. RowsTyped'
        BY <1>20, InsertTyped DEF StartOwned
    <2>2. EntryTyped'
        <3>1. active' = Entry(g)
            BY <1>20 DEF StartOwned
        <3> QED BY <3>1, EntryOf DEF EntryTyped
    <2>3. CallTyped' /\ AskedTyped' /\ TaskTyped' /\ IdleTyped' /\ RestTyped'
        BY <1>20
        DEF StartOwned, MayContinue, Admit, Goto, CallTyped, AskedTyped, TaskTyped, IdleTyped,
            RestTyped
    <2> QED BY <2>1, <2>2, <2>3
<1>21. ASSUME NEW g \in Gens, FenceOwned(g)
      PROVE  Typed'
    <2>1. RowsTyped'
        BY <1>21, InsertTyped DEF FenceOwned
    <2>2. TaskTyped' /\ IdleTyped'
        BY <1>21, CloseTyped DEF FenceOwned
    <2>3. EntryTyped' /\ CallTyped' /\ AskedTyped' /\ RestTyped'
        BY <1>21 DEF FenceOwned, EntryTyped, CallTyped, AskedTyped, RestTyped
    <2> QED BY <2>1, <2>2, <2>3
<1>22. ASSUME NEW g \in Gens, FailOwned(g)
      PROVE  Typed'
    <2>1. RowsTyped'
        BY <1>22, InsertTyped, KeepTyped DEF FailOwned
    <2>2. TaskTyped' /\ IdleTyped'
        BY <1>22, CloseTyped DEF FailOwned
    <2>3. EntryTyped' /\ CallTyped' /\ AskedTyped' /\ RestTyped'
        BY <1>22 DEF FailOwned, EntryTyped, CallTyped, AskedTyped, RestTyped
    <2> QED BY <2>1, <2>2, <2>3
<1>23. ASSUME NEW g \in Gens, StartRealtime(g)
      PROVE  Typed'
    <2>1. RowsTyped'
        BY <1>23, InsertTyped DEF StartRealtime
    <2>2. EntryTyped'
        BY <1>23, EntryOf DEF StartRealtime, EntryTyped
    <2>3. CallTyped' /\ AskedTyped' /\ TaskTyped' /\ IdleTyped' /\ RestTyped'
        BY <1>23
        DEF StartRealtime, Admit, Goto, CallTyped, AskedTyped, TaskTyped, IdleTyped, RestTyped
    <2> QED BY <2>1, <2>2, <2>3
<1>24. ASSUME NEW g \in Gens, Raise(g)
      PROVE  Typed'
    <2>1. RowsTyped'
        BY <1>24, InsertTyped, KeepTyped, SettleTyped, VerdictType DEF Raise
    <2>2. TaskTyped'
        BY <1>24 DEF Raise, Close, Goto, TaskTyped
    <2>3. IdleTyped'
        BY <1>24 DEF Raise, Close, IsCurrent, IdleTyped
    <2>4. EntryTyped'
        BY <1>24, EmptyEntry DEF Raise, EntryTyped
    <2>5. AskedTyped'
        BY <1>24 DEF Raise, AskedTyped
    <2>6. CallTyped' /\ RestTyped'
        BY <1>24 DEF Raise, CallTyped, RestTyped
    <2> QED BY <2>1, <2>2, <2>3, <2>4, <2>5, <2>6
<1>25. ASSUME NEW g \in Gens, Start(g)
      PROVE  Typed'
    BY <1>25
    DEF Start, Goto, RowsTyped, EntryTyped, CallTyped, AskedTyped, TaskTyped, IdleTyped, RestTyped
<1>26. ASSUME NEW g \in Gens, Prepare(g)
      PROVE  Typed'
    <2>1. TaskTyped'
        BY <1>26 DEF Prepare, Close, Goto, TaskTyped
    <2>2. IdleTyped'
        BY <1>26 DEF Prepare, Close, IsCurrent, IdleTyped
    <2>3. RowsTyped' /\ EntryTyped' /\ CallTyped' /\ AskedTyped' /\ RestTyped'
        BY <1>26 DEF Prepare, RowsTyped, EntryTyped, CallTyped, AskedTyped, RestTyped
    <2> QED BY <2>1, <2>2, <2>3
<1>27. ASSUME NEW g \in Gens, Stale(g)
      PROVE  Typed'
    <2>1. TaskTyped' /\ IdleTyped'
        BY <1>27, CloseTyped DEF Stale
    <2>2. RowsTyped' /\ EntryTyped' /\ CallTyped' /\ AskedTyped' /\ RestTyped'
        BY <1>27 DEF Stale, RowsTyped, EntryTyped, CallTyped, AskedTyped, RestTyped
    <2> QED BY <2>1, <2>2
<1>28. ASSUME NEW g \in Gens, BeginCompletion(g)
      PROVE  Typed'
    <2>1. TaskTyped' /\ IdleTyped'
        BY <1>28, CloseTyped DEF BeginCompletion
    <2>2. EntryTyped'
        BY <1>28 DEF BeginCompletion, MayContinue, IsCurrent, EntryTyped
    <2>3. RowsTyped' /\ CallTyped' /\ AskedTyped' /\ RestTyped'
        BY <1>28 DEF BeginCompletion, RowsTyped, CallTyped, AskedTyped, RestTyped
    <2> QED BY <2>1, <2>2, <2>3
<1>29. ASSUME NEW g \in Gens, Fail(g)
      PROVE  Typed'
    <2>1. TaskTyped' /\ IdleTyped'
        BY <1>29, CloseTyped DEF Fail
    <2>2. RowsTyped' /\ EntryTyped' /\ CallTyped' /\ AskedTyped' /\ RestTyped'
        BY <1>29 DEF Fail, RowsTyped, EntryTyped, CallTyped, AskedTyped, RestTyped
    <2> QED BY <2>1, <2>2
<1>30. ASSUME NEW g \in Gens, Write(g)
      PROVE  Typed'
    <2>1. RowsTyped'
        BY <1>30, SettleTyped, VerdictType DEF Write
    <2>2. EntryTyped' /\ CallTyped' /\ AskedTyped' /\ TaskTyped' /\ IdleTyped' /\ RestTyped'
        BY <1>30 DEF Write, Goto, EntryTyped, CallTyped, AskedTyped, TaskTyped, IdleTyped, RestTyped
    <2> QED BY <2>1, <2>2
<1>31. ASSUME NEW g \in Gens, End(g)
      PROVE  Typed'
    <2>1. EntryTyped'
        BY <1>31, EmptyEntry DEF End, EntryTyped
    <2>2. RowsTyped' /\ CallTyped' /\ AskedTyped' /\ TaskTyped' /\ IdleTyped' /\ RestTyped'
        BY <1>31 DEF End, Goto, RowsTyped, CallTyped, AskedTyped, TaskTyped, IdleTyped, RestTyped
    <2> QED BY <2>1, <2>2
<1>32. ASSUME NEW g \in Gens, CloseRealtime(g)
      PROVE  Typed'
    BY <1>32
    DEF CloseRealtime, Goto, RowsTyped, EntryTyped, CallTyped, AskedTyped, TaskTyped, IdleTyped,
        RestTyped
<1>33. ASSUME NEW g \in Gens, CloseRefused(g)
      PROVE  Typed'
    BY <1>33
    DEF CloseRefused, Goto, RowsTyped, EntryTyped, CallTyped, AskedTyped, TaskTyped, IdleTyped,
        RestTyped
<1>34. ASSUME NEW g \in Gens, NEW s \in {"cancelling", "failing"}, Terminate(g, s)
      PROVE  Typed'
    <2>1. EntryTyped'
        BY <1>34, EmptyEntry DEF Terminate, EntryTyped
    <2>2. RowsTyped' /\ CallTyped' /\ AskedTyped' /\ TaskTyped' /\ IdleTyped' /\ RestTyped'
        BY <1>34
        DEF Terminate, Goto, RowsTyped, CallTyped, AskedTyped, TaskTyped, IdleTyped, RestTyped
    <2> QED BY <2>1, <2>2
<1>35. ASSUME NEW g \in Gens, Speak(g)
      PROVE  Typed'
    BY <1>35
    DEF Speak, MayContinue, RowsTyped, EntryTyped, CallTyped, AskedTyped, TaskTyped, IdleTyped,
        RestTyped
<1>36. CASE UNCHANGED vars
    BY <1>36 DEF RowsTyped, EntryTyped, CallTyped, AskedTyped, TaskTyped, IdleTyped, RestTyped
<1> HIDE DEF Typed
<1> QED
    BY <1>1, <1>2, <1>3, <1>4, <1>5, <1>6, <1>7, <1>8, <1>9, <1>10, <1>11, <1>12, <1>13, <1>14,
       <1>15, <1>16, <1>17, <1>18, <1>19, <1>20, <1>21, <1>22, <1>23, <1>24, <1>25, <1>26, <1>27,
       <1>28, <1>29, <1>30, <1>31, <1>32, <1>33, <1>34, <1>35, <1>36
    DEF Next, Arrival, Disturbance, CallStep, AdmissionStep, TaskStep, CoordinatorStep

------------------------------------------------------------------------------
(* Control. *)

\* What cancel may do to the entry: revoke it, unless it completes.
Tightens ==
    /\ active'.gen = active.gen /\ active'.completing = active.completing
    /\ active.revoked => active'.revoked
    /\ \A g \in revoked' : \/ g \in revoked
                           \/ g = active.gen /\ active'.revoked /\ ~active.completing

LEMMA RevokeTightens ==
    ASSUME EntryTyped, ~active.completing, Revoke(active.gen)
    PROVE  Tightens
BY DEF Revoke, Tightens

LEMMA BeginsTightens ==
    ASSUME EntryTyped, NEW c, CancelBegins(c)
    PROVE  Tightens
<1>1. CASE Present /\ ~active.completing
    <2> Revoke(active.gen)
        BY <1>1 DEF CancelBegins
    <2> QED BY <1>1, RevokeTightens
<1>2. CASE ~(Present /\ ~active.completing)
    <2> UNCHANGED <<active, revoked>>
        BY <1>2 DEF CancelBegins
    <2> QED BY DEF Tightens
<1> QED BY <1>1, <1>2

\* The rows change by the rules: written once, settled once, deleted by a reset.
RowsMove ==
    \A g \in Gens :
        \/ row'[g] = row[g]
        \/ row[g] = "none" /\ row'[g] = "running"
        \/ row[g] = "running" /\ row'[g] \in {"cancelled", "failed"}
        \/ row[g] = "running" /\ row'[g] = "completed" /\ task[g] = "completing"
        \/ row[g] # "none" /\ row'[g] = "deleted"

LEMMA ControlStep ==
    ASSUME TypeOK, Control, [Next]_vars
    PROVE  Control' /\ RowsMove
<1> USE GensCall DEF vars, service, history
<1> /\ RowsTyped /\ EntryTyped /\ TaskTyped /\ RestTyped
    BY TypeParts
<1> DEFINE Step == Control' /\ RowsMove
<1> SUFFICES Step
    OBVIOUS
<1>1. ASSUME NEW c \in Stoppers, Stop(c)
      PROVE  Step
    BY <1>1, BeginsTightens
    DEF Stop, Tightens, RowsTyped, EntryTyped, TaskTyped, RestTyped, RowsMove, Control, Unborn,
        Unmet, Fence, Barrier, Holder
<1>2. ASSUME NEW c \in Resetters, ResetBegins(c)
      PROVE  Step
    BY <1>2, BeginsTightens
    DEF ResetBegins, Lock, Tightens, RowsTyped, EntryTyped, TaskTyped, RestTyped, RowsMove, Control,
        Unborn, Unmet, Fence, Barrier, Holder
<1>3. ASSUME NEW g \in Gens, Supersede(g)
      PROVE  Step
    BY <1>3, BeginsTightens
    DEF Supersede, Lock, Admit, Tightens, RowsTyped, EntryTyped, TaskTyped, RestTyped, RowsMove,
        Control, Unborn, Unmet, Fence, Barrier, Holder, Early
<1>4. ASSUME NEW g \in Gens, RegisterProactive(g)
      PROVE  Step
    <2>1. CASE Present /\ ~active.revoked
        BY <1>4, <2>1
        DEF RegisterProactive, Admit, TaskTyped, RestTyped, RowsMove, Control, Unborn, Unmet, Fence,
            Barrier, Holder, Early
    <2>2. CASE ~(Present /\ ~active.revoked)
        <3>1. lock' = g /\ active' = Entry(g) /\ Admit(g, "committing") /\ Goto(g, "admitting")
            BY <1>4, <2>2 DEF RegisterProactive
        <3> QED
            BY <1>4, <3>1, EntryOf
            DEF RegisterProactive, Admit, Goto, TaskTyped, RestTyped, RowsMove, Control, Unborn,
                Unmet, Fence, Barrier, Holder, Early
    <2> QED BY <2>1, <2>2
<1>5. ASSUME NEW g \in Gens, BeginRealtime(g)
      PROVE  Step
    BY <1>5, EmptyEntry
    DEF BeginRealtime, Lock, Admit, Request, RowsTyped, EntryTyped, TaskTyped, RestTyped, RowsMove,
        Control, Unborn, Unmet, Fence, Barrier, Holder, Early
<1>6. ASSUME RequestCancel
      PROVE  Step
    BY <1>6, RevokeTightens
    DEF RequestCancel, Tightens, RowsTyped, EntryTyped, TaskTyped, RestTyped, RowsMove, Control,
        Unborn, Unmet, Fence, Barrier, Holder
<1>7. ASSUME NEW c \in Callers, AbandonCall(c)
      PROVE  Step
    BY <1>7
    DEF AbandonCall, Request, Spend, RowsTyped, EntryTyped, TaskTyped, RestTyped, RowsMove, Control,
        Unborn, Unmet, Fence, Barrier, Holder
<1>8. ASSUME NEW g \in Gens, AbandonLocal(g)
      PROVE  Step
    BY <1>8
    DEF AbandonLocal, AbortLocal, Admit, Spend, RowsTyped, EntryTyped, TaskTyped, RestTyped,
        RowsMove, Control, Unborn, Unmet, Fence, Barrier, Holder, Early
<1>9. ASSUME NEW g \in Gens, AbandonCommit(g)
      PROVE  Step
    BY <1>9
    DEF AbandonCommit, Insert, KeepRows, Admit, Spend, RowsTyped, EntryTyped, TaskTyped, RestTyped,
        RowsMove, Control, Unborn, Unmet, Fence, Barrier, Holder, Early
<1>10. ASSUME NEW g \in Gens, Swallow(g)
      PROVE  Step
    BY <1>10
    DEF Swallow, Spend, RowsTyped, EntryTyped, TaskTyped, RestTyped, RowsMove, Control, Unborn,
        Unmet, Fence, Barrier, Holder
<1>11. ASSUME NEW c \in Callers, CancelWrites(c)
      PROVE  Step
    <2>1. UNCHANGED <<lock, active, admission, task, revoked>>
        BY <1>11 DEF CancelWrites
    <2>2. \A g \in Gens : row'[g] = row[g] \/ (row[g] = "running" /\ row'[g] = "cancelled")
        BY <1>11 DEF CancelWrites, Settle, RowsTyped
    <2>3. Unborn' /\ Unmet' /\ RowsMove
        BY <2>1, <2>2 DEF Control, Unborn, Unmet, RowsMove
    <2>4. Fence' /\ Barrier' /\ Holder'
        BY <2>1, <2>2 DEF Control, Fence, Barrier, Holder
    <2> QED BY <2>3, <2>4 DEF Control
<1>12. ASSUME NEW c \in Callers, CancelEnds(c)
      PROVE  Step
    BY <1>12, EmptyEntry
    DEF CancelEnds, RowsTyped, EntryTyped, TaskTyped, RestTyped, RowsMove, Control, Unborn, Unmet,
        Fence, Barrier, Holder
<1>13. ASSUME NEW c \in Resetters, ResetDeletes(c)
      PROVE  Step
    <2>1. \A g \in Gens : row'[g] = IF row[g] = "none" THEN "none" ELSE "deleted"
        BY <1>13 DEF ResetDeletes
    <2>2. c \notin Gens /\ lock = c /\ active'.gen = Nobody
        BY <1>13, EmptyEntry, GenerationAssumption DEF ResetDeletes, Gens
    <2>3. RowsMove
        BY <2>1 DEF RowsMove
    <2>4. Control'
        <3>1. UNCHANGED <<admission, task, revoked>>
            BY <1>13 DEF ResetDeletes
        <3> QED
            BY <2>1, <2>2, <3>1 DEF RestTyped, Control, Unborn, Unmet, Fence, Barrier, Holder
    <2> QED BY <2>3, <2>4
<1>14. ASSUME NEW g \in Gens, Refuse(g)
      PROVE  Step
    BY <1>14
    DEF Refuse, Admit, RowsTyped, EntryTyped, TaskTyped, RestTyped, RowsMove, Control, Unborn,
        Unmet, Fence, Barrier, Holder, Early
<1>15. ASSUME NEW g \in Gens, CommitLocal(g)
      PROVE  Step
    BY <1>15
    DEF CommitLocal, Insert, Admit, RowsTyped, EntryTyped, TaskTyped, RestTyped, RowsMove, Control,
        Unborn, Unmet, Fence, Barrier, Holder, Early
<1>16. ASSUME NEW g \in Gens, StartLocal(g)
      PROVE  Step
    BY <1>16, EntryOf
    DEF StartLocal, Admit, Goto, RowsTyped, EntryTyped, TaskTyped, RestTyped, RowsMove, Control,
        Unborn, Unmet, Fence, Barrier, Holder, Early
<1>17. ASSUME NEW g \in Gens, FailLocal(g)
      PROVE  Step
    BY <1>17
    DEF FailLocal, AbortLocal, Admit, RowsTyped, EntryTyped, TaskTyped, RestTyped, RowsMove,
        Control, Unborn, Unmet, Fence, Barrier, Holder, Early
<1>18. ASSUME NEW g \in Gens, AbortedLocal(g)
      PROVE  Step
    BY <1>18
    DEF AbortedLocal, Settle, Verdict, Admit, RowsTyped, EntryTyped, TaskTyped, RestTyped, RowsMove,
        Control, Unborn, Unmet, Fence, Barrier, Holder, Early
<1>19. ASSUME NEW g \in Gens, RegisterShared(g)
      PROVE  Step
    BY <1>19, EntryOf
    DEF RegisterShared, Admit, Goto, RowsTyped, EntryTyped, TaskTyped, RestTyped, RowsMove, Control,
        Unborn, Unmet, Fence, Barrier, Holder, Early
<1>20. ASSUME NEW g \in Gens, StartOwned(g)
      PROVE  Step
    BY <1>20, EntryOf
    DEF StartOwned, MayContinue, Insert, Admit, Goto, IsCurrent, RowsTyped, EntryTyped, TaskTyped,
        RestTyped, RowsMove, Control, Unborn, Unmet, Fence, Barrier, Holder, Early
<1>21. ASSUME NEW g \in Gens, FenceOwned(g)
      PROVE  Step
    BY <1>21
    DEF FenceOwned, Insert, Close, Goto, RowsTyped, EntryTyped, TaskTyped, RestTyped, RowsMove,
        Control, Unborn, Unmet, Fence, Barrier, Holder
<1>22. ASSUME NEW g \in Gens, FailOwned(g)
      PROVE  Step
    BY <1>22
    DEF FailOwned, Insert, KeepRows, Close, Goto, RowsTyped, EntryTyped, TaskTyped, RestTyped,
        RowsMove, Control, Unborn, Unmet, Fence, Barrier, Holder
<1>23. ASSUME NEW g \in Gens, StartRealtime(g)
      PROVE  Step
    BY <1>23, EntryOf
    DEF StartRealtime, Insert, Admit, Goto, RowsTyped, EntryTyped, TaskTyped, RestTyped, RowsMove,
        Control, Unborn, Unmet, Fence, Barrier, Holder, Early
<1>24. ASSUME NEW g \in Gens, Raise(g)
      PROVE  Step
    BY <1>24, EmptyEntry
    DEF Raise, Insert, KeepRows, Settle, Verdict, Close, Goto, IsCurrent, RowsTyped, EntryTyped,
        TaskTyped, RestTyped, RowsMove, Control, Unborn, Unmet, Fence, Barrier, Holder, Early
<1>25. ASSUME NEW g \in Gens, Start(g)
      PROVE  Step
    BY <1>25
    DEF Start, Goto, RowsTyped, EntryTyped, TaskTyped, RestTyped, RowsMove, Control, Unborn, Unmet,
        Fence, Barrier, Holder
<1>26. ASSUME NEW g \in Gens, Prepare(g)
      PROVE  Step
    BY <1>26
    DEF Prepare, Close, Goto, RowsTyped, EntryTyped, TaskTyped, RestTyped, RowsMove, Control,
        Unborn, Unmet, Fence, Barrier, Holder
<1>27. ASSUME NEW g \in Gens, Stale(g)
      PROVE  Step
    BY <1>27
    DEF Stale, Close, Goto, RowsTyped, EntryTyped, TaskTyped, RestTyped, RowsMove, Control, Unborn,
        Unmet, Fence, Barrier, Holder
<1>28. ASSUME NEW g \in Gens, BeginCompletion(g)
      PROVE  Step
    BY <1>28
    DEF BeginCompletion, MayContinue, Close, Goto, IsCurrent, RowsTyped, EntryTyped, TaskTyped,
        RestTyped, RowsMove, Control, Unborn, Unmet, Fence, Barrier, Holder
<1>29. ASSUME NEW g \in Gens, Fail(g)
      PROVE  Step
    BY <1>29
    DEF Fail, Close, Goto, RowsTyped, EntryTyped, TaskTyped, RestTyped, RowsMove, Control, Unborn,
        Unmet, Fence, Barrier, Holder
<1>30. ASSUME NEW g \in Gens, Write(g)
      PROVE  Step
    BY <1>30
    DEF Write, Settle, Verdict, Goto, RowsTyped, EntryTyped, TaskTyped, RestTyped, RowsMove,
        Control, Unborn, Unmet, Fence, Barrier, Holder
<1>31. ASSUME NEW g \in Gens, End(g)
      PROVE  Step
    BY <1>31, EmptyEntry
    DEF End, Goto, IsCurrent, RowsTyped, EntryTyped, TaskTyped, RestTyped, RowsMove, Control,
        Unborn, Unmet, Fence, Barrier, Holder
<1>32. ASSUME NEW g \in Gens, CloseRealtime(g)
      PROVE  Step
    BY <1>32
    DEF CloseRealtime, Goto, RowsTyped, EntryTyped, TaskTyped, RestTyped, RowsMove, Control, Unborn,
        Unmet, Fence, Barrier, Holder
<1>33. ASSUME NEW g \in Gens, CloseRefused(g)
      PROVE  Step
    BY <1>33
    DEF CloseRefused, Goto, RowsTyped, EntryTyped, TaskTyped, RestTyped, RowsMove, Control, Unborn,
        Unmet, Fence, Barrier, Holder
<1>34. ASSUME NEW g \in Gens, NEW s \in {"cancelling", "failing"}, Terminate(g, s)
      PROVE  Step
    BY <1>34, EmptyEntry
    DEF Terminate, Goto, IsCurrent, RowsTyped, EntryTyped, TaskTyped, RestTyped, RowsMove, Control,
        Unborn, Unmet, Fence, Barrier, Holder
<1>35. ASSUME NEW g \in Gens, Speak(g)
      PROVE  Step
    BY <1>35
    DEF Speak, MayContinue, RowsTyped, EntryTyped, TaskTyped, RestTyped, RowsMove, Control, Unborn,
        Unmet, Fence, Barrier, Holder
<1>36. CASE UNCHANGED vars
    BY <1>36 DEF RowsMove, Control, Unborn, Unmet, Fence, Barrier, Holder
<1> HIDE DEF Step
<1>37. CASE Arrival
    BY <1>37, <1>1, <1>2, <1>3, <1>4, <1>5 DEF Arrival
<1>38. CASE Disturbance
    BY <1>38, <1>6, <1>7, <1>8, <1>9, <1>10 DEF Disturbance
<1>39. ASSUME NEW g \in Gens, AdmissionStep(g)
       PROVE  Step
    BY <1>39, <1>14, <1>15, <1>16, <1>17, <1>18, <1>19, <1>20, <1>21, <1>22, <1>23 DEF AdmissionStep
<1>40. ASSUME NEW g \in Gens, TaskStep(g) \/ CoordinatorStep(g) \/ Speak(g)
       PROVE  Step
    BY <1>40, <1>24, <1>25, <1>26, <1>27, <1>28, <1>29, <1>30, <1>31, <1>32, <1>33, <1>34, <1>35
    DEF TaskStep, CoordinatorStep
<1> QED
    BY <1>11, <1>12, <1>13, <1>36, <1>37, <1>38, <1>39, <1>40 DEF Next, CallStep

------------------------------------------------------------------------------
(* The story. *)

\* Only the last row in order may be that of g.
Latest(g) == \A i \in DOMAIN order : order[i] = g => i = Len(order)

\* A step that writes no row and says nothing.
Quiet ==
    /\ UNCHANGED <<order, spoken>>
    /\ active'.gen \in {active.gen, Nobody} \/ Latest(active'.gen)
    /\ \A g \in Gens : /\ admission'[g] = "preparing" => admission[g] = "preparing"
                       /\ task'[g] \in {"ready", "preparing", "streaming"} => row[g] # "none"

LEMMA OrderFacts ==
    ASSUME TypeOK
    PROVE  /\ DOMAIN order = 1..Len(order) /\ Len(order) \in Nat
           /\ \A i \in DOMAIN order : order[i] \in Gens
BY DEF TypeOK

LEMMA QuietStory ==
    ASSUME TypeOK, Story, RowsMove, Quiet
    PROVE  Story'
<1> USE GensCall, OrderFacts DEF Story, Quiet
<1>1. \A g \in Gens : row'[g] = "none" => row[g] = "none"
    BY DEF RowsMove
<1>2. Written'
    BY <1>1 DEF Written
<1>3. Mute'
    BY <1>1 DEF Mute
<1>4. Listed'
    BY <1>1 DEF Listed
<1>5. Newest'
    BY DEF Newest
<1>6. Frontier'
    BY DEF Frontier, Latest
<1> QED BY <1>2, <1>3, <1>4, <1>5, <1>6

\* A step that writes the row of g, who holds the start lock.
LEMMA InsertStory ==
    ASSUME TypeOK, Control, Story, UNCHANGED spoken,
           NEW g \in Gens, row[g] = "none", lock = g, Insert(g),
           active'.gen \in {active.gen, Nobody, g},
           \A h \in Gens \ {g} : admission'[h] = admission[h] /\ task'[h] = task[h]
    PROVE  Story'
<1> USE GensCall, OrderFacts DEF Story
<1> DEFINE n == Len(order)
<1>1. /\ DOMAIN order' = 1..(n + 1) /\ Len(order') = n + 1 /\ order'[n + 1] = g
      /\ \A i \in DOMAIN order : order'[i] = order[i]
    BY DEF Insert
<1>2. row'[g] = "running" /\ \A h \in Gens \ {g} : row'[h] = row[h]
    BY DEF Insert, TypeOK
<1>3. \A i \in DOMAIN order : order[i] # g
    BY DEF Listed
<1>4. \A i \in DOMAIN order' : i = n + 1 \/ i \in DOMAIN order
    BY <1>1
<1> HIDE DEF n
<1>5. Written'
    BY <1>2 DEF Written
<1>6. Mute'
    BY <1>2 DEF Mute
<1>7. Listed'
    BY <1>1, <1>2, <1>3, <1>4 DEF Listed
<1>8. Newest'
    <2> SUFFICES ASSUME NEW h \in Gens, admission'[h] = "preparing"
                 PROVE  Len(order') > 0 /\ order'[Len(order')] = h
        BY DEF Newest
    <2>1. h = g
        BY DEF Control, Holder, Early
    <2> QED BY <1>1, <2>1 DEF n
<1>9. Frontier'
    <2> SUFFICES ASSUME NEW i \in DOMAIN order', NEW j \in DOMAIN order', i < j,
                        active'.gen = order'[i]
                 PROVE  spoken'[order'[j]] = 0
        BY DEF Frontier
    <2>1. i \in DOMAIN order
        BY <1>1, <1>4
    <2>2. active.gen = order[i]
        BY <1>1, <1>3, <2>1
    <2>3. CASE j \in DOMAIN order
        BY <1>1, <2>1, <2>2, <2>3 DEF Frontier
    <2>4. CASE j = n + 1
        BY <1>1, <2>4 DEF Mute
    <2> QED BY <1>4, <2>3, <2>4
<1> QED BY <1>5, <1>6, <1>7, <1>8, <1>9

\* Only Speak makes a generation heard, and only the one in _active.
SpeaksAlone ==
    \A g \in Gens : \/ spoken'[g] = spoken[g]
                    \/ active.gen = g /\ ~active.revoked

LEMMA StoryStep ==
    ASSUME TypeOK, Control, Story, [Next]_vars
    PROVE  Story' /\ SpeaksAlone
<1> USE GensCall DEF vars, service, history
<1> /\ RowsTyped /\ EntryTyped /\ TaskTyped /\ RestTyped
    BY TypeParts
<1> RowsMove
    BY ControlStep
<1> DEFINE Step == Quiet \/ (Story' /\ SpeaksAlone)
<1> Quiet => SpeaksAlone
    BY DEF Quiet, SpeaksAlone
<1> SUFFICES Step
    BY QuietStory
<1> HIDE DEF Step
<1>1. ASSUME NEW c \in Stoppers, Stop(c)
      PROVE  Step
    <2> Quiet
        BY <1>1, BeginsTightens DEF Stop, Tightens, TaskTyped, Story, Written, Quiet
    <2> QED BY DEF Step
<1>2. ASSUME NEW c \in Resetters, ResetBegins(c)
      PROVE  Step
    <2> Quiet
        BY <1>2, BeginsTightens DEF ResetBegins, Lock, Tightens, TaskTyped, Story, Written, Quiet
    <2> QED BY DEF Step
<1>3. ASSUME NEW g \in Gens, Supersede(g)
      PROVE  Step
    <2> Quiet
        BY <1>3, BeginsTightens
        DEF Supersede, Lock, Admit, Tightens, TaskTyped, Story, Written, Quiet
    <2> QED BY DEF Step
<1>4. ASSUME NEW g \in Gens, RegisterProactive(g)
      PROVE  Step
    <2>1. UNCHANGED <<order, spoken>> /\ \E st \in {"over", "committing"} : Admit(g, st)
        BY <1>4 DEF RegisterProactive
    <2>2. UNCHANGED task \/ Goto(g, "admitting")
        BY <1>4 DEF RegisterProactive
    <2>3. UNCHANGED active \/ active'.gen = g
        BY <1>4, EntryOf DEF RegisterProactive
    <2>4. Latest(g)
        BY <1>4, OrderFacts DEF RegisterProactive, Latest, Control, Unborn, Story, Listed
    <2>5. Quiet
        BY <2>1, <2>2, <2>3, <2>4 DEF Admit, Goto, TaskTyped, Quiet, Story, Written
    <2> QED BY <2>5 DEF Step
<1>5. ASSUME NEW g \in Gens, BeginRealtime(g)
      PROVE  Step
    <2> Quiet
        BY <1>5, EmptyEntry DEF BeginRealtime, Lock, Admit, TaskTyped, Story, Written, Quiet
    <2> QED BY DEF Step
<1>6. ASSUME RequestCancel
      PROVE  Step
    <2> Quiet
        BY <1>6, RevokeTightens DEF RequestCancel, Tightens, TaskTyped, Story, Written, Quiet
    <2> QED BY DEF Step
<1>7. ASSUME NEW c \in Callers, AbandonCall(c)
      PROVE  Step
    <2> Quiet
        BY <1>7 DEF AbandonCall, TaskTyped, Story, Written, Quiet
    <2> QED BY DEF Step
<1>8. ASSUME NEW g \in Gens, AbandonLocal(g)
      PROVE  Step
    <2> Quiet
        BY <1>8 DEF AbandonLocal, AbortLocal, Admit, TaskTyped, Story, Written, Quiet
    <2> QED BY DEF Step
<1>9. ASSUME NEW g \in Gens, AbandonCommit(g)
      PROVE  Step
    <2>1. row[g] = "none" /\ lock = g
        BY <1>9 DEF AbandonCommit, Control, Unborn, Holder, Early
    <2>2. CASE Insert(g)
        <3>1. Story'
            BY <1>9, <2>1, <2>2, InsertStory DEF AbandonCommit, Admit
        <3>2. SpeaksAlone
            BY <1>9 DEF AbandonCommit, SpeaksAlone
        <3> QED BY <3>1, <3>2 DEF Step
    <2>3. CASE KeepRows
        <3>1. Quiet
            BY <1>9, <2>3 DEF AbandonCommit, Admit, KeepRows, Quiet, Story, Written
        <3> QED BY <3>1 DEF Step
    <2> QED BY <1>9, <2>2, <2>3 DEF AbandonCommit
<1>10. ASSUME NEW g \in Gens, Swallow(g)
      PROVE  Step
    <2> Quiet
        BY <1>10 DEF Swallow, TaskTyped, Story, Written, Quiet
    <2> QED BY DEF Step
<1>11. ASSUME NEW c \in Callers, CancelWrites(c)
      PROVE  Step
    <2> Quiet
        BY <1>11 DEF CancelWrites, TaskTyped, Story, Written, Quiet, Settle
    <2> QED BY DEF Step
<1>12. ASSUME NEW c \in Callers, CancelEnds(c)
      PROVE  Step
    <2> Quiet
        BY <1>12, EmptyEntry DEF CancelEnds, TaskTyped, Story, Written, Quiet
    <2> QED BY DEF Step
<1>13. ASSUME NEW c \in Resetters, ResetDeletes(c)
      PROVE  Step
    <2> Quiet
        BY <1>13, EmptyEntry DEF ResetDeletes, TaskTyped, Story, Written, Quiet
    <2> QED BY DEF Step
<1>14. ASSUME NEW g \in Gens, Refuse(g)
      PROVE  Step
    <2> Quiet
        BY <1>14 DEF Refuse, Admit, TaskTyped, Story, Written, Quiet
    <2> QED BY DEF Step
<1>15. ASSUME NEW g \in Gens, CommitLocal(g)
      PROVE  Step
    <2>1. row[g] = "none" /\ lock = g
        BY <1>15 DEF CommitLocal, Control, Unborn, Holder, Early
    <2>2. Story'
        BY <1>15, <2>1, InsertStory DEF CommitLocal, Admit
    <2>3. SpeaksAlone
        BY <1>15 DEF CommitLocal, SpeaksAlone
    <2> QED BY <2>2, <2>3 DEF Step
<1>16. ASSUME NEW g \in Gens, StartLocal(g)
       PROVE  Step
    <2>1. active'.gen = g /\ UNCHANGED <<order, spoken>>
        BY <1>16, EntryOf DEF StartLocal
    <2>2. Latest(g)
        BY <1>16 DEF StartLocal, Latest, Story, Listed, Newest
    <2>3. Quiet
        BY <1>16, <2>1, <2>2 DEF StartLocal, Admit, Goto, Quiet, Story, Written
    <2> QED BY <2>3 DEF Step
<1>17. ASSUME NEW g \in Gens, FailLocal(g)
      PROVE  Step
    <2> Quiet
        BY <1>17 DEF FailLocal, AbortLocal, Admit, TaskTyped, Story, Written, Quiet
    <2> QED BY DEF Step
<1>18. ASSUME NEW g \in Gens, AbortedLocal(g)
      PROVE  Step
    <2> Quiet
        BY <1>18 DEF AbortedLocal, Admit, TaskTyped, Story, Written, Quiet, Settle
    <2> QED BY DEF Step
<1>19. ASSUME NEW g \in Gens, RegisterShared(g)
       PROVE  Step
    <2>1. active'.gen = g /\ UNCHANGED <<order, spoken>>
        BY <1>19, EntryOf DEF RegisterShared
    <2>2. Latest(g)
        BY <1>19, OrderFacts DEF RegisterShared, Latest, Control, Unborn, Story, Listed
    <2>3. Quiet
        BY <1>19, <2>1, <2>2 DEF RegisterShared, Admit, Goto, Quiet, Story, Written
    <2> QED BY <2>3 DEF Step
<1>20. ASSUME NEW g \in Gens, StartOwned(g)
      PROVE  Step
    <2>1. row[g] = "none" /\ lock = g
        BY <1>20 DEF StartOwned, Control, Unborn, Holder
    <2>2. Story'
        BY <1>20, <2>1, InsertStory, EntryOf DEF StartOwned, Admit, Goto
    <2>3. SpeaksAlone
        BY <1>20 DEF StartOwned, SpeaksAlone
    <2> QED BY <2>2, <2>3 DEF Step
<1>21. ASSUME NEW g \in Gens, FenceOwned(g)
      PROVE  Step
    <2>1. row[g] = "none" /\ lock = g
        BY <1>21 DEF FenceOwned, Control, Unborn, Holder
    <2>2. Story'
        BY <1>21, <2>1, InsertStory DEF FenceOwned, Close, Goto
    <2>3. SpeaksAlone
        BY <1>21 DEF FenceOwned, SpeaksAlone
    <2> QED BY <2>2, <2>3 DEF Step
<1>22. ASSUME NEW g \in Gens, FailOwned(g)
       PROVE  Step
    <2>1. row[g] = "none" /\ lock = g
        BY <1>22 DEF FailOwned, Control, Unborn, Holder
    <2>2. CASE Insert(g)
        <3>1. Story'
            BY <1>22, <2>1, <2>2, InsertStory DEF FailOwned, Close, Goto
        <3>2. SpeaksAlone
            BY <1>22 DEF FailOwned, SpeaksAlone
        <3> QED BY <3>1, <3>2 DEF Step
    <2>3. CASE KeepRows
        <3>1. Quiet
            BY <1>22, <2>3 DEF FailOwned, Close, Goto, KeepRows, Quiet, Story, Written
        <3> QED BY <3>1 DEF Step
    <2> QED BY <1>22, <2>2, <2>3 DEF FailOwned
<1>23. ASSUME NEW g \in Gens, StartRealtime(g)
      PROVE  Step
    <2>1. row[g] = "none" /\ lock = g
        BY <1>23 DEF StartRealtime, Control, Unborn, Holder, Early
    <2>2. Story'
        BY <1>23, <2>1, InsertStory, EntryOf DEF StartRealtime, Admit, Goto
    <2>3. SpeaksAlone
        BY <1>23 DEF StartRealtime, SpeaksAlone
    <2> QED BY <2>2, <2>3 DEF Step
<1>24. ASSUME NEW g \in Gens, Raise(g)
       PROVE  Step
    <2>1. CASE task[g] = "admitting" /\ Insert(g)
        <3>1. row[g] = "none" /\ lock = g
            BY <2>1 DEF Control, Unborn, Holder
        <3>2. /\ UNCHANGED <<active, admission, spoken>>
              /\ Goto(g, "cancelling")
            BY <1>24, <2>1 DEF Raise, Close
        <3>3. Story'
            BY <2>1, <3>1, <3>2, InsertStory DEF Goto
        <3>4. SpeaksAlone
            BY <3>2 DEF SpeaksAlone
        <3> QED BY <3>3, <3>4 DEF Step
    <2>2. CASE ~(task[g] = "admitting" /\ Insert(g))
        <3>1. UNCHANGED <<order, spoken, admission>>
            BY <1>24, <2>2 DEF Raise, Settle, KeepRows
        <3>2. \E st \in {"cancelling", "ending", "done"} : Goto(g, st)
            BY <1>24 DEF Raise, Close
        <3>3. active'.gen \in {active.gen, Nobody}
            BY <1>24, EmptyEntry DEF Raise
        <3>4. Quiet
            BY <3>1, <3>2, <3>3 DEF Goto, Quiet, Story, Written
        <3> QED BY <3>4 DEF Step
    <2> QED BY <2>1, <2>2
<1>25. ASSUME NEW g \in Gens, Start(g)
      PROVE  Step
    <2> Quiet
        BY <1>25 DEF Start, Goto, TaskTyped, Story, Written, Quiet
    <2> QED BY DEF Step
<1>26. ASSUME NEW g \in Gens, Prepare(g)
      PROVE  Step
    <2> Quiet
        BY <1>26 DEF Prepare, Close, Goto, TaskTyped, Story, Written, Quiet
    <2> QED BY DEF Step
<1>27. ASSUME NEW g \in Gens, Stale(g)
      PROVE  Step
    <2> Quiet
        BY <1>27 DEF Stale, Close, Goto, TaskTyped, Story, Written, Quiet
    <2> QED BY DEF Step
<1>28. ASSUME NEW g \in Gens, BeginCompletion(g)
      PROVE  Step
    <2> Quiet
        BY <1>28 DEF BeginCompletion, Close, Goto, IsCurrent, TaskTyped, Story, Written, Quiet
    <2> QED BY DEF Step
<1>29. ASSUME NEW g \in Gens, Fail(g)
      PROVE  Step
    <2> Quiet
        BY <1>29 DEF Fail, Close, Goto, TaskTyped, Story, Written, Quiet
    <2> QED BY DEF Step
<1>30. ASSUME NEW g \in Gens, Write(g)
      PROVE  Step
    <2> Quiet
        BY <1>30 DEF Write, Goto, TaskTyped, Story, Written, Quiet, Settle
    <2> QED BY DEF Step
<1>31. ASSUME NEW g \in Gens, End(g)
      PROVE  Step
    <2> Quiet
        BY <1>31, EmptyEntry DEF End, Goto, IsCurrent, TaskTyped, Story, Written, Quiet
    <2> QED BY DEF Step
<1>32. ASSUME NEW g \in Gens, CloseRealtime(g)
      PROVE  Step
    <2> Quiet
        BY <1>32 DEF CloseRealtime, Goto, TaskTyped, Story, Written, Quiet
    <2> QED BY DEF Step
<1>33. ASSUME NEW g \in Gens, CloseRefused(g)
      PROVE  Step
    <2> Quiet
        BY <1>33 DEF CloseRefused, Goto, TaskTyped, Story, Written, Quiet
    <2> QED BY DEF Step
<1>34. ASSUME NEW g \in Gens, NEW s \in {"cancelling", "failing"}, Terminate(g, s)
      PROVE  Step
    <2> Quiet
        BY <1>34, EmptyEntry DEF Terminate, Goto, IsCurrent, TaskTyped, Story, Written, Quiet
    <2> QED BY DEF Step
<1>35. ASSUME NEW g \in Gens, Speak(g)
       PROVE  Step
    <2>1. /\ active.gen = g /\ ~active.revoked /\ row[g] # "none"
          /\ UNCHANGED <<service, task, row, order>>
          /\ spoken' = [spoken EXCEPT ![g] = @ + 1]
        BY <1>35 DEF Speak, MayContinue, IsCurrent, Story, Written
    <2>2. \A h \in Gens : h # g => spoken'[h] = spoken[h]
        BY <2>1
    <2>3. SpeaksAlone
        BY <2>1, <2>2 DEF SpeaksAlone
    <2>4. Written' /\ Listed' /\ Newest'
        BY <2>1 DEF Story, Written, Listed, Newest
    <2>5. Mute'
        BY <2>1, <2>2 DEF Story, Mute
    <2>6. Frontier'
        BY <2>1, <2>2, OrderFacts DEF Story, Listed, Frontier
    <2> QED BY <2>3, <2>4, <2>5, <2>6 DEF Story, Step
<1>36. CASE UNCHANGED vars
    <2> Quiet
        BY <1>36 DEF Quiet, Story, Written
    <2> QED BY DEF Step
<1>37. CASE Arrival
    BY <1>37, <1>1, <1>2, <1>3, <1>4, <1>5 DEF Arrival
<1>38. CASE Disturbance
    BY <1>38, <1>6, <1>7, <1>8, <1>9, <1>10 DEF Disturbance
<1>39. ASSUME NEW g \in Gens, AdmissionStep(g)
       PROVE  Step
    BY <1>39, <1>14, <1>15, <1>16, <1>17, <1>18, <1>19, <1>20, <1>21, <1>22, <1>23 DEF AdmissionStep
<1>40. ASSUME NEW g \in Gens, TaskStep(g) \/ CoordinatorStep(g) \/ Speak(g)
       PROVE  Step
    BY <1>40, <1>24, <1>25, <1>26, <1>27, <1>28, <1>29, <1>30, <1>31, <1>32, <1>33, <1>34, <1>35
    DEF TaskStep, CoordinatorStep
<1> QED
    BY <1>11, <1>12, <1>13, <1>36, <1>37, <1>38, <1>39, <1>40 DEF Next, CallStep

------------------------------------------------------------------------------
(* The theorems. *)

LEMMA InitSafe == Init => IInv
<1> SUFFICES ASSUME Init
             PROVE  IInv
    OBVIOUS
<1> USE GensCall DEF Init
<1>1. TypeOK
    <2>1. RowsTyped
        BY DEF RowsTyped
    <2>2. EntryTyped
        BY EmptyEntry DEF EntryTyped
    <2>3. CallTyped
        BY DEF CallTyped, NoCall, Gone
    <2>4. AskedTyped /\ TaskTyped /\ IdleTyped
        BY DEF AskedTyped, TaskTyped, IdleTyped
    <2>5. RestTyped
        BY Bounds DEF RestTyped
    <2> QED BY <2>1, <2>2, <2>3, <2>4, <2>5, TypeParts
<1>2. Control
    <2>1. \A g \in Gens : admission[g] \in {"new", "over"} /\ task[g] = "none" /\ row[g] = "none"
        OBVIOUS
    <2>2. active.gen = Nobody /\ revoked = {}
        BY EmptyEntry
    <2> HIDE DEF Init
    <2> QED
        BY <2>1, <2>2 DEF Control, Unborn, Unmet, Fence, Barrier, Holder, Early
<1>3. Story
    BY DEF Story, Written, Mute, Listed, Newest, Frontier
<1> QED BY <1>1, <1>2, <1>3 DEF IInv

LEMMA NextSafe == IInv /\ [Next]_vars => IInv' /\ RowsMove /\ SpeaksAlone
BY TypeStep, ControlStep, StoryStep DEF IInv

LEMMA Invariance == Spec => []IInv
<1>1. IInv /\ [Next]_vars => IInv'
    BY NextSafe
<1> QED BY InitSafe, <1>1, PTL DEF Spec

\* Every variable stays in its type: the stages, the table rows, the deltas and the budget.
THEOREM TypeCorrect == Spec => []TypeOK
<1>1. IInv => TypeOK
    BY DEF IInv
<1> QED BY <1>1, Invariance, PTL

\* A generation that was revoked is never committed as completed: _begin_completion and
\* cancel exclude each other through the flags of the entry.
THEOREM Revoked == Spec => []RevokedNeverCompletes
<1>1. IInv => RevokedNeverCompletes
    BY DEF IInv, TypeOK, Control, Barrier, RevokedNeverCompletes
<1> QED BY <1>1, Invariance, PTL

\* The terminal transactions settle a row once, whichever of them comes first.
THEOREM FirstVerdict == Spec => VerdictIsFinal
<1>1. IInv /\ [Next]_vars =>
        [\A g \in Gens : row[g] \notin {"none", "running"} => row'[g] \in {row[g], "deleted"}]_vars
    BY NextSafe DEF RowsMove
<1> QED BY <1>1, Invariance, PTL DEF Spec, VerdictIsFinal

\* No delta of a revoked generation is published, even by a provider that swallowed the
\* CancelledError: the fence of the entry outlives the request.
THEOREM Silence == Spec => RevokedIsSilent
<1>1. IInv /\ [Next]_vars => [\A g \in revoked : spoken'[g] = spoken[g]]_vars
    BY NextSafe DEF IInv, TypeOK, Control, Fence, SpeaksAlone
<1> QED BY <1>1, Invariance, PTL DEF Spec, RevokedIsSilent

\* Once a later generation was heard, no earlier one is.
THEOREM Forward == Spec => OutputMovesForward
<1>1. IInv /\ [Next]_vars =>
        [\A i, j \in DOMAIN order :
            i < j /\ spoken[order[j]] > 0 => spoken'[order[i]] = spoken[order[i]]]_vars
    <2> SUFFICES ASSUME IInv, [Next]_vars, NEW i \in DOMAIN order, NEW j \in DOMAIN order,
                        i < j, spoken[order[j]] > 0
                 PROVE  spoken'[order[i]] = spoken[order[i]]
        OBVIOUS
    <2>1. order[i] \in Gens
        BY OrderFacts DEF IInv
    <2>2. active.gen # order[i]
        BY DEF IInv, Story, Frontier
    <2> QED BY <2>1, <2>2, NextSafe DEF SpeaksAlone
<1> QED BY <1>1, Invariance, PTL DEF Spec, OutputMovesForward
==============================================================================
