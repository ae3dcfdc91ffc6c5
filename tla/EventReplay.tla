------------------------------ MODULE EventReplay ------------------------------
(***************************************************************************)
(* How one session's events reach one page: EventPublisher persists and    *)
(* then publishes them, the bounded queue of an EventSubscription sheds    *)
(* and reorders them, the /v1/events handler replays from the EventStore   *)
(* what it misses, and RuntimeSocketClient keeps the cursor in the browser *)
(* and fills the gaps it still sees over HTTP.                             *)
(*                                                                         *)
(* Every await between two effects is a step boundary.  Python's and the   *)
(* browser's event loops run a handler alone between two awaits.  An HTTP  *)
(* page is read and applied in one step: only a lost connection, after     *)
(* which it is thrown away, could come between the two.                    *)
(***************************************************************************)
EXTENDS Integers, FiniteSets, Sequences

CONSTANTS
    MaxEvents,  \* bound on the events of the session
    Kinds,      \* the kinds of the events that turns commit
    QueueSize,  \* the queue of a subscription (128)
    PageLimit,  \* the events a read of the stream returns at most (500)
    MaxResets,  \* bound on the resets of the session
    Budget      \* bound on lost connections, failed requests, restarts and reloads

ASSUME ReplayAssumption ==
    /\ MaxEvents \in Nat
    /\ Kinds \subseteq {"preemptive", "critical", "domain"}
    /\ QueueSize \in Nat \ {0}
    /\ PageLimit \in Nat \ {0}
    /\ MaxResets \in Nat
    /\ Budget \in Nat

VARIABLES
    log,        \* the kinds of all events ever committed, by sequence
    stored,     \* the sequences still in the events table
    unpublished,\* the events persisted and not yet offered to the hub
    resets,     \* the sequences of session.data_reset events
    queue,      \* the subscription's queue, in the order of the offers
    server,     \* the /v1/events handler: its stage, last_sequence, the rest of
                \* the page it replays, and the live event that waits for the replay
    conn,       \* the event socket of the page
    wire,       \* the events sent to the page and not yet consumed
    loaded,     \* the cursor the page was loaded with
    cursor,     \* lastSequence of the page
    shown,      \* shown[s]: how often onEvent got event s since then
    want,       \* the event whose gap the page is filling, or 0
    budget

stream == <<log, stored, unpublished, resets>>
page   == <<loaded, cursor, shown, want>>
vars   == <<stream, queue, server, conn, wire, page, budget>>

Events  == 1..MaxEvents
Nothing == [s \in Events |-> 0]
Last == Len(log)
Feed == INSTANCE EventFeed WITH committed <- Last
Off  == [stage |-> "off", last |-> 0, rest |-> {}, more |-> FALSE, held |-> 0]

Least(S) == CHOOSE s \in S : \A t \in S : s <= t

Init ==
    /\ log = <<>> /\ stored = {} /\ unpublished = {} /\ resets = {}
    /\ queue = <<>> /\ server = Off
    /\ conn = "down" /\ wire = <<>>
    /\ loaded = 0 /\ cursor = 0 /\ shown = Nothing /\ want = 0
    /\ budget = Budget

------------------------------------------------------------------------------
(* EventStore.read_stream. *)

\* The first events after a cursor, at most a page of them.
ReadStream(after) ==
    LET later == {s \in stored : s > after}
    IN  {s \in later : Cardinality({t \in later : t < s}) < PageLimit}

------------------------------------------------------------------------------
(* EventSubscription. *)

\* _RETENTION_WEIGHT; every preemptive event is a critical one.
Weight(kind) == CASE kind = "telemetry" -> 0
                  [] kind = "domain" -> 1
                  [] OTHER -> 2

Without(q, i) == SubSeq(q, 1, i - 1) \o SubSeq(q, i + 1, Len(q))

\* offer: a full queue gives up its least important event, the oldest of them,
\* unless the new one is less important still.
Offered(e) ==
    LET weight(i)  == Weight(queue[i].kind)
        evictable  == {i \in DOMAIN queue : e.kind # "telemetry" /\ weight(i) <= Weight(e.kind)}
        victims    == {i \in evictable : \A j \in evictable : weight(i) <= weight(j)}
    IN  IF server.stage = "off" THEN queue
        ELSE IF Len(queue) < QueueSize THEN Append(queue, e)
        ELSE IF victims = {} THEN queue
        ELSE Append(Without(queue, Least(victims)), e)

\* receive: preemptive events first, then in the order of the offers.
Foremost ==
    LET preemptive == {i \in DOMAIN queue : queue[i].kind = "preemptive"}
    IN  IF preemptive = {} THEN 1 ELSE Least(preemptive)

------------------------------------------------------------------------------
(* EventPublisher and the reset of a session. *)

\* emit, up to the commit of its transaction; a turn and its tasks emit concurrently.
Persist(kind, kept) ==
    /\ Last < MaxEvents
    /\ log' = Append(log, kind)
    /\ stored' = kept \cup {Last + 1}
    /\ unpublished' = unpublished \cup {Last + 1}

Emit(kind) ==
    /\ Persist(kind, stored)
    /\ UNCHANGED <<resets, queue, server, conn, wire, page, budget>>

\* publish_persisted.
Publish(s) ==
    /\ s \in unpublished
    /\ unpublished' = unpublished \ {s}
    /\ queue' = Offered([seq |-> s, kind |-> log[s]])
    /\ UNCHANGED <<log, stored, resets, server, conn, wire, page, budget>>

\* publish_ephemeral: a text delta has no sequence.
PublishEphemeral ==
    /\ server.stage # "off"
    /\ queue' = Offered([seq |-> 0, kind |-> "telemetry"])
    /\ UNCHANGED <<stream, server, conn, wire, page, budget>>

\* reset: the history goes, but for events some memory stems from, and the event
\* that says so takes the next sequence in the same transaction.
Reset(kept) ==
    /\ Cardinality(resets) < MaxResets
    /\ Persist("domain", kept)
    /\ resets' = resets \cup {Last + 1}
    /\ UNCHANGED <<queue, server, conn, wire, page, budget>>

------------------------------------------------------------------------------
(* runtime_events, the handler of the websocket. *)

Send(s) == wire' = Append(wire, s)

\* replay_missing reads a page.
ServerRead ==
    LET events == ReadStream(server.last)
    IN  /\ server.stage = "read"
        /\ server' = [server EXCEPT !.stage = IF events = {} THEN "resume" ELSE "send",
                                    !.rest = events,
                                    !.more = Cardinality(events) = PageLimit]
        /\ UNCHANGED <<stream, queue, conn, wire, page, budget>>

ServerSendNext ==
    LET s == Least(server.rest)
    IN  /\ server.stage = "send"
        /\ Send(s)
        /\ server' = [server EXCEPT !.last = s, !.rest = @ \ {s},
                                    !.stage = IF server.rest # {s} THEN "send"
                                              ELSE IF server.more THEN "read" ELSE "resume"]
        /\ UNCHANGED <<stream, queue, conn, page, budget>>

\* The replay is complete; a live event that led to it may still be news.
ServerResume ==
    /\ server.stage = "resume"
    /\ IF server.held > server.last
       THEN Send(server.held) ELSE UNCHANGED wire
    /\ server' = [server EXCEPT !.stage = "live", !.held = 0,
                                !.last = IF server.held > @ THEN server.held ELSE @]
    /\ UNCHANGED <<stream, queue, conn, page, budget>>

\* Fault: the handler forwards what the hub gives it.
FaultServerReceive ==
    LET s == queue[Foremost].seq
    IN  /\ server.stage = "live" /\ queue # <<>>
        /\ queue' = Without(queue, Foremost)
        /\ IF s > server.last THEN Send(s) /\ server' = [server EXCEPT !.last = s]
           ELSE UNCHANGED <<server, wire>>
        /\ UNCHANGED <<stream, conn, page, budget>>

ServerReceive ==
    LET s == queue[Foremost].seq
    IN  /\ server.stage = "live" /\ queue # <<>>
        /\ queue' = Without(queue, Foremost)
        /\ CASE s <= server.last -> UNCHANGED <<server, wire>>
             [] s = server.last + 1 -> Send(s) /\ server' = [server EXCEPT !.last = s]
             [] OTHER -> /\ server' = [server EXCEPT !.stage = "read", !.held = s]
                         /\ UNCHANGED wire
        /\ UNCHANGED <<stream, conn, page, budget>>

------------------------------------------------------------------------------
(* RuntimeSocketClient. *)

\* deliverEvent for every event up to k.
DeliverUpTo(k) ==
    /\ cursor' = k
    /\ shown' = [s \in Events |-> IF s \in cursor + 1 .. k THEN shown[s] + 1 ELSE shown[s]]

\* Fault: the live events only.
FaultConnect ==
    /\ conn = "down"
    /\ conn' = "open"
    /\ server' = [Off EXCEPT !.stage = "read", !.last = Last]
    /\ UNCHANGED <<stream, queue, wire, page, budget>>

\* connectEvents, with the cursor; the handler subscribes before it reads.
Connect ==
    /\ conn = "down"
    /\ conn' = "open"
    /\ server' = [Off EXCEPT !.stage = "read", !.last = cursor]
    /\ UNCHANGED <<stream, queue, wire, page, budget>>

\* The socket is gone: onclose, and the handler unsubscribes.
Hangup ==
    /\ conn' = "down" /\ server' = Off
    /\ queue' = <<>> /\ wire' = <<>> /\ want' = 0

\* Fault: a gap is not noticed.
FaultConsume ==
    LET s == Head(wire)
    IN  /\ conn # "down" /\ want = 0 /\ wire # <<>>
        /\ wire' = Tail(wire)
        /\ IF s <= cursor THEN UNCHANGED <<cursor, shown>>
           ELSE cursor' = s /\ shown' = [shown EXCEPT ![s] = @ + 1]
        /\ UNCHANGED <<stream, queue, server, conn, loaded, want, budget>>

\* consumeEvent.
Consume ==
    LET s == Head(wire)
    IN  /\ conn # "down" /\ want = 0 /\ wire # <<>>
        /\ wire' = Tail(wire)
        /\ CASE s <= cursor -> UNCHANGED <<cursor, shown, want>>
             [] s = cursor + 1 -> DeliverUpTo(s) /\ UNCHANGED want
             [] OTHER -> want' = s /\ UNCHANGED <<cursor, shown>>
        /\ UNCHANGED <<stream, queue, server, conn, loaded, budget>>

\* replayGap reads a page over HTTP and delivers what continues the cursor; a hole
\* in the page throws, and so does an empty one: the socket is closed.
FillGap ==
    LET events == ReadStream(cursor)
    IN  /\ want # 0
        /\ \E reached \in cursor..Last :
              LET broken == events = {} \/ \E s \in events : s > reached
              IN  /\ cursor + 1 .. reached \subseteq events /\ reached + 1 \notin events
                  /\ DeliverUpTo(IF ~broken /\ want = reached + 1 THEN want ELSE reached)
                  /\ conn' = IF broken THEN "closing" ELSE conn
                  /\ want' = IF ~broken /\ want > reached + 1 THEN want ELSE 0
        /\ UNCHANGED <<stream, queue, server, wire, loaded, budget>>

\* close() completes; messages the page already has are consumed before that.
FinishClose ==
    /\ conn = "closing"
    /\ Hangup
    /\ UNCHANGED <<stream, loaded, cursor, shown, budget>>

------------------------------------------------------------------------------
(* The surroundings. *)

Spend == budget > 0 /\ budget' = budget - 1

\* The socket breaks, or the HTTP request for a page fails.
Break ==
    /\ Spend /\ conn = "open"
    /\ \/ Hangup
       \/ want # 0 /\ conn' = "closing" /\ want' = 0 /\ UNCHANGED <<queue, server, wire>>
    /\ UNCHANGED <<stream, loaded, cursor, shown>>

\* The runtime stops and starts: the outbox is drained before it serves anyone.
Restart ==
    /\ Spend
    /\ unpublished' = {}
    /\ Hangup
    /\ UNCHANGED <<log, stored, resets, loaded, cursor, shown>>

\* The page is (re)loaded from recovery_state: from the latest event, or from
\* right before the assistant.generation_started of an active generation, which
\* no reset has seen.
Reload ==
    /\ Spend
    /\ \E c \in {Last} \cup {s - 1 : s \in {t \in stored : \A r \in resets : t > r}} :
          loaded' = c /\ cursor' = c
    /\ shown' = Nothing
    /\ Hangup
    /\ UNCHANGED stream

PublisherStep == \E s \in unpublished : Publish(s)
ServerStep    == ServerRead \/ ServerSendNext \/ ServerResume \/ ServerReceive
PageStep      == Connect \/ Consume \/ FillGap \/ FinishClose

Next ==
    \/ \E kind \in Kinds : Emit(kind)
    \/ PublishEphemeral
    \/ \E kept \in SUBSET stored : Reset(kept)
    \/ PublisherStep \/ ServerStep \/ PageStep
    \/ Break \/ Restart \/ Reload

Spec == Init /\ [][Next]_vars

\* The event loops of the runtime and of the page keep running, and a page that
\* lost its socket tries again.
Fairness == WF_vars(PublisherStep) /\ WF_vars(ServerStep) /\ WF_vars(PageStep)

LiveSpec == Spec /\ Fairness

------------------------------------------------------------------------------
(* Properties. *)

TypeOK ==
    /\ log \in Seq(Kinds \cup {"domain"}) /\ Last <= MaxEvents
    /\ stored \subseteq 1..Last
    /\ unpublished \subseteq 1..Last
    /\ resets \subseteq 1..Last
    /\ queue \in Seq([seq : 0..Last, kind : Kinds \cup {"domain", "telemetry"}])
    /\ Len(queue) <= QueueSize
    /\ server \in [stage : {"off", "read", "send", "resume", "live"}, last : 0..Last,
                   rest : SUBSET (1..Last), more : BOOLEAN, held : 0..Last]
    /\ conn \in {"down", "open", "closing"}
    /\ wire \in Seq(1..Last)
    /\ want \in 0..Last
    /\ loaded \in 0..cursor /\ cursor \in 0..Last
    /\ shown \in [Events -> Nat]
    /\ budget \in 0..Budget

\* The page sees the durable stream of EventFeed: every event once and in order,
\* although the hub sheds and reorders, both sides replay, and connections break.
ImplementsFeed == Feed!FeedSpec

\* What an open connection carries continues the cursor of the page.  A hole in it
\* stems from a reset: overflow and preemption of the hub never reach the page.
HolesStemFromResets ==
    conn = "open" /\ want = 0 =>
        \A i \in DOMAIN wire :
            LET before == IF i = 1 THEN cursor ELSE wire[i - 1]
            IN  /\ i > 1 => before < wire[i]
                /\ \A s \in before + 1 .. wire[i] - 1 : s \notin stored

\* A reset the page has not consumed (finding 1), or an event that the hub shed from a
\* full queue and that no later one has made the handler look for.
Cut       == \E r \in resets : r > cursor
Unnoticed ==
    /\ server.stage = "live" /\ server.last < Last /\ unpublished = {}
    /\ \A i \in DOMAIN queue : queue[i].seq <= server.last

\* Startup and reconnect converge on the stream: again and again the page has caught up
\* with what is committed, unless one of the two stands in its way.
EventsReachThePage == []<>(cursor = Last \/ Cut \/ Unnoticed)

\* ADR 0024 of the session.data_reset event: "Every connected client consumes that
\* next sequence and clears its projection".
ResetIsConsumed == \A s \in Events : s \in resets ~> cursor >= s
==============================================================================
