------------------------------- MODULE EventFeed -------------------------------
(***************************************************************************)
(* What ADR 0024 promises the page that shows a session: a durable stream  *)
(* of events of which the page sees every one after the point where it was *)
(* loaded, once and in order, whatever happens to connections and queues.  *)
(***************************************************************************)
EXTENDS Integers

CONSTANT MaxEvents  \* bound on the events of the session

VARIABLES
    committed,  \* the sequence of the newest event
    loaded,     \* the cursor the page was loaded with
    cursor,     \* lastSequence of the page
    shown       \* shown[s]: how often the page was given event s since then

feedVars == <<committed, loaded, cursor, shown>>

Events == 1..MaxEvents
Nothing == [s \in Events |-> 0]

FeedInit == committed = 0 /\ loaded = 0 /\ cursor = 0 /\ shown = Nothing

Commit ==
    /\ committed < MaxEvents
    /\ committed' = committed + 1
    /\ UNCHANGED <<loaded, cursor, shown>>

\* The page is given the next events.
Show ==
    /\ cursor < committed
    /\ \E k \in cursor + 1 .. committed :
          /\ cursor' = k
          /\ shown' = [s \in Events |-> IF s \in cursor + 1 .. k THEN shown[s] + 1 ELSE shown[s]]
    /\ UNCHANGED <<committed, loaded>>

\* The page is loaded anew from a snapshot of the session.
Load ==
    /\ \E c \in 0..committed : loaded' = c /\ cursor' = c
    /\ shown' = Nothing
    /\ UNCHANGED committed

FeedNext == Commit \/ Show \/ Load

FeedSpec == FeedInit /\ [][FeedNext]_feedVars

FairFeed == FeedSpec /\ WF_feedVars(Show)
==============================================================================
