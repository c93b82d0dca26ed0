------------------------------ MODULE EventFeed ------------------------------
(***************************************************************************)
(* The event ledger and its two readers (core/api/events.py).  Handlers,   *)
(* workers and executors write events; each is stamped with the time in    *)
(* its own process and becomes visible when that process commits, so a     *)
(* later stamp can be visible first.  A listing goes page by page from the *)
(* newest event down, with the last event of a page as cursor; a stream    *)
(* polls for the events after the last one that it sent, and a client that *)
(* lost the connection opens a new one with the last id that it got.       *)
(*                                                                         *)
(* Both readers fetch a window of rows (four times the limit) and filter   *)
(* it afterwards by workspace and kind.  The ledger's order, by time and   *)
(* then id, is the order of the numbers of the events here; the answer to  *)
(* a query is the set of its events, which are sent and shown in this      *)
(* order.                                                                  *)
(***************************************************************************)
EXTENDS Naturals, FiniteSets, FiniteSetsExt, Sequences, SequencesExt

CONSTANTS
    Limit,          \* events in a page, and in one batch of the stream
    Window,         \* rows fetched for them: limit * 4
    MaxEvents,      \* bound: events written
    MaxBreaks       \* bound: connections that break

ASSUME FeedAssumption ==
    Limit \in Nat \ {0} /\ Window \in Nat /\ Window > Limit

VARIABLES
    matches,        \* for each event stamped so far: the filter takes it
    visible,        \* the events that are committed
    late,           \* those committed when a later one was visible (history)
    stream,         \* the stream: its anchor and what it has yet to send of its batch
    got,            \* what the client of the stream received
    pages,          \* the listing under way; "shown" has a set for each page
    breaks

feedVars == <<matches, visible, late, stream, got, pages, breaks>>

Stamped == DOMAIN matches
Matching(S) == {e \in S : matches[e]}

FeedInit ==
    /\ matches = << >> /\ visible = {} /\ late = {}
    /\ stream = [anchor |-> 0, batch |-> {}, open |-> TRUE]
    /\ got = <<>>
    /\ pages = [stage |-> "idle", cursor |-> 0, shown |-> <<>>,
                known |-> {}, floor |-> 0]
    /\ breaks = 0

(* An event is stamped, and committed.  Another process may do both in     *)
(* between.                                                                *)
StampEvent(match) ==
    /\ Len(matches) < MaxEvents
    /\ matches' = Append(matches, match)
    /\ UNCHANGED <<visible, late, stream, got, pages, breaks>>

CommitEvent(e) ==
    /\ e \in Stamped \ visible
    /\ visible' = visible \union {e}
    /\ late' = IF \E f \in visible : f > e THEN late \union {e} ELSE late
    /\ UNCHANGED <<matches, stream, got, pages, breaks>>

-----------------------------------------------------------------------------
Lowest(S, n) == {e \in S : Cardinality({f \in S : f <= e}) <= n}
Highest(S, n) == {e \in S : Cardinality({f \in S : f >= e}) <= n}

(* The stream.                                                             *)
\* Mutant: the anchor itself is fetched again.
From(anchor) == {e \in visible : e >= anchor}

After(anchor) == {e \in visible : e > anchor}

\* Mutant: a batch is cut off before it is filtered.
FilterAfterLimit(anchor) ==
    Matching(Lowest(After(anchor), Limit))

_query_stream_events(anchor) ==
    Lowest(Matching(Lowest(After(anchor), Window)), Limit)

(* A poll that finds nothing changes nothing and is repeated.              *)
Poll ==
    /\ stream.open /\ stream.batch = {}
    /\ LET batch == _query_stream_events(stream.anchor)
       IN  batch # {} /\ stream' = [stream EXCEPT !.batch = batch]
    /\ UNCHANGED <<matches, visible, late, got, pages, breaks>>

SendEvent ==
    /\ stream.open /\ stream.batch # {}
    /\ LET e == Min(stream.batch)
       IN  /\ stream' = [stream EXCEPT !.anchor = e, !.batch = @ \ {e}]
           /\ got' = Append(got, e)
    /\ UNCHANGED <<matches, visible, late, pages, breaks>>

(* The connection breaks; what was sent last may not have arrived.         *)
Break ==
    /\ stream.open /\ breaks < MaxBreaks /\ breaks' = breaks + 1
    /\ stream' = [stream EXCEPT !.open = FALSE, !.batch = {}]
    /\ \/ UNCHANGED got
       \/ got # <<>> /\ got' = SubSeq(got, 1, Len(got) - 1)
    /\ UNCHANGED <<matches, visible, late, pages>>

Reconnect ==
    /\ ~stream.open
    /\ stream' = [anchor |-> IF got = <<>> THEN 0 ELSE got[Len(got)],
                  batch |-> {}, open |-> TRUE]
    /\ UNCHANGED <<matches, visible, late, got, pages, breaks>>

stream_events == Poll \/ SendEvent

-----------------------------------------------------------------------------
(* The listing.  A cursor of 0 is none.  A page has a next one only if     *)
(* the window holds more than a page of matching events.                   *)
Before(cursor) == {e \in visible : cursor = 0 \/ e < cursor}

_query_events(cursor) == Highest(Before(cursor), Window)

(* One page.  "known" keeps what was visible when the listing began,       *)
(* "floor" the oldest row that was looked at.                              *)
list_events ==
    LET candidates == _query_events(pages.cursor)
        events == Matching(candidates)
        more == Cardinality(events) > Limit
        page == Highest(events, Limit)
    IN  /\ pages.stage # "ended" /\ visible # {}
        /\ pages' =
             [stage |-> IF more THEN "more" ELSE "ended",
              cursor |-> IF more THEN Min(page) ELSE 0,
              shown |-> Append(pages.shown, page),
              known |-> IF pages.stage = "idle" THEN visible ELSE pages.known,
              floor |-> IF Cardinality(candidates) < Window THEN 0
                        ELSE Min(candidates)]
        /\ UNCHANGED <<matches, visible, late, stream, got, breaks>>

FeedNext ==
    \/ \E match \in BOOLEAN : StampEvent(match)
    \/ \E e \in Stamped : CommitEvent(e)
    \/ stream_events \/ Break \/ Reconnect
    \/ list_events

(* An open stream polls and sends; a client that lost it comes back.       *)
FeedFairness == WF_feedVars(stream_events) /\ WF_feedVars(Reconnect)

FeedSpec == FeedInit /\ [][FeedNext]_feedVars /\ FeedFairness

-----------------------------------------------------------------------------
Shown == UNION ToSet(pages.shown)

FeedTypeOK ==
    /\ matches \in Seq(BOOLEAN) /\ visible \subseteq Stamped /\ late \subseteq visible
    /\ ToSet(got) \union stream.batch \subseteq visible
    /\ stream.anchor \in {0} \union visible
    /\ pages.stage \in {"idle", "more", "ended"}
    /\ Shown \subseteq visible

(***************************************************************************)
(* Neither reader repeats an event or disturbs the order, while events go  *)
(* on being written, over any page boundary and any break.  The stream     *)
(* skips no event that it should send, except one that was committed when  *)
(* a later event was visible already.  A listing that                      *)
(* has ended has shown every matching event that was there at its start,   *)
(* down to the oldest row it looked at (past which it does not look if the *)
(* last window held no more than a page).                                  *)
(***************************************************************************)
Increasing(seq) == \A i, j \in DOMAIN seq : i < j => seq[i] < seq[j]

FeedIsOrdered ==
    /\ Increasing(got)
    /\ \A i, j \in DOMAIN pages.shown : i < j =>
           \A e \in pages.shown[i], f \in pages.shown[j] : f < e
    /\ ToSet(got) \union Shown \subseteq Matching(visible)
    /\ \A e \in Matching(visible) \ late :
           got # <<>> /\ e < got[Len(got)] => e \in ToSet(got)
    /\ pages.stage = "ended" =>
           {e \in Matching(pages.known) : e >= pages.floor} \subseteq Shown

(***************************************************************************)
(* The stream does not stop short: again and again it has sent every       *)
(* matching event that lies after the last one it sent, unless a whole     *)
(* window of events that its filter refuses lies before the next.  (Then   *)
(* it polls that window for ever.)                                         *)
(***************************************************************************)
CaughtUp == stream.open /\ stream.batch = {} /\ Matching(After(stream.anchor)) = {}
Stuck ==
    LET window == Lowest(After(stream.anchor), Window)
    IN  Cardinality(window) = Window /\ Matching(window) = {}

StreamDelivers == []<>(CaughtUp \/ Stuck)
=============================================================================
