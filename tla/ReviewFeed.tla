----------------------------- MODULE ReviewFeed -----------------------------
(* What reviewers are shown: api/hitl_routes.py (the list of flags, the     *)
(* WebSocket with its broadcaster, the pages of a run's events) and the     *)
(* pending queue of hitl/queue.py in Redis.                                 *)
(*                                                                          *)
(* The audit pipeline stores a flag in one transaction and publishes it     *)
(* later; decisions close flags and publish nothing.  A viewer may open the *)
(* WebSocket for any topic, his own tenant or not.                          *)
EXTENDS Integers, Sequences, FiniteSets

CONSTANTS Viewers,      \* clients of the API
          ViewerTenant, \* viewer -> the tenant of his claims
          FlagTenants,  \* the flags that may be raised, each with its tenant
          Topics,       \* values of the tenant_id a WebSocket is opened with
          QueueSize,    \* maxsize of a subscriber's queue
          Times,        \* timestamps of events
          PageLimit,    \* limit of a page
          MaxArrived,   \* bound: events of the run
          MaxPages      \* bound: pages read

ASSUME FeedAssumption ==
    /\ ViewerTenant \in [Viewers -> Topics] /\ "closed" \notin Topics
    /\ QueueSize \in Nat \ {0} /\ PageLimit \in Nat \ {0}
    /\ Times \subseteq Nat \ {0} /\ MaxArrived \in Nat /\ MaxPages \in Nat

Flags == DOMAIN FlagTenants
All == "all"      \* a filter that is not given

VARIABLES
    flagRows,      \* flag -> its status in the flags table, or "none"
    published,     \* flags the pipeline has published
    subscribers,   \* FlagBroadcaster._subscribers
    socket,        \* viewer -> the topic of his WebSocket, or "closed"
    updates,       \* viewer -> the queue of his WebSocket
    told,          \* viewer -> flags he was sent or listed since he connected
    listed,        \* viewers who listed their open flags since they connected
    dropped        \* viewer -> flags his full queue had no room for
feedVars == <<flagRows, published, subscribers, socket, updates, told, listed, dropped>>

FeedInit ==
    /\ flagRows = [f \in Flags |-> "none"]
    /\ published = {}
    /\ subscribers = [t \in Topics |-> {}]
    /\ socket = [v \in Viewers |-> "closed"]
    /\ updates = [v \in Viewers |-> <<>>]
    /\ told = [v \in Viewers |-> {}]
    /\ listed = {}
    /\ dropped = [v \in Viewers |-> {}]

(* store_run_result commits the flag ... *)
StoreFlag(f) ==
    /\ flagRows[f] = "none"
    /\ flagRows' = [flagRows EXCEPT ![f] = "open"]
    /\ UNCHANGED <<published, subscribers, socket, updates, told, listed, dropped>>

(* ... and _route_flag publishes it: one entry a subscriber of its tenant,  *)
(* none where the queue is full.                                            *)
publish(f) ==
    LET bucket == subscribers[FlagTenants[f]]
        full   == {v \in bucket : Len(updates[v]) = QueueSize}
    IN  /\ flagRows[f] # "none" /\ f \notin published
        /\ published' = published \cup {f}
        /\ updates' = [v \in Viewers |-> IF v \in bucket \ full THEN Append(updates[v], f) ELSE updates[v]]
        /\ dropped' = [v \in Viewers |-> IF v \in full THEN dropped[v] \cup {f} ELSE dropped[v]]
        /\ UNCHANGED <<flagRows, subscribers, socket, told, listed>>

\* submit_decision closes the flag.
Decide(f) ==
    /\ flagRows[f] = "open"
    /\ flagRows' = [flagRows EXCEPT ![f] = "resolved"]
    /\ UNCHANGED <<published, subscribers, socket, updates, told, listed, dropped>>

\* Mutated form: the bucket is the last subscriber.
SubscribeAlone(topic, v) == subscribers' = [subscribers EXCEPT ![topic] = {v}]

subscribe(topic, v) == subscribers' = [subscribers EXCEPT ![topic] = @ \cup {v}]
unsubscribe(topic, v) == subscribers' = [subscribers EXCEPT ![topic] = @ \ {v}]

(* ws_flags: accept and subscribe with an empty queue; what the viewer knew *)
(* from an earlier connection is not counted.                               *)
Connect(v, topic) ==
    /\ socket[v] = "closed"
    /\ subscribe(topic, v)
    /\ socket' = [socket EXCEPT ![v] = topic]
    /\ updates' = [updates EXCEPT ![v] = <<>>]
    /\ told' = [told EXCEPT ![v] = {}]
    /\ dropped' = [dropped EXCEPT ![v] = {}]
    /\ listed' = listed \ {v}
    /\ UNCHANGED <<flagRows, published>>

(* The loop of ws_flags: the next entry is sent, or the peer turns out to   *)
(* be gone, and the entry is lost with the connection.  The ping after 30   *)
(* seconds of silence changes nothing.                                      *)
ws_flags(v) ==
    /\ socket[v] # "closed" /\ updates[v] # <<>>
    /\ updates' = [updates EXCEPT ![v] = Tail(@)]
    /\ told' = [told EXCEPT ![v] = @ \cup {Head(updates[v])}]
    /\ UNCHANGED <<flagRows, published, subscribers, socket, listed, dropped>>

Disconnect(v) ==
    /\ socket[v] # "closed"
    /\ unsubscribe(socket[v], v)
    /\ socket' = [socket EXCEPT ![v] = "closed"]
    /\ updates' = [updates EXCEPT ![v] = <<>>]
    /\ UNCHANGED <<flagRows, published, told, listed, dropped>>

(* The rows that the filters leave of those that tenant_scope shows.        *)
_get_flags(v, status_filter, tenant_id_filter) ==
    {f \in Flags : /\ flagRows[f] # "none"
                   /\ FlagTenants[f] = ViewerTenant[v]
                   /\ status_filter \in {All, flagRows[f]}
                   /\ tenant_id_filter \in {All, FlagTenants[f]}}

list_flags(v, status, tenant_id) ==
    /\ socket[v] # "closed"
    /\ told' = [told EXCEPT ![v] = @ \cup _get_flags(v, status, tenant_id)]
    /\ listed' = IF status \in {All, "open"} /\ tenant_id \in {All, ViewerTenant[v]}
                 THEN listed \cup {v} ELSE listed
    /\ UNCHANGED <<flagRows, published, subscribers, socket, updates, dropped>>

FeedNext ==
    \/ \E f \in Flags : StoreFlag(f) \/ publish(f) \/ Decide(f)
    \/ \E v \in Viewers :
          \/ \E topic \in Topics : Connect(v, topic)
          \/ ws_flags(v)
          \/ Disconnect(v)
          \/ \E status \in {All, "open", "resolved"}, tenant_id \in Topics \cup {All} : list_flags(v, status, tenant_id)

(* A viewer who opened the WebSocket of his tenant and then listed its open *)
(* flags knows every open flag that was published, or has it coming, or his *)
(* queue was full: no flag falls between the list and the live updates,     *)
(* whoever else comes and goes.                                             *)
NoFlagMissed ==
    \A v \in listed : socket[v] = ViewerTenant[v] =>
        \A f \in published : /\ flagRows[f] = "open"
                             /\ FlagTenants[f] = ViewerTenant[v]
                             => f \in told[v] \cup dropped[v] \cup {updates[v][i] : i \in DOMAIN updates[v]}

-----------------------------------------------------------------------------
(* The pending queue: a hash a flag, which expires, and an index of them.   *)
VARIABLES
    records,    \* flags whose hash exists
    index,      \* the set hitl:index of the tenant
    enqueued,   \* flags that have been enqueued
    listing,    \* list_pending in progress: flags still to look up, and those found
    throughout  \* ghost: flags pending since the listing began
queueVars == <<records, index, enqueued, listing, throughout>>

NoListing == [pc |-> "idle", todo |-> {}, found |-> {}, gone |-> "none"]
QueueInit == records = {} /\ index = {} /\ enqueued = {} /\ throughout = {} /\ listing = NoListing

(* enqueue: one MULTI.  A flag is routed once. *)
enqueue(f) ==
    /\ f \notin enqueued
    /\ records' = records \cup {f} /\ index' = index \cup {f} /\ enqueued' = enqueued \cup {f}
    /\ UNCHANGED <<listing, throughout>>

(* The TTL of a hash is over; its entry of the index stays. *)
Expire(f) ==
    /\ f \in records
    /\ records' = records \ {f} /\ throughout' = throughout \ {f}
    /\ UNCHANGED <<index, enqueued, listing>>

(* ack: one MULTI. *)
ack(f) ==
    /\ f \in index
    /\ records' = records \ {f} /\ index' = index \ {f} /\ throughout' = throughout \ {f}
    /\ UNCHANGED <<enqueued, listing>>

(* list_pending: SMEMBERS ... *)
list_pending ==
    /\ listing.pc = "idle"
    /\ listing' = [NoListing EXCEPT !.pc = "look", !.todo = index]
    /\ throughout' = records
    /\ UNCHANGED <<records, index, enqueued>>

(* ... one HGETALL an entry ... *)
LookUp(f) ==
    /\ listing.pc = "look" /\ f \in listing.todo
    /\ listing' = IF f \in records
                  THEN [listing EXCEPT !.todo = @ \ {f}, !.found = @ \cup {f}]
                  ELSE [listing EXCEPT !.pc = "clean", !.todo = @ \ {f}, !.gone = f]
    /\ UNCHANGED <<records, index, enqueued, throughout>>

(* ... and SREM where there was no hash. *)
CleanUp ==
    /\ listing.pc = "clean"
    /\ index' = index \ {listing.gone}
    /\ listing' = [listing EXCEPT !.pc = "look", !.gone = "none"]
    /\ UNCHANGED <<records, enqueued, throughout>>

Listed ==
    /\ listing.pc = "look" /\ listing.todo = {}
    /\ listing' = NoListing /\ throughout' = {}
    /\ UNCHANGED <<records, index, enqueued>>

QueueNext == \/ \E f \in Flags : enqueue(f) \/ Expire(f) \/ ack(f) \/ LookUp(f)
             \/ list_pending \/ CleanUp \/ Listed

(* The clean-up of entries whose hash has expired never loses one whose     *)
(* hash exists, and a listing returns every flag that was pending all the   *)
(* time, with flags queued, expiring and acknowledged between its commands. *)
PendingReachable ==
    /\ records \subseteq index
    /\ listing.pc # "idle" => throughout \subseteq listing.todo \cup listing.found

(* Nothing raised is lost on its way to a reviewer, live or in the queue.   *)
NoFlagLost == NoFlagMissed /\ PendingReachable

-----------------------------------------------------------------------------
(* The events of a run, page by page.                                       *)
VARIABLES
    arrived,   \* timestamps of the run's events, in the order of their insertion
    cursor,    \* the reader's cursor: the ts of the last event he has
    seen,      \* events he was given
    cuts       \* ghost: cursor and table size at each page
pageVars == <<arrived, cursor, seen, cuts>>

PageInit == arrived = <<>> /\ cursor = 0 /\ seen = {} /\ cuts = <<>>

\* An event arrives; its ts is the harness's, or the observer's.
Arrive(ts) ==
    /\ Len(arrived) < MaxArrived
    /\ arrived' = Append(arrived, ts)
    /\ UNCHANGED <<cursor, seen, cuts>>

(* The possible answers: the first rows by ts, equal ones in any order. *)
_get_run_events(after, limit) ==
    LET rows == {i \in DOMAIN arrived : arrived[i] > after}
    IN  {page \in SUBSET rows :
            /\ Cardinality(page) = IF Cardinality(rows) < limit THEN Cardinality(rows) ELSE limit
            /\ \A i \in page, j \in rows \ page : arrived[i] <= arrived[j]}

(* The next page, "cursor-style": the reader goes on after the last ts.     *)
get_run_events ==
    /\ Len(cuts) < MaxPages
    /\ \E page \in _get_run_events(cursor, PageLimit) :
          /\ page # {}
          /\ seen' = seen \cup page
          /\ cursor' = CHOOSE ts \in {arrived[i] : i \in page} : \A i \in page : arrived[i] <= ts
          /\ cuts' = Append(cuts, [ts |-> cursor', size |-> Len(arrived)])
    /\ UNCHANGED arrived

PageNext == (\E ts \in Times : Arrive(ts)) \/ get_run_events

(* A reader who follows the cursor is given every event up to it, except    *)
(* one that arrived after the page that went past it, or that has the very  *)
(* ts a page ended with: both are lost to him, and the code has no second   *)
(* look at them.                                                            *)
PagesComplete ==
    \A i \in DOMAIN arrived \ seen : arrived[i] <= cursor =>
        \E p \in DOMAIN cuts : /\ arrived[i] <= cuts[p].ts
                               /\ i > cuts[p].size \/ arrived[i] = cuts[p].ts

(* Nothing falls between two reads of a reviewer: neither a flag between    *)
(* list, live feed and queue, nor an event between two pages.               *)
NothingWithheld == NoFlagLost /\ PagesComplete
=============================================================================
