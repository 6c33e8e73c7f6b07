---------------------------- MODULE EventStream ----------------------------
(***************************************************************************)
(* The live event stream of agent_runtime/streaming.py over the rows that  *)
(* repository.py and events.py append to strategyos_agent_events_v2.  A    *)
(* row is stamped now(), the time its transaction began, and is seen by    *)
(* the stream once the transaction has committed; between the two a writer *)
(* may wait for the row lock of its aggregate.  One client reads, and      *)
(* reconnects with the Last-Event-ID it has.                               *)
(***************************************************************************)
EXTENDS Integers, Sequences, FiniteSets

CONSTANTS
  Aggregate,     \* tasks, messages, ... that exist already
  Writer,        \* transactions in flight
  Limit,         \* rows per poll; 200 in the code
  None,          \* null
  MaxTime,       \* bound: values of the database clock
  MaxEvents,     \* bound: rows
  MaxConnects    \* bound: connections of the client

ASSUME LimitAssumption == Limit \in Nat \ {0}
ASSUME BoundsAssumption ==
  MaxTime \in Nat /\ MaxEvents \in Nat /\ MaxConnects \in Nat

Row  == [at : 0..MaxTime, id : 1..MaxEvents]
Time == 0..MaxTime

ASSUME NoneAssumption == None \notin Nat \cup Row

VARIABLES
  clock,      \* now() of a transaction that begins
  wpc,        \* per writer: "idle", "begun", "locked"
  started,    \* per writer: now() of its transaction, 0 outside one
  target,     \* per writer: the aggregate it changes
  events,     \* the rows, in commit order
  connected,  \* sse_event_stream runs
  boundary,   \* connect_boundary, None after a reconnect with a cursor
  cursor,     \* the row of the cursor, None before the first
  batch,      \* rows fetched and not yet yielded
  lastId,     \* the client's Last-Event-ID: a row or None
  received,   \* rows the client got, in order
  connects

writers == <<clock, wpc, started, target, events>>
client  == <<connected, boundary, cursor, batch, lastId, received, connects>>
vars == <<writers, client>>

TypeOK ==
  /\ clock \in Time
  /\ wpc \in [Writer -> {"idle", "begun", "locked"}]
  /\ started \in [Writer -> Time]
  /\ target \in [Writer -> Aggregate]
  /\ events \in Seq(Row)
  /\ connected \in BOOLEAN
  /\ boundary \in Time \cup {None}
  /\ cursor \in Row \cup {None}
  /\ batch \subseteq Row
  /\ lastId \in Row \cup {None}
  /\ received \in Seq(Row)
  /\ connects \in 0..MaxConnects

(* Rows from before the model's first instant are behind every boundary.    *)
Init ==
  /\ clock = 0
  /\ wpc = [w \in Writer |-> "idle"]
  /\ started = [w \in Writer |-> 0]
  /\ \E a \in Aggregate : target = [w \in Writer |-> a]
  /\ events = <<>>
  /\ connected = FALSE
  /\ boundary = None
  /\ cursor = None
  /\ batch = {}
  /\ lastId = None
  /\ received = <<>>
  /\ connects = 0

----------------------------------------------------------------------------
(* Writers.                                                                 *)

Tick ==
  /\ clock < MaxTime
  /\ clock' = clock + 1
  /\ UNCHANGED <<wpc, started, target, events, client>>

Begin(w, a) ==
  /\ wpc[w] = "idle"
  /\ Len(events) < MaxEvents
  /\ wpc' = [wpc EXCEPT ![w] = "begun"]
  /\ started' = [started EXCEPT ![w] = clock]
  /\ target' = [target EXCEPT ![w] = a]
  /\ UNCHANGED <<clock, events, client>>

(* "select ... for update" of the aggregate's row.                          *)
LockAggregate(w) ==
  /\ wpc[w] = "begun"
  /\ \A v \in Writer : ~(wpc[v] = "locked" /\ target[v] = target[w])
  /\ wpc' = [wpc EXCEPT ![w] = "locked"]
  /\ UNCHANGED <<clock, started, target, events, client>>

FreshIds == (1..MaxEvents) \ {events[i].id : i \in 1..Len(events)}

(* Ids are random UUIDs: any that is not in use.                            *)
append_event(w, id) ==
  events' = Append(events, [at |-> started[w], id |-> id])

Commit(w) ==
  /\ wpc[w] = "locked"
  /\ \E id \in FreshIds : append_event(w, id)
  /\ wpc' = [wpc EXCEPT ![w] = "idle"]
  /\ started' = [started EXCEPT ![w] = 0]
  /\ UNCHANGED <<clock, target, client>>

(* An illegal transition, a conflict, a crash.                              *)
Rollback(w) ==
  /\ wpc[w] # "idle"
  /\ wpc' = [wpc EXCEPT ![w] = "idle"]
  /\ started' = [started EXCEPT ![w] = 0]
  /\ UNCHANGED <<clock, target, events, client>>

----------------------------------------------------------------------------
(* The stream.                                                              *)

Connect ==
  /\ ~connected
  /\ connects < MaxConnects
  /\ connects' = connects + 1
  /\ connected' = TRUE
  /\ cursor' = lastId
  /\ boundary' = IF lastId = None THEN clock ELSE None
  /\ UNCHANGED <<writers, batch, lastId, received>>

(* _db_now found no connection: the boundary is null, and no row is ever    *)
(* later than null.                                                         *)
ConnectMute ==
  /\ ~connected
  /\ lastId = None
  /\ connects < MaxConnects
  /\ connects' = connects + 1
  /\ connected' = TRUE
  /\ UNCHANGED <<writers, boundary, cursor, batch, lastId, received>>

Position == IF cursor # None THEN cursor.at ELSE boundary

Before(e, f) == e.at < f.at \/ (e.at = f.at /\ e.id < f.id)

Rows == {events[i] : i \in 1..Len(events)}

Later == {e \in Rows : Position # None /\ e.at > Position}

(* "order by occurred_at, id limit n".                                       *)
FirstOf(S, n) == {e \in S : Cardinality({f \in S : Before(f, e)}) < n}

(* Rows at the cursor's instant fetched again.                              *)
events_after_INCLUSIVE ==
  FirstOf({e \in Rows : Position # None /\ e.at >= Position}, Limit)

(* The latest rows within the limit fetched instead of the earliest.        *)
events_after_NEWEST ==
  {e \in Later : Cardinality({f \in Later : Before(e, f)}) < Limit}

events_after == FirstOf(Later, Limit)

(* The stream over with the first rows it found.                            *)
Poll_ONCE ==
  /\ connected
  /\ received = <<>>
  /\ batch = {}
  /\ events_after # {}
  /\ batch' = events_after
  /\ UNCHANGED <<writers, connected, boundary, cursor, lastId, received, connects>>

(* A poll that finds nothing, or no connection, changes nothing.            *)
Poll ==
  /\ connected
  /\ batch = {}
  /\ events_after # {}
  /\ batch' = events_after
  /\ UNCHANGED <<writers, connected, boundary, cursor, lastId, received, connects>>

Yield ==
  /\ connected
  /\ \E e \in batch :
       /\ \A f \in batch \ {e} : Before(e, f)
       /\ batch' = batch \ {e}
       /\ cursor' = e
       /\ received' = Append(received, e)
       /\ lastId' = e
  /\ UNCHANGED <<writers, connected, boundary, connects>>

(* The client goes away, or a proxy cuts the connection.                    *)
Disconnect ==
  /\ connected
  /\ connected' = FALSE
  /\ cursor' = None
  /\ boundary' = None
  /\ batch' = {}
  /\ UNCHANGED <<writers, lastId, received, connects>>

WriterNext(w) ==
  \/ \E a \in Aggregate : Begin(w, a)
  \/ LockAggregate(w)
  \/ Commit(w)
  \/ Rollback(w)

StreamNext == Connect \/ ConnectMute \/ Poll \/ Yield \/ Disconnect

Next == Tick \/ (\E w \in Writer : WriterNext(w)) \/ StreamNext

Spec == Init /\ [][Next]_vars

(* The generator polls and yields on its own while the connection lasts.    *)
FairSpec == Spec /\ WF_vars(Poll) /\ WF_vars(Yield)

----------------------------------------------------------------------------
(* Properties.                                                              *)

Received(e) == \E i \in 1..Len(received) : received[i] = e

(* Through polls, cut connections and replays the client gets every event   *)
(* at most once, and in the order of the stamps.                            *)
StampOrder ==
  \A i, j \in 1..Len(received) : i < j => Before(received[i], received[j])

(* The i-th row shares its stamp with no other and committed after every    *)
(* row stamped before it and before every row stamped after it.             *)
Punctual(i) ==
  \A j \in 1..Len(events) \ {i} :
    events[j].at # events[i].at /\ (events[j].at > events[i].at => j > i)

(* The cursor passes a row without delivering it only for the two reasons   *)
(* below; polls, limits, cut connections and replays never lose one.        *)
OnlyLateOrTiedSkipped ==
  \A i \in 1..Len(events) :
    /\ lastId # None /\ Punctual(i)
    /\ received[1].at < events[i].at /\ events[i].at <= lastId.at
    => Received(events[i])

(* A row ahead of everything fetched reaches a client that stays connected, *)
(* unless a row of the same instant was cut off from it by the limit.       *)
Ahead(i) ==
  /\ i <= Len(events)
  /\ connected /\ Position # None
  /\ events[i].at > Position
  /\ \A e \in batch : events[i].at > e.at

Tied(i) ==
  /\ i <= Len(events)
  /\ \E j \in 1..Len(events) \ {i} : events[j].at = events[i].at

AheadArrives ==
  \A i \in 1..MaxEvents :
    Ahead(i) ~> ~connected \/ Tied(i) \/ (i <= Len(events) /\ Received(events[i]))

(* _events_after: a reconnect with Last-Event-ID "replays every event since *)
(* that cursor", "insertion-order-safe": a row that commits after the row   *)
(* of the cursor is received or still ahead of the cursor.                  *)
ReplaysEveryEvent ==
  lastId # None =>
    \A i, j \in 1..Len(events) :
      events[i] = lastId /\ j > i => Received(events[j]) \/ events[j].at > lastId.at
=============================================================================
