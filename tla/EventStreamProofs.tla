------------------------- MODULE EventStreamProofs -------------------------
(***************************************************************************)
(* Proofs about EventStream, for any number of writers, any limit of rows  *)
(* per poll, and any bounds on time, rows and connections.                 *)
(***************************************************************************)
EXTENDS EventStream, TLAPS, FiniteSetTheorems, SequenceTheorems

(* Where the client and its connection stand.  A row is in the table before *)
(* it is fetched and fetched before it is received; what is fetched and not *)
(* yet yielded is behind what the client has.                               *)
Linked ==
  /\ \A i, j \in 1..Len(events) : events[i].id = events[j].id => i = j
  /\ connected => cursor = lastId
  /\ ~connected => cursor = None /\ batch = {}
  /\ lastId = None <=> received = <<>>
  /\ received # <<>> => lastId = received[Len(received)]
  /\ \A i \in 1..Len(received) : received[i] \in Rows
  /\ batch \subseteq Rows
  /\ lastId # None => \A e \in batch : Before(lastId, e)

StreamInv == TypeOK /\ Linked /\ StampOrder

LEMMA Initially == Init => StreamInv
<1> SUFFICES ASSUME Init PROVE StreamInv
  OBVIOUS
<1>1. target \in [Writer -> Aggregate]
  <2>1. PICK a \in Aggregate : target = [w \in Writer |-> a]
    BY DEF Init
  <2> QED
    BY <2>1
<1>2. TypeOK
  <2>1. clock \in Time /\ connects \in 0..MaxConnects
    BY BoundsAssumption DEF Init, Time
  <2>2. wpc \in [Writer -> {"idle", "begun", "locked"}]
    BY DEF Init
  <2>3. started \in [Writer -> Time]
    BY BoundsAssumption DEF Init, Time
  <2>4. events \in Seq(Row) /\ received \in Seq(Row) /\ batch \subseteq Row
    BY DEF Init
  <2>5. /\ connected \in BOOLEAN
        /\ boundary \in Time \cup {None}
        /\ cursor \in Row \cup {None}
        /\ lastId \in Row \cup {None}
    BY DEF Init
  <2> QED
    BY <1>1, <2>1, <2>2, <2>3, <2>4, <2>5 DEF TypeOK
<1>3. Linked /\ StampOrder
  BY DEF Init, Linked, StampOrder, Rows
<1> QED
  BY <1>2, <1>3 DEF StreamInv

(* The order of the rows is strict and, as ids are unique, total.           *)
LEMMA BeforeIsTransitive ==
  ASSUME NEW e \in Row, NEW f \in Row, NEW g \in Row, Before(e, f), Before(f, g)
  PROVE  Before(e, g)
BY BoundsAssumption DEF Row, Before

LEMMA RowsTyped ==
  ASSUME TypeOK
  PROVE  Rows \subseteq Row /\ IsFiniteSet(Rows)
<1>1. Rows \subseteq Row
  BY DEF TypeOK, Rows
<1>2. events \in Surjection(1..Len(events), Rows)
  <2>1. events \in [1..Len(events) -> Rows]
    BY DEF TypeOK, Rows
  <2> QED
    BY <2>1 DEF Surjection, Rows
<1>3. IsFiniteSet(1..Len(events))
  BY FS_Interval DEF TypeOK
<1> QED
  BY <1>1, <1>2, <1>3, FS_Surjection

(* What a poll fetches is a beginning of the rows behind the position.      *)
LEMMA FetchedFromTheFront ==
  ASSUME TypeOK
  PROVE  /\ events_after \subseteq Later
         /\ \A e \in events_after, f \in Later : Before(f, e) => f \in events_after
<1>1. events_after \subseteq Later
  BY DEF events_after, FirstOf
<1>2. ASSUME NEW e \in events_after, NEW f \in Later, Before(f, e)
      PROVE  f \in events_after
  <2> DEFINE In(x) == {g \in Later : Before(g, x)}
  <2>1. Later \subseteq Row /\ IsFiniteSet(Later)
    <3>1. Later \in SUBSET Rows
      BY DEF Later
    <3> QED
      BY <3>1, RowsTyped, FS_Subset
  <2>2. In(f) \subseteq In(e)
    BY <1>1, <1>2, <2>1, BeforeIsTransitive
  <2>3. IsFiniteSet(In(e))
    <3>1. In(e) \in SUBSET Later
      OBVIOUS
    <3> QED
      BY <3>1, <2>1, FS_Subset
  <2>4. Cardinality(In(f)) <= Cardinality(In(e))
        /\ Cardinality(In(e)) \in Nat /\ Cardinality(In(f)) \in Nat
    <3>1. In(f) \in SUBSET In(e)
      BY <2>2
    <3>2. IsFiniteSet(In(f)) /\ Cardinality(In(f)) <= Cardinality(In(e))
      BY ONLY <3>1, <2>3, FS_Subset
    <3> QED
      BY ONLY <3>2, <2>3, FS_CardinalityType
  <2>5. Cardinality(In(e)) < Limit
    BY <1>2 DEF events_after, FirstOf
  <2>6. Cardinality(In(f)) < Limit
    BY <2>4, <2>5, LimitAssumption
  <2> QED
    BY <2>6, <1>2 DEF events_after, FirstOf
<1> QED
  BY <1>1, <1>2

----------------------------------------------------------------------------
(* What a yield does, by the row it yields.                                 *)
Yields(e) ==
  /\ \A f \in batch \ {e} : Before(e, f)
  /\ batch' = batch \ {e}
  /\ cursor' = e
  /\ received' = Append(received, e)
  /\ lastId' = e

LEMMA Typed == TypeOK /\ [Next]_vars => TypeOK'
<1> SUFFICES ASSUME TypeOK, [Next]_vars PROVE TypeOK'
  OBVIOUS
<1> USE BoundsAssumption
<1>1. CASE Tick
  BY <1>1 DEF Tick, TypeOK, Time, client
<1>2. ASSUME NEW w \in Writer, NEW a \in Aggregate, Begin(w, a) PROVE TypeOK'
  BY <1>2 DEF Begin, TypeOK, client
<1>3. ASSUME NEW w \in Writer, LockAggregate(w) PROVE TypeOK'
  BY <1>3 DEF LockAggregate, TypeOK, client
<1>4. ASSUME NEW w \in Writer, Commit(w) PROVE TypeOK'
  <2>1. PICK id \in FreshIds : append_event(w, id)
    BY <1>4 DEF Commit
  <2>2. [at |-> started[w], id |-> id] \in Row
    BY <2>1 DEF FreshIds, Row, TypeOK, Time
  <2>3. events' \in Seq(Row)
    BY <2>1, <2>2 DEF append_event, TypeOK
  <2> QED
    BY <1>4, <2>3 DEF Commit, TypeOK, client, Time
<1>5. ASSUME NEW w \in Writer, Rollback(w) PROVE TypeOK'
  BY <1>5 DEF Rollback, TypeOK, client, Time
<1>6. CASE Connect
  BY <1>6 DEF Connect, TypeOK, writers
<1>7. CASE ConnectMute
  BY <1>7 DEF ConnectMute, TypeOK, writers
<1>8. CASE Poll
  <2>1. events_after \subseteq Row
    BY RowsTyped, FetchedFromTheFront DEF Later
  <2> QED
    BY <1>8, <2>1 DEF Poll, TypeOK, writers
<1>9. CASE Yield
  <2>1. PICK e \in batch : Yields(e)
    BY <1>9 DEF Yield, Yields
  <2> QED
    BY <1>9, <2>1 DEF Yield, Yields, TypeOK, writers
<1>10. CASE Disconnect
  BY <1>10 DEF Disconnect, TypeOK, writers
<1>11. CASE UNCHANGED vars
  BY <1>11 DEF vars, writers, client, TypeOK
<1> QED
  BY <1>1, <1>2, <1>3, <1>4, <1>5, <1>6, <1>7, <1>8, <1>9, <1>10, <1>11
     DEF Next, WriterNext, StreamNext

----------------------------------------------------------------------------
(* Rows are never removed.                                                  *)
LEMMA RowsGrow ==
  ASSUME TypeOK, NEW w \in Writer, NEW id \in FreshIds, append_event(w, id)
  PROVE  /\ Len(events') = Len(events) + 1
         /\ \A i \in 1..Len(events) : events'[i] = events[i]
         /\ events'[Len(events) + 1] = [at |-> started[w], id |-> id]
         /\ Rows \subseteq Rows'
<1>1. [at |-> started[w], id |-> id] \in Row
  BY DEF FreshIds, Row, TypeOK, Time
<1>2. /\ Len(events') = Len(events) + 1
      /\ \A i \in 1..Len(events) : events'[i] = events[i]
      /\ events'[Len(events) + 1] = [at |-> started[w], id |-> id]
  BY <1>1, AppendProperties DEF append_event, TypeOK
<1>3. Len(events) \in Nat
  BY DEF TypeOK
<1> QED
  BY <1>2, <1>3 DEF Rows

LEMMA Preserved == StreamInv /\ [Next]_vars => StreamInv'
<1> SUFFICES ASSUME StreamInv, [Next]_vars PROVE StreamInv'
  OBVIOUS
<1> USE DEF StreamInv
<1>0. TypeOK'
  BY Typed
<1>1. ASSUME UNCHANGED <<events, client>> PROVE StreamInv'
  BY <1>0, <1>1 DEF Linked, StampOrder, Rows, client
<1>2. ASSUME NEW w \in Writer, Commit(w) PROVE StreamInv'
  <2>1. PICK id \in FreshIds : append_event(w, id)
    BY <1>2 DEF Commit
  <2>2. Rows \subseteq Rows'
    BY <2>1, RowsGrow
  <2>3. \A i, j \in 1..Len(events') : events'[i].id = events'[j].id => i = j
    <3>0. /\ Len(events') = Len(events) + 1
          /\ \A i \in 1..Len(events) : events'[i] = events[i]
          /\ events'[Len(events) + 1] = [at |-> started[w], id |-> id]
      BY <2>1, RowsGrow
    <3>1. /\ Len(events') = Len(events) + 1 /\ Len(events) \in Nat
          /\ \A i \in 1..Len(events) : events'[i] = events[i]
          /\ events'[Len(events) + 1].id = id
      BY <3>0 DEF TypeOK
    <3>2. \A i \in 1..Len(events) : events[i].id # id
      BY <2>1 DEF FreshIds
    <3> QED
      BY <3>1, <3>2 DEF Linked
  <2>4. UNCHANGED client
    BY <1>2 DEF Commit
  <2> QED
    BY <1>0, <2>2, <2>3, <2>4 DEF Linked, StampOrder, client
<1>3. CASE Connect \/ ConnectMute
  BY <1>0, <1>3 DEF Connect, ConnectMute, Linked, StampOrder, Rows, writers
<1>4. CASE Poll
  <2>1. UNCHANGED <<events, connected, cursor, lastId, received>>
    BY <1>4 DEF Poll, writers
  <2>2. batch' \subseteq Rows
    BY <1>4, FetchedFromTheFront DEF Poll, Later
  <2>3. connected /\ cursor = lastId
    BY <1>4 DEF Poll, Linked
  <2>4. lastId # None => \A e \in batch' : Before(lastId, e)
    <3> SUFFICES ASSUME lastId # None, NEW e \in batch' PROVE Before(lastId, e)
      OBVIOUS
    <3>1. e \in Later
      BY <1>4, FetchedFromTheFront DEF Poll
    <3> QED
      BY <2>3, <3>1 DEF Later, Position, Before
  <2> QED
    BY <1>0, <2>1, <2>2, <2>3, <2>4 DEF Linked, StampOrder, Rows
<1>5. CASE Yield
  <2>1. PICK e \in batch : Yields(e)
    BY <1>5 DEF Yield, Yields
  <2>2. UNCHANGED <<events, connected>> /\ connected
    BY <1>5 DEF Yield, writers
  <2>3. e \in Row /\ e \in Rows /\ e # None
    BY NoneAssumption DEF TypeOK, Linked
  <2>4. /\ Len(received') = Len(received) + 1 /\ Len(received) \in Nat
        /\ \A i \in 1..Len(received) : received'[i] = received[i]
        /\ received'[Len(received) + 1] = e
    BY <2>1, <2>3, AppendProperties DEF Yields, TypeOK
  <2>5. \A i \in 1..Len(received) : received[i] \in Row /\ Before(received[i], e)
    <3> SUFFICES ASSUME NEW i \in 1..Len(received)
                 PROVE  received[i] \in Row /\ Before(received[i], e)
      OBVIOUS
    <3>1. received[i] \in Row
      BY DEF TypeOK
    <3>2. lastId # None /\ lastId = received[Len(received)] /\ Before(lastId, e)
      BY DEF Linked
    <3>3. CASE i = Len(received)
      BY <3>1, <3>2, <3>3
    <3>4. CASE i < Len(received)
      <4>1. Before(received[i], lastId) /\ lastId \in Row
        BY <2>4, <3>2, <3>4 DEF StampOrder, TypeOK
      <4> QED
        BY <2>3, <3>1, <3>2, <4>1, BeforeIsTransitive
    <3> QED
      BY <2>4, <3>3, <3>4
  <2>6. StampOrder'
    BY <2>4, <2>5 DEF StampOrder
  <2>7. Linked'
    BY <2>1, <2>2, <2>3, <2>4 DEF Linked, Yields, Rows
  <2> QED
    BY <1>0, <2>6, <2>7
<1>6. CASE Disconnect
  BY <1>0, <1>6 DEF Disconnect, Linked, StampOrder, Rows, writers
<1>7. ASSUME NEW w \in Writer, NEW a \in Aggregate, Begin(w, a)
      PROVE  UNCHANGED <<events, client>>
  BY <1>7 DEF Begin
<1>8. CASE Tick \/ UNCHANGED vars
  BY <1>1, <1>8 DEF Tick, vars, writers
<1>9. ASSUME NEW w \in Writer, LockAggregate(w) \/ Rollback(w)
      PROVE  UNCHANGED <<events, client>>
  BY <1>9 DEF LockAggregate, Rollback
<1> QED
  BY <1>1, <1>2, <1>3, <1>4, <1>5, <1>6, <1>7, <1>8, <1>9
     DEF Next, WriterNext, StreamNext

(* The client gets every event at most once and in the order of the stamps, *)
(* whatever is cut off, polled again or replayed.                           *)
THEOREM StampOrderHolds == Spec => []StampOrder
<1>1. StreamInv => StampOrder
  BY DEF StreamInv
<1> QED
  BY Initially, Preserved, <1>1, PTL DEF Spec

----------------------------------------------------------------------------
(* A row that lies between what the client got first and what it fetched    *)
(* last has been received or fetched too.                                   *)
AfterFirst(i) ==
  IF lastId = None THEN \E e \in batch : e.at < events[i].at
                   ELSE received[1].at < events[i].at

FetchedUpTo ==
  \A i \in 1..Len(events), q \in batch :
    Punctual(i) /\ AfterFirst(i) /\ events[i].at <= q.at
      => Received(events[i]) \/ events[i] \in batch

SkipInv == StreamInv /\ OnlyLateOrTiedSkipped /\ FetchedUpTo

LEMMA SkipInitially == Init => SkipInv
BY Initially DEF Init, SkipInv, OnlyLateOrTiedSkipped, FetchedUpTo

(* What an added row leaves of the rows it follows: a row that is punctual  *)
(* among more rows was so among fewer, and the added one is punctual only   *)
(* if it is the latest of all.                                              *)
LEMMA AddedRow ==
  ASSUME TypeOK, NEW w \in Writer, NEW id \in FreshIds, append_event(w, id)
  PROVE  /\ \A i \in 1..Len(events) :
              events'[i] = events[i] /\ (Punctual(i)' => Punctual(i))
         /\ Len(events') = Len(events) + 1
         /\ Punctual(Len(events))'
              => \A q \in Rows : q.at < events'[Len(events')].at
<1>1. /\ Len(events') = Len(events) + 1 /\ Len(events) \in Nat
      /\ \A i \in 1..Len(events) : events'[i] = events[i]
      /\ events'[Len(events) + 1] = [at |-> started[w], id |-> id]
  BY RowsGrow DEF TypeOK
<1>2. \A i \in 1..Len(events) : Punctual(i)' => Punctual(i)
  BY <1>1 DEF Punctual
<1>3. ASSUME Punctual(Len(events))', NEW q \in Rows
      PROVE  q.at < events'[Len(events')].at
  <2>1. PICK j \in 1..Len(events) : q = events[j]
    BY DEF Rows
  <2>2. /\ j \in 1..Len(events') \ {Len(events')}
        /\ events'[j] = q
        /\ ~(j > Len(events'))
    BY <1>1, <2>1
  <2>3. /\ q.at # events'[Len(events')].at
        /\ ~(q.at > events'[Len(events')].at)
    <3>1. \A k \in 1..Len(events') \ {Len(events')} :
            /\ events'[k].at # events'[Len(events')].at
            /\ events'[k].at > events'[Len(events')].at => k > Len(events')
      BY <1>3 DEF Punctual
    <3> QED
      BY <2>2, <3>1
  <2>4. q.at \in Int
    BY RowsTyped, BoundsAssumption DEF Row
  <2>5. events'[Len(events')].at \in Int
    BY <1>1, BoundsAssumption DEF TypeOK, Time
  <2> QED
    BY <2>3, <2>4, <2>5
<1> QED
  BY <1>1, <1>2, <1>3

(* A punctual row shares its stamp with no other.                           *)
LEMMA NoTie ==
  ASSUME NEW i \in 1..Len(events), Punctual(i), NEW q \in Rows,
         q.at = events[i].at
  PROVE  q = events[i]
BY DEF Rows, Punctual

LEMMA SkipPreserved == SkipInv /\ [Next]_vars => SkipInv'
<1> SUFFICES ASSUME SkipInv, [Next]_vars PROVE SkipInv'
  OBVIOUS
<1>0. StreamInv /\ TypeOK /\ Linked /\ StreamInv' /\ TypeOK'
  BY Preserved DEF SkipInv, StreamInv
<1>a. ASSUME UNCHANGED <<events, lastId, received>>, batch' = batch \/ batch' = {}
      PROVE  SkipInv'
  BY <1>0, <1>a DEF SkipInv, OnlyLateOrTiedSkipped, FetchedUpTo, AfterFirst,
                    Punctual, Received
<1>1. ASSUME UNCHANGED <<events, client>> PROVE SkipInv'
  BY <1>a, <1>1 DEF client
<1>2. ASSUME NEW w \in Writer, Commit(w) PROVE SkipInv'
  <2>1. PICK id \in FreshIds : append_event(w, id)
    BY <1>2 DEF Commit
  <2>2. /\ \A i \in 1..Len(events) :
             events'[i] = events[i] /\ (Punctual(i)' => Punctual(i))
        /\ Len(events') = Len(events) + 1 /\ Len(events) \in Nat
        /\ Punctual(Len(events))'
             => \A q \in Rows : q.at < events'[Len(events')].at
    BY <1>0, <2>1, AddedRow DEF TypeOK
  <2>2a. \A i \in 1..Len(events') : Punctual(i)' /\ i = Len(events')
           => \A q \in Rows : q.at < events'[i].at
    BY <2>2
  <2>3. UNCHANGED <<batch, lastId, received>>
    BY <1>2 DEF Commit, client
  <2>4. /\ batch \subseteq Rows
        /\ lastId # None => lastId \in Rows
    BY <1>0 DEF Linked, TypeOK
  <2>5. \A q \in Rows : q.at \in Int
    BY <1>0, RowsTyped, BoundsAssumption DEF Row
  <2>6. \A i \in 1..Len(events') : events'[i].at \in Int
    <3>1. events' \in Seq(Row)
      BY <1>0 DEF TypeOK
    <3>2. \A i \in 1..Len(events') : events'[i] \in Row
      BY <3>1
    <3> QED
      BY <3>2, BoundsAssumption DEF Row
  <2>7. ASSUME NEW i \in 1..Len(events'), Punctual(i)',
               lastId # None, received[1].at < events'[i].at, events'[i].at <= lastId.at
        PROVE  Received(events'[i])
    <3>1. i # Len(events')
      BY <2>2a, <2>4, <2>5, <2>6, <2>7
    <3> QED
      BY <2>2, <2>7, <3>1 DEF SkipInv, OnlyLateOrTiedSkipped
  <2>8. ASSUME NEW i \in 1..Len(events'), NEW q \in batch, Punctual(i)',
               AfterFirst(i)', events'[i].at <= q.at
        PROVE  Received(events'[i]) \/ events'[i] \in batch
    <3>1. i # Len(events')
      BY <2>2a, <2>4, <2>5, <2>6, <2>8
    <3>2. i \in 1..Len(events) /\ events'[i] = events[i] /\ Punctual(i)
      BY <2>2, <2>8, <3>1
    <3>3. AfterFirst(i)
      BY <2>3, <2>8, <3>2 DEF AfterFirst
    <3> QED
      BY <2>8, <3>2, <3>3 DEF SkipInv, FetchedUpTo
  <2> QED
    BY <1>0, <2>3, <2>7, <2>8 DEF SkipInv, OnlyLateOrTiedSkipped, FetchedUpTo, Received
<1>3. CASE Connect \/ ConnectMute
  BY <1>a, <1>3 DEF Connect, ConnectMute, writers
<1>6. CASE Disconnect
  BY <1>a, <1>6 DEF Disconnect, writers
<1>4. CASE Poll
  <2>1. UNCHANGED <<events, lastId, received>> /\ batch' = events_after
    BY <1>4 DEF Poll, writers
  <2>2. connected /\ cursor = lastId
    BY <1>0, <1>4 DEF Poll, Linked
  <2>3. ASSUME NEW i \in 1..Len(events), NEW q \in events_after, Punctual(i),
               AfterFirst(i)', events[i].at <= q.at
        PROVE  Received(events[i]) \/ events[i] \in events_after
    <3>1. q \in Later /\ q \in Rows /\ events[i] \in Rows
      BY <1>0, FetchedFromTheFront DEF Later, Rows
    <3>2. q.at \in Int /\ events[i].at \in Int
      BY <1>0, <3>1, RowsTyped, BoundsAssumption DEF Row
    <3>3. CASE q.at = events[i].at
      BY <2>3, <3>1, <3>3, NoTie
    <3>4. CASE events[i].at < q.at /\ events[i] \in Later
      BY <1>0, <2>3, <3>1, <3>4, FetchedFromTheFront DEF Before
    <3>5. ASSUME lastId # None, events[i] \notin Later PROVE Received(events[i])
      <4>1. ~(events[i].at > lastId.at) /\ lastId.at \in Int
        BY <1>0, <2>2, <3>1, <3>5, BoundsAssumption DEF Later, Position, TypeOK, Row
      <4>2. received[1].at < events[i].at
        BY <2>1, <2>3, <3>5 DEF AfterFirst
      <4> QED
        BY <2>3, <3>2, <3>5, <4>1, <4>2 DEF SkipInv, OnlyLateOrTiedSkipped
    <3>6. ASSUME lastId = None PROVE events[i] \in Later
      <4>1. PICK e \in events_after : e.at < events[i].at
        BY <2>1, <2>3, <3>6 DEF AfterFirst
      <4>2. e \in Later /\ e \in Rows
        BY <1>0, <4>1, FetchedFromTheFront DEF Later
      <4>3. e.at \in Int
        BY <1>0, <4>2, RowsTyped, BoundsAssumption DEF Row
      <4>4. Position \in Int
        BY <1>0, <4>2, BoundsAssumption DEF Later, Position, TypeOK, Row, Time
      <4> QED
        BY <3>1, <3>2, <4>1, <4>2, <4>3, <4>4 DEF Later
    <3> QED
      BY <2>3, <3>2, <3>3, <3>4, <3>5, <3>6
  <2> QED
    BY <1>0, <2>1, <2>3 DEF SkipInv, OnlyLateOrTiedSkipped, FetchedUpTo, Punctual,
                            Received
<1>5. CASE Yield
  <2>1. PICK e \in batch : Yields(e)
    BY <1>5 DEF Yield, Yields
  <2>2. UNCHANGED events
    BY <1>5 DEF Yield, writers
  <2>3. e \in Row /\ e \in Rows /\ e # None /\ e.at \in Int
    BY <1>0, NoneAssumption, BoundsAssumption DEF TypeOK, Linked, Row
  <2>4. /\ Len(received') = Len(received) + 1 /\ Len(received) \in Nat
        /\ \A i \in 1..Len(received) : received'[i] = received[i]
        /\ received'[Len(received) + 1] = e
    BY <1>0, <2>1, <2>3, AppendProperties DEF Yields, TypeOK
  <2>5. \A x : Received(x) \/ x = e <=> Received(x)'
    BY <2>4 DEF Received
  <2>6. ASSUME NEW i \in 1..Len(events), Punctual(i), lastId' # None,
               received'[1].at < events[i].at
        PROVE  AfterFirst(i)
    <3>1. CASE lastId = None
      <4>1. received'[1] = e
        BY <1>0, <2>4, <3>1 DEF Linked
      <4> QED
        BY <2>6, <3>1, <4>1 DEF AfterFirst
    <3>2. CASE lastId # None
      <4>1. received # <<>>
        BY <1>0, <3>2 DEF Linked
      <4>2. Len(received) # 0
        BY <1>0, <4>1, EmptySeq DEF TypeOK
      <4>3. received'[1] = received[1]
        BY <2>4, <4>2
      <4> QED
        BY <2>6, <3>2, <4>3 DEF AfterFirst
    <3> QED
      BY <3>1, <3>2
  <2>7. ASSUME NEW i \in 1..Len(events), Punctual(i), lastId' # None,
               received'[1].at < events[i].at, events[i].at <= lastId'.at
        PROVE  Received(events[i])'
    <3>1. Received(events[i]) \/ events[i] \in batch
      BY <2>1, <2>6, <2>7 DEF SkipInv, FetchedUpTo, Yields
    <3>2. ASSUME events[i] \in batch, events[i] # e PROVE FALSE
      <4>1. events[i].at \in Int /\ Before(e, events[i])
        BY <1>0, <2>1, <3>2, BoundsAssumption DEF Yields, TypeOK, Row
      <4>2. e.at = events[i].at
        BY <2>1, <2>3, <2>7, <4>1 DEF Yields, Before
      <4> QED
        BY <2>3, <2>7, <3>2, <4>2, NoTie
    <3> QED
      BY <2>2, <2>5, <3>1, <3>2
  <2>8. ASSUME NEW i \in 1..Len(events), NEW q \in batch', Punctual(i),
               AfterFirst(i)', events[i].at <= q.at
        PROVE  Received(events[i])' \/ events[i] \in batch'
    <3>1. lastId' # None /\ q \in batch
      BY <2>1, <2>3, <2>8 DEF Yields
    <3>2. AfterFirst(i)
      BY <2>2, <2>6, <2>8, <3>1 DEF AfterFirst
    <3> QED
      BY <2>1, <2>2, <2>5, <2>8, <3>1, <3>2 DEF SkipInv, FetchedUpTo, Yields
  <2> QED
    BY <1>0, <2>2, <2>7, <2>8 DEF SkipInv, OnlyLateOrTiedSkipped, FetchedUpTo,
                                 Punctual, Received
<1>7. ASSUME NEW w \in Writer, NEW a \in Aggregate, Begin(w, a)
      PROVE  UNCHANGED <<events, client>>
  BY <1>7 DEF Begin
<1>8. CASE Tick \/ UNCHANGED vars
  BY <1>1, <1>8 DEF Tick, vars, writers
<1>9. ASSUME NEW w \in Writer, LockAggregate(w) \/ Rollback(w)
      PROVE  UNCHANGED <<events, client>>
  BY <1>9 DEF LockAggregate, Rollback
<1> QED
  BY <1>1, <1>2, <1>3, <1>4, <1>5, <1>6, <1>7, <1>8, <1>9
     DEF Next, WriterNext, StreamNext

(* The cursor passes a row without delivering it only if the row committed  *)
(* late or shares its stamp with another.                                   *)
THEOREM OnlyLateOrTiedSkippedHolds == Spec => []OnlyLateOrTiedSkipped
<1>1. SkipInv => OnlyLateOrTiedSkipped
  BY DEF SkipInv
<1> QED
  BY SkipInitially, SkipPreserved, <1>1, PTL DEF Spec

(* Every variable keeps its type.                                           *)
THEOREM StreamTypeCorrect == Spec => []TypeOK
<1>1. Init => TypeOK
  BY Initially DEF StreamInv
<1> QED
  BY <1>1, Typed, PTL DEF Spec
=============================================================================
