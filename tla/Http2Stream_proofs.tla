------------------------- MODULE Http2Stream_proofs -------------------------
(***************************************************************************)
(* Slots, windows and the fate of the connection, for any number of        *)
(* streams, any limits and any number of odd frames.                       *)
(***************************************************************************)
EXTENDS Http2Stream, FiniteSetTheorems, TLAPS

\* No stream waits for window, and none is closed on either side.
Clean(c) ==
  \A id \in StreamId :
    c.streams[id].buffer = 0 /\ ~c.streams[id].remoteClosed /\ ~c.streams[id].localClosed

\* What releasing a stream gives back.
Slot(id) == IF Odd(id) THEN 1 ELSE 0

\* What does not concern the map of streams.
SameRest(c, d) ==
  /\ d.closed = c.closed /\ d.clientWindow = c.clientWindow
  /\ d.initialWindow = c.initialWindow /\ d.serverWindow = c.serverWindow /\ d.last = c.last
  /\ d.requests = c.requests /\ d.headerStream = c.headerStream /\ d.expected = c.expected
  /\ d.wrote = c.wrote

\* Everything that an answer leaves as it is.
SameAside(c, d) ==
  /\ d.closed = c.closed /\ d.initialWindow = c.initialWindow
  /\ d.serverWindow = c.serverWindow /\ d.last = c.last /\ d.requests = c.requests
  /\ d.headerStream = c.headerStream /\ d.expected = c.expected

-----------------------------------------------------------------------------
(* What the handlers do to the map of streams.                             *)

LEMMA StreamFacts ==
  /\ Gone \in StreamType /\ ~Gone.held
  /\ Gone.buffer = 0 /\ ~Gone.remoteClosed /\ ~Gone.localClosed
  /\ \A w \in Int : /\ NewStream(w) \in StreamType /\ NewStream(w).held
                    /\ NewStream(w).buffer = 0 /\ ~NewStream(w).remoteClosed
                    /\ ~NewStream(w).localClosed /\ ~NewStream(w).reserved
                    /\ NewStream(w).window = w /\ NewStream(w).serverWindow = BodyLimit
                    /\ NewStream(w).received = 0
<1>1. BodyLimit \in Nat
  BY Http2Assumption
<1> QED BY <1>1 DEF Gone, NewStream, Stream, StreamType

LEMMA ReleaseFacts ==
  ASSUME NEW c \in ConnType, NEW id \in StreamId
  PROVE  LET d == Release(c, id) IN
         /\ d \in ConnType /\ SameRest(c, d) /\ d.out = c.out
         /\ IF Holds(c, id)
            THEN /\ d.streams = [c.streams EXCEPT ![id] = Gone]
                 /\ d.remaining = c.remaining + Slot(id)
            ELSE d = c
<1>1. CASE ~Holds(c, id)
  BY <1>1 DEF Release, SameRest
<1>2. CASE Holds(c, id)
  <2>1. Release(c, id) = [c EXCEPT !.streams = [c.streams EXCEPT ![id] = Gone],
                                   !.remaining = c.remaining + Slot(id)]
    <3>1. c.remaining + Slot(id) = IF Odd(id) THEN c.remaining + 1 ELSE c.remaining
      BY DEF ConnType, Slot
    <3>2. Release(c, id) = [c EXCEPT !.streams = [c.streams EXCEPT ![id] = Gone],
                                     !.remaining = IF Odd(id) THEN c.remaining + 1 ELSE c.remaining]
      BY <1>2 DEF Release, ConnType
    <3> QED BY <3>1, <3>2, Zenon
  <2>2. [c.streams EXCEPT ![id] = Gone] \in [StreamId -> StreamType]
    BY StreamFacts DEF ConnType
  <2>3. c.remaining + Slot(id) \in Int
    BY DEF ConnType, Slot
  <2> QED BY <1>2, <2>1, <2>2, <2>3 DEF ConnType, SameRest
<1> QED BY <1>1, <1>2

LEMMA StreamsFinite ==
  ASSUME NEW S, S \subseteq StreamId
  PROVE  IsFiniteSet(S) /\ Cardinality(S) \in Nat
BY Http2Assumption, FS_Subset, FS_CardinalityType

LEMMA ShutdownFacts ==
  ASSUME NEW c \in ConnType
  PROVE  LET d == Shutdown(c) IN
         /\ d \in ConnType /\ d.closed /\ d.out = c.out /\ d.wrote = c.wrote
         /\ d.clientWindow = c.clientWindow /\ d.initialWindow = c.initialWindow
         /\ d.serverWindow = c.serverWindow
         /\ d.streams = [id \in StreamId |-> Gone]
         /\ d.remaining = c.remaining + Cardinality({id \in Held(c) : Odd(id)})
<1>1. Cardinality({id \in Held(c) : Odd(id)}) \in Nat
  BY StreamsFinite DEF Held
<1>2. [id \in StreamId |-> Gone] \in [StreamId -> StreamType]
  BY StreamFacts
<1> DEFINE n == Cardinality({id \in Held(c) : Odd(id)})
<1>3. Shutdown(c) = [c EXCEPT !.closed = TRUE, !.streams = [id \in StreamId |-> Gone],
                              !.remaining = c.remaining + n]
  BY DEF Shutdown, ConnType
<1> HIDE DEF n
<1>4. n \in Nat
  BY <1>1 DEF n
<1>5. c.remaining + n \in Int
  BY <1>4 DEF ConnType
<1>6. LET d == Shutdown(c) IN
         /\ d \in ConnType /\ d.closed /\ d.out = c.out /\ d.wrote = c.wrote
         /\ d.clientWindow = c.clientWindow /\ d.initialWindow = c.initialWindow
         /\ d.serverWindow = c.serverWindow
         /\ d.streams = [id \in StreamId |-> Gone]
         /\ d.remaining = c.remaining + n
  BY <1>2, <1>3, <1>5 DEF ConnType
<1> QED BY <1>6 DEF n

LEMMA ResetFacts ==
  ASSUME NEW c \in ConnType, NEW id \in StreamId
  PROVE  LET d == Reset(c, id) IN
         /\ d \in ConnType /\ SameRest(c, d)
         /\ d.out = [c.out EXCEPT ![id].reset = TRUE]
         /\ IF Holds(c, id)
            THEN /\ d.streams = [c.streams EXCEPT ![id] = Gone]
                 /\ d.remaining = c.remaining + Slot(id)
            ELSE d.streams = c.streams /\ d.remaining = c.remaining
<1> DEFINE e == [c EXCEPT !.out[id].reset = TRUE]
<1>1. [c.out EXCEPT ![id].reset = TRUE] \in [StreamId -> OutType]
  BY DEF ConnType, OutType
<1>2. /\ e \in ConnType /\ SameRest(c, e)
      /\ e.out = [c.out EXCEPT ![id].reset = TRUE]
      /\ e.streams = c.streams /\ e.remaining = c.remaining
  BY <1>1 DEF ConnType, SameRest
<1>3. Reset(c, id) = Release(e, id) /\ (Holds(e, id) <=> Holds(c, id))
  BY <1>2 DEF Reset, Holds
<1> HIDE DEF e
<1> QED BY <1>2, <1>3, ReleaseFacts DEF SameRest

LEMMA OpenFacts ==
  ASSUME NEW c \in ConnType, NEW id \in StreamId
  PROVE  LET d == Open(c, id) IN
         /\ d \in ConnType /\ SameRest(c, d) /\ d.out = c.out
         /\ IF Holds(c, id) THEN d = c
            ELSE /\ d.streams = [c.streams EXCEPT ![id] = NewStream(c.initialWindow)]
                 /\ d.remaining = c.remaining - 1
<1>1. CASE Holds(c, id)
  BY <1>1 DEF Open, SameRest
<1>2. CASE ~Holds(c, id)
  <2>1. [c.streams EXCEPT ![id] = NewStream(c.initialWindow)] \in [StreamId -> StreamType]
    BY StreamFacts DEF ConnType
  <2>2. Open(c, id) = [c EXCEPT !.streams = [c.streams EXCEPT ![id] = NewStream(c.initialWindow)],
                                !.remaining = c.remaining - 1]
    BY <1>2 DEF Open, ConnType
  <2>3. c.remaining - 1 \in Int
    BY DEF ConnType
  <2> QED BY <1>2, <2>1, <2>2, <2>3 DEF ConnType, SameRest
<1> QED BY <1>1, <1>2

-----------------------------------------------------------------------------
(* The books of the slots.                                                 *)

\* Slots that are free or held, and whether all that are held come back.
Taken(c) == c.remaining + Cardinality(Held(c))
AllOdd(c) == \A id \in StreamId : Holds(c, id) => Odd(id)

\* Nothing is won from c to d, and nothing lost if all streams are odd.
Accounts(c, d) == Taken(d) <= Taken(c) /\ (AllOdd(c) => AllOdd(d) /\ Taken(d) = Taken(c))

LEMMA TakenType == ASSUME NEW c \in ConnType PROVE Taken(c) \in Int
<1>1. c.remaining \in Int /\ Cardinality(Held(c)) \in Nat
  BY StreamsFinite DEF ConnType, Held
<1> QED BY <1>1 DEF Taken

LEMMA SameAccounts ==
  ASSUME NEW c \in ConnType, NEW d \in ConnType,
         d.remaining = c.remaining, \A id \in StreamId : Holds(d, id) <=> Holds(c, id)
  PROVE  Accounts(c, d)
<1>1. Held(d) = Held(c)
  BY DEF Held
<1> QED BY <1>1, TakenType DEF Accounts, Taken, AllOdd

LEMMA ThroughAccounts ==
  ASSUME NEW c \in ConnType, NEW d \in ConnType, NEW e \in ConnType,
         Accounts(c, d), Accounts(d, e)
  PROVE  Accounts(c, e)
BY TakenType DEF Accounts

LEMMA DropAccounts ==
  ASSUME NEW c \in ConnType, NEW d \in ConnType, NEW id \in StreamId, Holds(c, id),
         d.streams = [c.streams EXCEPT ![id] = Gone], d.remaining = c.remaining + Slot(id)
  PROVE  Accounts(c, d)
<1>1. \A other \in StreamId : Holds(d, other) <=> Holds(c, other) /\ other # id
  BY StreamFacts DEF Holds, ConnType
<1>2. Held(d) = Held(c) \ {id} /\ id \in Held(c)
  BY <1>1 DEF Held
<1>3. IsFiniteSet(Held(c)) /\ Cardinality(Held(c)) \in Nat
  BY StreamsFinite DEF Held
<1>4. Cardinality(Held(d)) = Cardinality(Held(c)) - 1
  BY <1>2, <1>3, FS_RemoveElement
<1>5. c.remaining \in Int
  BY DEF ConnType
<1>6. CASE Odd(id)
  BY <1>1, <1>3, <1>4, <1>5, <1>6 DEF Accounts, Taken, AllOdd, Slot
<1>7. CASE ~Odd(id)
  BY <1>1, <1>3, <1>4, <1>5, <1>7 DEF Accounts, Taken, AllOdd, Slot
<1> QED BY <1>6, <1>7

LEMMA OpenAccounts ==
  ASSUME NEW c \in ConnType, NEW d \in ConnType, NEW id \in StreamId, ~Holds(c, id),
         NEW s \in StreamType, s.held,
         d.streams = [c.streams EXCEPT ![id] = s], d.remaining = c.remaining - 1
  PROVE  Taken(d) = Taken(c) /\ (Odd(id) => Accounts(c, d))
<1>1. \A other \in StreamId : Holds(d, other) <=> Holds(c, other) \/ other = id
  BY DEF Holds, ConnType
<1>2. Held(d) = Held(c) \cup {id} /\ id \notin Held(c)
  BY <1>1 DEF Held
<1>3. IsFiniteSet(Held(c)) /\ Cardinality(Held(c)) \in Nat
  BY StreamsFinite DEF Held
<1>4. Cardinality(Held(d)) = Cardinality(Held(c)) + 1
  <2>1. Cardinality(Held(c) \cup {id}) =
          IF id \in Held(c) THEN Cardinality(Held(c)) ELSE Cardinality(Held(c)) + 1
    BY <1>3, FS_AddElement, Zenon
  <2> QED BY <1>2, <2>1
<1>5. c.remaining \in Int
  BY DEF ConnType
<1>6. Taken(d) = Taken(c)
  BY <1>3, <1>4, <1>5 DEF Taken
<1>7. Taken(d) <= Taken(c)
  BY <1>6, TakenType
<1>8. Odd(id) /\ AllOdd(c) => AllOdd(d)
  BY <1>1 DEF AllOdd
<1> QED BY <1>6, <1>7, <1>8 DEF Accounts

LEMMA ShutdownAccounts ==
  ASSUME NEW c \in ConnType
  PROVE  Accounts(c, Shutdown(c))
<1> DEFINE d == Shutdown(c)
           odd == {id \in Held(c) : Odd(id)}
<1>1. \A id \in StreamId : ~Holds(d, id)
  <2>1. d.streams = [id \in StreamId |-> Gone]
    BY ShutdownFacts
  <2> HIDE DEF d
  <2> QED BY <2>1, StreamFacts DEF Holds
<1>2. Held(d) = {} /\ Cardinality(Held(d)) = 0
  BY <1>1, FS_EmptySet DEF Held
<1>3. IsFiniteSet(Held(c)) /\ Cardinality(Held(c)) \in Nat
  BY StreamsFinite DEF Held
<1>4. odd \subseteq Held(c) /\ (AllOdd(c) => odd = Held(c))
  BY DEF AllOdd, Held
<1>5. Cardinality(odd) \in Nat /\ Cardinality(odd) <= Cardinality(Held(c))
  BY <1>3, <1>4, FS_Subset, FS_CardinalityType
<1>6. d.remaining = c.remaining + Cardinality(odd)
  BY ShutdownFacts
<1>7. c.remaining \in Int
  BY DEF ConnType
<1> HIDE DEF odd, d
<1>8. Taken(d) <= Taken(c) /\ (AllOdd(c) => Taken(d) = Taken(c))
  BY <1>2, <1>3, <1>4, <1>5, <1>6, <1>7 DEF Taken
<1>9. AllOdd(d)
  BY <1>1 DEF AllOdd
<1>10. Accounts(c, d)
  BY <1>8, <1>9 DEF Accounts
<1> QED BY <1>10 DEF d

-----------------------------------------------------------------------------
(* Answers.                                                                *)

LEMMA RoomFacts ==
  ASSUME NEW c \in ConnType, NEW id \in StreamId
  PROVE  /\ Room(c, id) \in Int /\ Portion(c, id) \in Nat
         /\ Room(c, id) <= c.clientWindow /\ Room(c, id) <= c.streams[id].window
         /\ Portion(c, id) <= c.streams[id].buffer
         /\ Portion(c, id) > 0 => Portion(c, id) <= Room(c, id)
         /\ Room(c, id) >= 0 => Portion(c, id) = Least(c.streams[id].buffer, Room(c, id))
         /\ (c.clientWindow >= 0 /\ c.streams[id].window >= 0) => Room(c, id) >= 0
<1>1. c.streams[id].buffer \in Nat /\ c.streams[id].window \in Int /\ c.clientWindow \in Int
  BY DEF ConnType, StreamType
<1> QED BY <1>1 DEF Room, Portion, Least

\* What is left of a connection when a stream has written n bytes, and ended if e.
LEMMA WriteFacts ==
  ASSUME NEW c \in ConnType, NEW id \in StreamId
  PROVE  LET d == WriteBuffered(c, id)
             n == Portion(c, id)
             e == Room(c, id) >= c.streams[id].buffer /\ c.streams[id].localClosed
         IN /\ d \in ConnType
            /\ SameAside(c, d) /\ d.remaining = c.remaining
            /\ d.clientWindow = c.clientWindow - n /\ d.wrote = c.wrote + n
            /\ d.streams = [c.streams EXCEPT ![id] =
                 [c.streams[id] EXCEPT !.window = c.streams[id].window - n,
                                       !.buffer = c.streams[id].buffer - n]]
            /\ d.out = [c.out EXCEPT ![id] =
                 [c.out[id] EXCEPT !.data = c.out[id].data + n,
                                   !.ends = IF e THEN c.out[id].ends + 1 ELSE c.out[id].ends]]
<1> DEFINE n == Portion(c, id)
           e == Room(c, id) >= c.streams[id].buffer /\ c.streams[id].localClosed
           d == WriteBuffered(c, id)
           st == [c.streams EXCEPT ![id] =
                 [c.streams[id] EXCEPT !.window = c.streams[id].window - n,
                                       !.buffer = c.streams[id].buffer - n]]
           ou == [c.out EXCEPT ![id] =
                 [c.out[id] EXCEPT !.data = c.out[id].data + n,
                                   !.ends = IF e THEN c.out[id].ends + 1 ELSE c.out[id].ends]]
<1>1. d = [c EXCEPT !.clientWindow = c.clientWindow - n, !.wrote = c.wrote + n,
                    !.streams = st, !.out = ou]
  BY DEF WriteBuffered, ConnType, StreamType, OutType
<1>s. c.streams[id] \in StreamType /\ c.out[id] \in OutType
  BY DEF ConnType
<1>2. n \in Nat /\ n <= c.streams[id].buffer /\ e \in BOOLEAN
  BY RoomFacts DEF ConnType, StreamType
<1> HIDE DEF n, e, d
<1>3. st \in [StreamId -> StreamType]
  <2>1. /\ c.streams[id].window - n \in Int /\ c.streams[id].buffer - n \in Nat
    BY <1>s, <1>2 DEF StreamType
  <2>2. [c.streams[id] EXCEPT !.window = c.streams[id].window - n,
                              !.buffer = c.streams[id].buffer - n] \in StreamType
    BY <1>s, <2>1 DEF StreamType
  <2> QED BY <2>2 DEF ConnType
<1>4. ou \in [StreamId -> OutType]
  <2>1. /\ c.out[id].data + n \in Nat /\ c.out[id].ends + 1 \in Nat
    BY <1>s, <1>2 DEF OutType
  <2>2. [c.out[id] EXCEPT !.data = c.out[id].data + n,
           !.ends = IF e THEN c.out[id].ends + 1 ELSE c.out[id].ends] \in OutType
    BY <1>s, <1>2, <2>1 DEF OutType
  <2> QED BY <2>2 DEF ConnType
<1> HIDE DEF st, ou
<1>5. c.clientWindow - n \in Int /\ c.wrote + n \in Nat
  BY <1>2 DEF ConnType
<1>6. d \in ConnType
  BY <1>1, <1>3, <1>4, <1>5 DEF ConnType
<1>7. /\ d.streams = st /\ d.out = ou /\ SameAside(c, d) /\ d.remaining = c.remaining
      /\ d.clientWindow = c.clientWindow - n /\ d.wrote = c.wrote + n
  BY <1>1 DEF ConnType, SameAside
<1> QED BY <1>6, <1>7 DEF n, e, d, st, ou

\* The header of an answer.
HeadedOut(c, id, body) == [c.out[id] EXCEPT !.heads = c.out[id].heads + 1, !.body = body]
HeadedStream(c, id, call, body) ==
  [c.streams[id] EXCEPT !.localClosed = ~call, !.buffer = body]
Headed(c, id, call, body) ==
  [c EXCEPT !.out[id] = HeadedOut(c, id, body),
            !.streams[id] = HeadedStream(c, id, call, body)]

LEMMA HeadedFacts ==
  ASSUME NEW c \in ConnType, NEW id \in StreamId, NEW call \in BOOLEAN, NEW body \in Nat
  PROVE  /\ Headed(c, id, call, body) \in ConnType
         /\ SameRest(c, Headed(c, id, call, body))
         /\ Headed(c, id, call, body).remaining = c.remaining
         /\ Headed(c, id, call, body).streams =
              [c.streams EXCEPT ![id] = HeadedStream(c, id, call, body)]
         /\ Headed(c, id, call, body).out = [c.out EXCEPT ![id] = HeadedOut(c, id, body)]
<1> DEFINE s == HeadedStream(c, id, call, body)
           o == HeadedOut(c, id, body)
<1>1. c.streams[id] \in StreamType /\ c.out[id] \in OutType
  BY DEF ConnType
<1>2. c.out[id].heads + 1 \in Nat
  BY <1>1 DEF OutType
<1>3. s \in StreamType /\ o \in OutType
  BY <1>1, <1>2 DEF StreamType, OutType, HeadedStream, HeadedOut
<1> HIDE DEF s, o
<1>4. Headed(c, id, call, body) = [c EXCEPT !.out = [c.out EXCEPT ![id] = o],
                                            !.streams = [c.streams EXCEPT ![id] = s]]
  BY DEF Headed, ConnType, s, o
<1>5. [c.out EXCEPT ![id] = o] \in [StreamId -> OutType]
  BY <1>3 DEF ConnType
<1>6. [c.streams EXCEPT ![id] = s] \in [StreamId -> StreamType]
  BY <1>3 DEF ConnType
<1> DEFINE d == Headed(c, id, call, body)
<1>7. /\ d \in ConnType /\ SameRest(c, d) /\ d.remaining = c.remaining
      /\ d.streams = [c.streams EXCEPT ![id] = s]
      /\ d.out = [c.out EXCEPT ![id] = o]
  BY <1>4, <1>5, <1>6 DEF ConnType, SameRest
<1> QED BY <1>7 DEF s, o

\* The answer to a request: d comes of c, whose stream has nothing to send yet.
Answers(c, d, id, body) ==
  LET n == d.wrote - c.wrote
      o == d.out[id]
  IN /\ d \in ConnType /\ SameAside(c, d) /\ d.remaining = c.remaining
     /\ n \in Nat /\ (n > 0 => n <= Room(c, id))
     /\ d.clientWindow = c.clientWindow - n
     /\ \A other \in StreamId \ {id} :
          d.streams[other] = c.streams[other] /\ d.out[other] = c.out[other]
     /\ d.streams[id].held = c.streams[id].held
     /\ d.streams[id].remoteClosed = c.streams[id].remoteClosed
     /\ o.heads = c.out[id].heads + 1 /\ o.body = body /\ o.reset = c.out[id].reset
     /\ o.data = c.out[id].data + n

LEMMA WrittenFacts ==
  ASSUME NEW c \in ConnType, NEW id \in StreamId, NEW call \in BOOLEAN, NEW body \in Nat
  PROVE  LET d == WriteBuffered(Headed(c, id, call, body), id)
             n == d.wrote - c.wrote
         IN /\ Answers(c, d, id, body)
            /\ Room(c, id) >= 0 => n = Least(body, Room(c, id))
            /\ d.out[id].ends = IF Room(c, id) >= body /\ ~call
                                THEN c.out[id].ends + 1 ELSE c.out[id].ends
<1> DEFINE h == Headed(c, id, call, body)
           d == WriteBuffered(h, id)
           m == Portion(h, id)
<1>1. /\ h \in ConnType /\ SameRest(c, h) /\ h.remaining = c.remaining
      /\ h.streams = [c.streams EXCEPT ![id] = HeadedStream(c, id, call, body)]
      /\ h.out = [c.out EXCEPT ![id] = HeadedOut(c, id, body)]
  BY HeadedFacts
<1>2. c.streams[id] \in StreamType /\ c.out[id] \in OutType
  BY DEF ConnType
<1>0. /\ h.streams[id] = [c.streams[id] EXCEPT !.localClosed = ~call, !.buffer = body]
      /\ h.out[id] = [c.out[id] EXCEPT !.heads = c.out[id].heads + 1, !.body = body]
      /\ \A other \in StreamId \ {id} :
           h.streams[other] = c.streams[other] /\ h.out[other] = c.out[other]
  <2> HIDE DEF h
  <2> QED BY <1>1 DEF ConnType, HeadedStream, HeadedOut
<1>3. /\ h.streams[id].window = c.streams[id].window /\ h.streams[id].buffer = body
      /\ (h.streams[id].localClosed <=> ~call) /\ h.streams[id].held = c.streams[id].held
      /\ h.streams[id].remoteClosed = c.streams[id].remoteClosed
  <2> HIDE DEF h
  <2> QED BY <1>0, <1>2 DEF StreamType
<1>4. h.out[id].heads = c.out[id].heads + 1 /\ h.out[id].body = body
      /\ h.out[id].reset = c.out[id].reset /\ h.out[id].data = c.out[id].data
      /\ h.out[id].ends = c.out[id].ends /\ h.out[id] \in OutType
  BY <1>0, <1>1, <1>2 DEF OutType, ConnType
<1>5. Room(h, id) = Room(c, id)
  BY <1>1, <1>3 DEF Room, SameRest
<1> HIDE DEF h
<1>6. /\ m \in Nat /\ (m > 0 => m <= Room(c, id))
      /\ Room(c, id) >= 0 => m = Least(body, Room(c, id))
  <2>1. /\ m \in Nat /\ (m > 0 => m <= Room(h, id))
        /\ Room(h, id) >= 0 => m = Least(h.streams[id].buffer, Room(h, id))
    BY <1>1, RoomFacts
  <2> HIDE DEF m
  <2> QED BY <1>3, <1>5, <2>1
<1> DEFINE e == Room(h, id) >= h.streams[id].buffer /\ h.streams[id].localClosed
<1>7. /\ d \in ConnType
      /\ SameAside(h, d) /\ d.remaining = h.remaining
      /\ d.clientWindow = h.clientWindow - m /\ d.wrote = h.wrote + m
      /\ d.streams = [h.streams EXCEPT ![id] =
           [h.streams[id] EXCEPT !.window = h.streams[id].window - m,
                                 !.buffer = h.streams[id].buffer - m]]
      /\ d.out = [h.out EXCEPT ![id] =
           [h.out[id] EXCEPT !.data = h.out[id].data + m,
                             !.ends = IF e THEN h.out[id].ends + 1 ELSE h.out[id].ends]]
  BY <1>1, WriteFacts
<1>8. e <=> Room(c, id) >= body /\ ~call
  BY <1>3, <1>5
<1> HIDE DEF d, m, e
<1>9. /\ d.wrote = c.wrote + m /\ d.clientWindow = c.clientWindow - m
      /\ SameAside(c, d) /\ d.remaining = c.remaining
  BY <1>1, <1>7 DEF SameRest, SameAside
<1>10. d.wrote - c.wrote = m
  BY <1>6, <1>9 DEF ConnType
<1>11. /\ \A other \in StreamId \ {id} :
            d.streams[other] = c.streams[other] /\ d.out[other] = c.out[other]
       /\ d.streams[id].held = c.streams[id].held
       /\ d.streams[id].remoteClosed = c.streams[id].remoteClosed
  <2>1. d.streams[id] = [h.streams[id] EXCEPT !.window = h.streams[id].window - m,
                                             !.buffer = h.streams[id].buffer - m]
    BY <1>1, <1>7 DEF ConnType
  <2>2. h.streams[id] \in StreamType
    BY <1>1 DEF ConnType
  <2>3. d.streams[id].held = h.streams[id].held
        /\ d.streams[id].remoteClosed = h.streams[id].remoteClosed
    BY <2>1, <2>2 DEF StreamType
  <2>4. \A other \in StreamId \ {id} :
            d.streams[other] = h.streams[other] /\ d.out[other] = h.out[other]
    BY <1>1, <1>7 DEF ConnType
  <2> QED BY <1>0, <1>3, <2>3, <2>4
<1>12. d.out[id] = [h.out[id] EXCEPT !.data = h.out[id].data + m,
                             !.ends = IF e THEN h.out[id].ends + 1 ELSE h.out[id].ends]
  BY <1>1, <1>7 DEF ConnType
<1>13. /\ d.out[id].heads = c.out[id].heads + 1 /\ d.out[id].body = body
       /\ d.out[id].reset = c.out[id].reset /\ d.out[id].data = c.out[id].data + m
       /\ d.out[id].ends = IF e THEN c.out[id].ends + 1 ELSE c.out[id].ends
  BY <1>4, <1>12 DEF OutType
<1>14. Answers(c, d, id, body)
  BY <1>6, <1>7, <1>9, <1>10, <1>11, <1>13 DEF Answers
<1> QED BY <1>6, <1>8, <1>10, <1>13, <1>14 DEF d, h

\* One header block, one end, and as much of the body as there is room for.
\* Only the answer to a method that is not allowed has no end.
LEMMA RespondFacts ==
  ASSUME NEW c \in ConnType, NEW id \in StreamId, NEW len \in Nat, Room(c, id) >= 0
  PROVE  LET d == Respond(c, id, len)
             n == d.wrote - c.wrote
             body == IF c.requests[id] = "call" THEN len ELSE 0
         IN /\ Answers(c, d, id, body)
            /\ IF c.requests[id] = "refused"
               THEN n = 0 /\ d.out[id].ends = c.out[id].ends
               ELSE n = Least(body, Room(c, id)) /\ d.out[id].ends >= c.out[id].ends + 1
            /\ c.requests[id] \in {"call", "head"} => d.out[id].ends = c.out[id].ends + 1
<1> DEFINE call == c.requests[id] = "call"
           body == IF call THEN len ELSE 0
           h == Headed(c, id, call, body)
           w == WriteBuffered(h, id)
           f == [w EXCEPT !.out[id].ends = @ + 1, !.streams[id].localClosed = TRUE]
           d == Respond(c, id, len)
<1>1. body \in Nat /\ call \in BOOLEAN
  OBVIOUS
<1>2. d = CASE c.requests[id] = "refused" -> h [] c.requests[id] = "head" -> w [] OTHER -> f
  BY DEF Respond, Headed, HeadedOut, HeadedStream
<1>3. CASE c.requests[id] = "refused"
  <2>1. /\ h \in ConnType /\ SameRest(c, h) /\ h.remaining = c.remaining
        /\ h.streams = [c.streams EXCEPT ![id] = HeadedStream(c, id, call, body)]
        /\ h.out = [c.out EXCEPT ![id] = HeadedOut(c, id, body)]
    <3> HIDE DEF call, body
    <3> QED BY <1>1, HeadedFacts
  <2>2. d = h
    BY <1>2, <1>3
  <2> HIDE DEF h, d, body, call
  <2>3. c.streams[id] \in StreamType /\ c.out[id] \in OutType /\ c.wrote \in Nat
    BY DEF ConnType
  <2>4. d.wrote - c.wrote = 0 /\ d.clientWindow = c.clientWindow - 0
    BY <2>1, <2>2, <2>3 DEF ConnType, SameRest
  <2>5. /\ h.out[id] = HeadedOut(c, id, body) /\ h.streams[id] = HeadedStream(c, id, call, body)
        /\ \A other \in StreamId \ {id} :
             h.out[other] = c.out[other] /\ h.streams[other] = c.streams[other]
    BY <2>1 DEF ConnType
  <2>6. /\ h.out[id].heads = c.out[id].heads + 1 /\ h.out[id].body = body
        /\ h.out[id].reset = c.out[id].reset /\ h.out[id].data = c.out[id].data
        /\ h.out[id].ends = c.out[id].ends
    BY <2>3, <2>5 DEF OutType, HeadedOut
  <2>7. /\ h.streams[id].held = c.streams[id].held
        /\ h.streams[id].remoteClosed = c.streams[id].remoteClosed
    BY <2>3, <2>5 DEF StreamType, HeadedStream
  <2>8. c.out[id].data = c.out[id].data + 0
    BY <2>3 DEF OutType
  <2>9. Answers(c, d, id, body) /\ d.out[id].ends = c.out[id].ends
    <3> DEFINE n == h.wrote - c.wrote
    <3>1. n = 0 /\ h.clientWindow = c.clientWindow - n /\ h.out[id].data = c.out[id].data + n
      BY <2>2, <2>4, <2>6, <2>8
    <3>2. n \in Nat /\ ~(n > 0)
      BY <3>1
    <3>3. SameAside(c, h)
      BY <2>1 DEF SameRest, SameAside
    <3> HIDE DEF n
    <3>4. Answers(c, h, id, body)
      BY <2>1, <2>5, <2>6, <2>7, <3>1, <3>2, <3>3 DEF Answers, n
    <3> QED BY <2>2, <2>6, <3>4
  <2> QED BY <1>3, <2>4, <2>9 DEF d, body, call
<1> HIDE DEF h
<1>4. ASSUME c.requests[id] # "refused"
      PROVE  /\ Answers(c, w, id, body) /\ w.wrote - c.wrote = Least(body, Room(c, id))
             /\ w.out[id].ends = IF Room(c, id) >= body /\ ~call
                                 THEN c.out[id].ends + 1 ELSE c.out[id].ends
  BY <1>1, WrittenFacts DEF h
<1>5. c.out[id].ends \in Nat
  BY DEF ConnType, OutType
<1> HIDE DEF w
<1>6. CASE c.requests[id] = "head"
  <2>1. d = w /\ ~call /\ body = 0
    BY <1>2, <1>6
  <2> HIDE DEF d, body
  <2>2. d.out[id].ends = c.out[id].ends + 1
    BY <1>4, <1>6, <2>1
  <2> QED BY <1>4, <1>5, <1>6, <2>1, <2>2 DEF d, body
<1>7. CASE c.requests[id] \notin {"refused", "head"}
  <2>1. d = f
    BY <1>2, <1>7
  <2>2. w \in ConnType
    BY <1>4, <1>7 DEF Answers
  <2>3. w.streams[id] \in StreamType /\ w.out[id] \in OutType
    BY <2>2 DEF ConnType
  <2> DEFINE o == [w.out[id] EXCEPT !.ends = w.out[id].ends + 1]
             s == [w.streams[id] EXCEPT !.localClosed = TRUE]
  <2>4. f = [w EXCEPT !.out = [w.out EXCEPT ![id] = o],
                      !.streams = [w.streams EXCEPT ![id] = s]]
    BY <2>2 DEF ConnType
  <2>5. o \in OutType /\ s \in StreamType
    <3>1. w.out[id].ends + 1 \in Nat
      BY <2>3 DEF OutType
    <3> QED BY <2>3, <3>1 DEF OutType, StreamType
  <2>6. /\ o.heads = w.out[id].heads /\ o.data = w.out[id].data /\ o.reset = w.out[id].reset
        /\ o.body = w.out[id].body /\ o.ends = w.out[id].ends + 1
        /\ s.held = w.streams[id].held /\ s.remoteClosed = w.streams[id].remoteClosed
    BY <2>3 DEF OutType, StreamType
  <2> HIDE DEF o, s, f
  <2>7. [w.out EXCEPT ![id] = o] \in [StreamId -> OutType]
    BY <2>2, <2>5 DEF ConnType
  <2>8. [w.streams EXCEPT ![id] = s] \in [StreamId -> StreamType]
    BY <2>2, <2>5 DEF ConnType
  <2>9. /\ f \in ConnType /\ f.wrote = w.wrote /\ f.clientWindow = w.clientWindow
        /\ SameAside(w, f) /\ f.remaining = w.remaining
        /\ f.out = [w.out EXCEPT ![id] = o] /\ f.streams = [w.streams EXCEPT ![id] = s]
    BY <2>2, <2>4, <2>7, <2>8 DEF ConnType, SameAside
  <2>10. /\ f.out[id] = o /\ f.streams[id] = s
         /\ \A other \in StreamId \ {id} :
              f.out[other] = w.out[other] /\ f.streams[other] = w.streams[other]
    BY <2>2, <2>9 DEF ConnType
  <2>11. Answers(c, f, id, body)
    BY <1>4, <1>7, <2>6, <2>9, <2>10 DEF Answers, SameAside
  <2>12. /\ f.out[id].ends >= c.out[id].ends + 1
         /\ call => f.out[id].ends = c.out[id].ends + 1
    BY <1>4, <1>5, <1>7, <2>6, <2>10
  <2> QED BY <1>4, <1>7, <2>1, <2>9, <2>11, <2>12
<1> QED BY <1>3, <1>6, <1>7

\* What the end of a request may do to the connection, whatever the request is.
Settles(c, d, id) ==
  LET n == d.wrote - c.wrote IN
  /\ d \in ConnType /\ Clean(d) /\ Accounts(c, d)
  /\ d.initialWindow = c.initialWindow /\ d.serverWindow = c.serverWindow
  /\ n \in Nat /\ d.clientWindow = c.clientWindow - n
  /\ n > 0 => Holds(c, id) /\ n <= Room(c, id)
  /\ \A other \in StreamId :
       Holds(d, other) => d.streams[other] = c.streams[other] /\ Holds(c, other)
  /\ ~Holds(d, id)
  /\ \A other \in StreamId \ {id} : d.out[other] = c.out[other]
  /\ d.out[id].data = c.out[id].data + n
  /\ d.out[id].ends > c.out[id].ends => Holds(c, id) /\ n = Least(d.out[id].body, Room(c, id))

\* What it does if the request is complete and not refused.
Completes(c, d, id, fits) ==
  /\ SameAside(c, d)
  /\ d.streams = [c.streams EXCEPT ![id] = Gone] /\ d.remaining = c.remaining + Slot(id)
  /\ IF fits THEN /\ d.out[id].heads = c.out[id].heads + 1
                  /\ d.out[id].ends = c.out[id].ends + 1
     ELSE d.out = [c.out EXCEPT ![id].reset = TRUE]

LEMMA GoneIsClean ==
  ASSUME NEW c \in ConnType, NEW d \in ConnType, NEW id \in StreamId, Clean(c),
         d.streams = [c.streams EXCEPT ![id] = Gone]
  PROVE  /\ Clean(d) /\ ~Holds(d, id)
         /\ \A other \in StreamId :
              Holds(d, other) => d.streams[other] = c.streams[other] /\ Holds(c, other)
<1>1. \A other \in StreamId :
        d.streams[other] = IF other = id THEN Gone ELSE c.streams[other]
  BY DEF ConnType
<1> QED BY <1>1, StreamFacts DEF Clean, Holds

LEMMA EndedFacts ==
  ASSUME NEW c \in ConnType, NEW id \in StreamId
  PROVE  LET e == [c EXCEPT !.streams[id].remoteClosed = TRUE] IN
         /\ e \in ConnType /\ SameRest(c, e) /\ e.remaining = c.remaining /\ e.out = c.out
         /\ e.streams[id].remoteClosed /\ e.streams[id].held = c.streams[id].held
         /\ \A other \in StreamId : Holds(e, other) <=> Holds(c, other)
         /\ Room(e, id) = Room(c, id)
         /\ [e.streams EXCEPT ![id] = Gone] = [c.streams EXCEPT ![id] = Gone]
         /\ \A other \in StreamId \ {id} : e.streams[other] = c.streams[other]
<1> DEFINE s == [c.streams[id] EXCEPT !.remoteClosed = TRUE]
           e == [c EXCEPT !.streams[id].remoteClosed = TRUE]
<1>1. e = [c EXCEPT !.streams = [c.streams EXCEPT ![id] = s]]
  BY DEF ConnType
<1>2. /\ s \in StreamType /\ s.remoteClosed /\ s.held = c.streams[id].held
      /\ s.window = c.streams[id].window
  <2>1. c.streams[id] \in StreamType
    BY DEF ConnType
  <2> QED BY <2>1 DEF StreamType
<1> HIDE DEF e, s
<1>3. [c.streams EXCEPT ![id] = s] \in [StreamId -> StreamType]
  BY <1>2 DEF ConnType
<1>4. /\ e \in ConnType /\ SameRest(c, e) /\ e.remaining = c.remaining /\ e.out = c.out
      /\ e.streams = [c.streams EXCEPT ![id] = s]
  BY <1>1, <1>3 DEF ConnType, SameRest
<1>5. /\ e.streams[id] = s /\ \A other \in StreamId \ {id} : e.streams[other] = c.streams[other]
  BY <1>4 DEF ConnType
<1>6. \A other \in StreamId : Holds(e, other) <=> Holds(c, other)
  BY <1>2, <1>5 DEF Holds
<1>7. Room(e, id) = Room(c, id)
  BY <1>2, <1>4, <1>5 DEF Room, SameRest
<1>8. [e.streams EXCEPT ![id] = Gone] = [c.streams EXCEPT ![id] = Gone]
  BY <1>4, <1>5 DEF ConnType
<1> QED BY <1>2, <1>4, <1>5, <1>6, <1>7, <1>8 DEF e

LEMMA EndStreamFacts ==
  ASSUME NEW c \in ConnType, NEW id \in StreamId, NEW fits \in BOOLEAN, NEW len \in Nat,
         Clean(c), Holds(c, id) => Room(c, id) >= 0
  PROVE  LET d == EndStream(c, id, fits, len) IN
         /\ Settles(c, d, id)
         /\ (Holds(c, id) /\ c.requests[id] \in {"call", "head"}) => Completes(c, d, id, fits)
<1> DEFINE e == [c EXCEPT !.streams[id].remoteClosed = TRUE]
           a == Respond(e, id, len)
           d == EndStream(c, id, fits, len)
<1>0. /\ c.wrote \in Nat /\ c.clientWindow \in Int
      /\ \A other \in StreamId : c.out[other] \in OutType
      /\ c.out[id].data \in Nat /\ c.out[id].ends \in Nat
  BY DEF ConnType, OutType
<1>1. /\ e \in ConnType /\ SameRest(c, e) /\ e.remaining = c.remaining /\ e.out = c.out
      /\ e.streams[id].remoteClosed /\ e.streams[id].held = c.streams[id].held
      /\ \A other \in StreamId : Holds(e, other) <=> Holds(c, other)
      /\ Room(e, id) = Room(c, id)
      /\ [e.streams EXCEPT ![id] = Gone] = [c.streams EXCEPT ![id] = Gone]
      /\ \A other \in StreamId \ {id} : e.streams[other] = c.streams[other]
  BY EndedFacts
<1>2. CASE ~Holds(c, id)
  <2>1. d = c
    BY <1>2 DEF EndStream
  <2>2. c.wrote - c.wrote = 0 /\ c.clientWindow = c.clientWindow - 0
        /\ c.out[id].data = c.out[id].data + 0 /\ ~(c.out[id].ends > c.out[id].ends)
    BY <1>0
  <2>3. Settles(c, c, id)
    BY <1>2, <2>2, SameAccounts DEF Settles
  <2> QED BY <1>2, <2>1, <2>3
<1>3. CASE Holds(c, id) /\ ~fits
  <2>1. d = Reset(e, id)
    BY <1>3 DEF EndStream
  <2> HIDE DEF d, e
  <2>2. /\ d \in ConnType /\ SameRest(e, d) /\ d.out = [c.out EXCEPT ![id].reset = TRUE]
        /\ d.streams = [c.streams EXCEPT ![id] = Gone] /\ d.remaining = c.remaining + Slot(id)
    BY <1>1, <1>3, <2>1, ResetFacts
  <2>3. SameRest(c, d) /\ SameAside(c, d)
    BY <1>1, <2>2 DEF SameRest, SameAside
  <2>4. /\ \A other \in StreamId \ {id} : d.out[other] = c.out[other]
        /\ d.out[id].data = c.out[id].data /\ d.out[id].ends = c.out[id].ends
    BY <1>0, <2>2 DEF ConnType, OutType
  <2>5. d.wrote - c.wrote = 0 /\ d.clientWindow = c.clientWindow - 0
        /\ c.out[id].data = c.out[id].data + 0
    BY <1>0, <2>3 DEF SameRest
  <2>6. Accounts(c, d)
    BY <1>3, <2>2, DropAccounts
  <2>7. Settles(c, d, id)
    BY <1>0, <2>2, <2>3, <2>4, <2>5, <2>6, GoneIsClean DEF Settles, SameRest
  <2>8. Completes(c, d, id, fits)
    BY <1>3, <2>2, <2>3 DEF Completes
  <2> QED BY <2>7, <2>8 DEF d
<1>4. CASE Holds(c, id) /\ fits /\ c.requests[id] \in {"none", "garbled"}
  <2>1. d = Shutdown(e)
    BY <1>4 DEF EndStream
  <2>2. /\ d \in ConnType /\ d.out = c.out /\ d.wrote = c.wrote
        /\ d.clientWindow = c.clientWindow /\ d.initialWindow = c.initialWindow
        /\ d.serverWindow = c.serverWindow /\ d.streams = [other \in StreamId |-> Gone]
        /\ Accounts(e, d)
    <3> HIDE DEF d, e
    <3> QED BY <1>1, <2>1, ShutdownFacts, ShutdownAccounts DEF SameRest
  <2>3. Accounts(c, e)
    <3> HIDE DEF d, e
    <3> QED BY <1>1, SameAccounts
  <2> HIDE DEF d, e
  <2>4. Accounts(c, d)
    BY <1>1, <2>2, <2>3, ThroughAccounts
  <2>5. Clean(d) /\ \A other \in StreamId : ~Holds(d, other)
    BY <2>2, StreamFacts DEF Clean, Holds
  <2>6. d.wrote - c.wrote = 0 /\ d.clientWindow = c.clientWindow - 0
        /\ d.out[id].data = c.out[id].data + 0 /\ ~(d.out[id].ends > c.out[id].ends)
    BY <1>0, <2>2
  <2>7. Settles(c, d, id)
    BY <2>2, <2>4, <2>5, <2>6 DEF Settles
  <2> QED BY <1>4, <2>7 DEF d
<1>5. CASE Holds(c, id) /\ fits /\ c.requests[id] \notin {"none", "garbled"}
  <2>1. d = Sent(a, id)
    BY <1>5, <1>1 DEF EndStream, SameRest
  <2>2. e.requests = c.requests
    BY <1>1 DEF SameRest
  <2> HIDE DEF e
  <2> DEFINE n == a.wrote - e.wrote
             body == IF e.requests[id] = "call" THEN len ELSE 0
  <2>3. /\ Answers(e, a, id, body)
        /\ IF e.requests[id] = "refused"
           THEN n = 0 /\ a.out[id].ends = e.out[id].ends
           ELSE n = Least(body, Room(e, id)) /\ a.out[id].ends >= e.out[id].ends + 1
        /\ e.requests[id] \in {"call", "head"} => a.out[id].ends = e.out[id].ends + 1
    BY <1>1, <1>5, RespondFacts
  <2> HIDE DEF a, body, d
  <2>4. a \in ConnType /\ Holds(a, id) /\ a.streams[id].remoteClosed
    BY <1>1, <1>5, <2>3 DEF Answers, Holds
  <2>5. d = Release(a, id)
    BY <2>1, <2>4 DEF Sent
  <2>6. /\ d \in ConnType /\ SameRest(a, d) /\ d.out = a.out
        /\ d.streams = [a.streams EXCEPT ![id] = Gone] /\ d.remaining = a.remaining + Slot(id)
    BY <2>4, <2>5, ReleaseFacts
  <2>7. \A other \in StreamId \ {id} : a.streams[other] = c.streams[other]
    BY <1>1, <2>3 DEF Answers
  <2>8. d.streams = [c.streams EXCEPT ![id] = Gone] /\ d.remaining = c.remaining + Slot(id)
    BY <1>1, <2>3, <2>4, <2>6, <2>7 DEF ConnType, Answers
  <2>9. SameAside(c, d)
    BY <1>1, <2>3, <2>6 DEF SameRest, SameAside, Answers
  <2>10. /\ d.wrote = a.wrote /\ d.clientWindow = a.clientWindow
         /\ e.wrote = c.wrote /\ e.clientWindow = c.clientWindow
    BY <1>1, <2>6 DEF SameRest
  <2>11. Accounts(c, d)
    BY <1>5, <2>6, <2>8, DropAccounts
  <2>12. d.out[id].ends > c.out[id].ends =>
           d.wrote - c.wrote = Least(d.out[id].body, Room(c, id))
    BY <1>0, <1>1, <2>3, <2>6, <2>10 DEF Answers
  <2>13. /\ d.wrote - c.wrote \in Nat /\ d.clientWindow = c.clientWindow - (d.wrote - c.wrote)
         /\ d.wrote - c.wrote > 0 => d.wrote - c.wrote <= Room(c, id)
         /\ \A other \in StreamId \ {id} : d.out[other] = c.out[other]
         /\ d.out[id].data = c.out[id].data + (d.wrote - c.wrote)
         /\ d.out[id].heads = c.out[id].heads + 1
    BY <1>1, <2>3, <2>6, <2>10 DEF Answers
  <2>14. d.initialWindow = c.initialWindow /\ d.serverWindow = c.serverWindow
    BY <2>9 DEF SameAside
  <2>15. /\ Clean(d) /\ ~Holds(d, id)
         /\ \A other \in StreamId :
              Holds(d, other) => d.streams[other] = c.streams[other] /\ Holds(c, other)
    BY <2>6, <2>8, GoneIsClean
  <2>16. Settles(c, d, id)
    BY <1>5, <2>6, <2>11, <2>12, <2>13, <2>14, <2>15 DEF Settles
  <2>17. c.requests[id] \in {"call", "head"} => Completes(c, d, id, fits)
    BY <1>1, <1>5, <2>2, <2>3, <2>6, <2>8, <2>9, <2>13 DEF Completes
  <2> QED BY <2>16, <2>17 DEF d
<1> QED BY <1>2, <1>3, <1>4, <1>5

-----------------------------------------------------------------------------
(* What comes before an answer.                                            *)

\* What the limit leaves of the body of a stream can be received.
Fed(c) ==
  \A id \in StreamId : Holds(c, id) =>
    LET s == c.streams[id] IN
    /\ s.received <= BodyLimit /\ s.serverWindow > 0
    /\ s.received + s.serverWindow \in {BodyLimit, BodyLimit + 1}

SameOut(c, d, id) ==
  /\ d.out[id].data = c.out[id].data /\ d.out[id].ends = c.out[id].ends
  /\ d.out[id].heads = c.out[id].heads /\ d.out[id].body = c.out[id].body

\* A frame of stream id has been handled, and nothing was answered.
Calm(c, d, id) ==
  /\ d \in ConnType /\ Clean(d) /\ Fed(d) /\ Accounts(c, d)
  /\ d.clientWindow = c.clientWindow /\ d.initialWindow = c.initialWindow /\ d.wrote = c.wrote
  /\ \A other \in StreamId : Holds(d, other) =>
       IF Holds(c, other) THEN d.streams[other].window = c.streams[other].window
       ELSE other = id /\ d.streams[other].window = c.initialWindow
  /\ \A other \in StreamId : SameOut(c, d, other)

LEMMA GoneIsFed ==
  ASSUME NEW c \in ConnType, NEW d \in ConnType, Fed(c),
         \A other \in StreamId :
              Holds(d, other) => d.streams[other] = c.streams[other] /\ Holds(c, other)
  PROVE  Fed(d)
BY DEF Fed

LEMMA ResetIsCalm ==
  ASSUME NEW c \in ConnType, NEW id \in StreamId, Clean(c), Fed(c)
  PROVE  Calm(c, Reset(c, id), id)
<1> DEFINE d == Reset(c, id)
<1>1. /\ d \in ConnType /\ SameRest(c, d) /\ d.out = [c.out EXCEPT ![id].reset = TRUE]
      /\ IF Holds(c, id)
         THEN /\ d.streams = [c.streams EXCEPT ![id] = Gone]
              /\ d.remaining = c.remaining + Slot(id)
         ELSE d.streams = c.streams /\ d.remaining = c.remaining
  BY ResetFacts
<1> HIDE DEF d
<1>2. \A other \in StreamId : SameOut(c, d, other)
  BY <1>1 DEF ConnType, OutType, SameOut
<1>3. CASE Holds(c, id)
  <2>1. /\ Clean(d) /\ ~Holds(d, id)
        /\ \A other \in StreamId :
              Holds(d, other) => d.streams[other] = c.streams[other] /\ Holds(c, other)
    BY <1>1, <1>3, GoneIsClean
  <2>2. Accounts(c, d) /\ Fed(d)
    BY <1>1, <1>3, <2>1, DropAccounts, GoneIsFed
  <2>3. Calm(c, d, id)
    BY <1>1, <1>2, <2>1, <2>2 DEF Calm, SameRest
  <2> QED BY <2>3 DEF d
<1>4. CASE ~Holds(c, id)
  <2>1. Clean(d) /\ Fed(d) /\ \A other \in StreamId : Holds(d, other) <=> Holds(c, other)
    BY <1>1, <1>4 DEF Clean, Fed, Holds
  <2>2. Accounts(c, d)
    BY <1>1, <1>4, <2>1, SameAccounts
  <2>3. Calm(c, d, id)
    BY <1>1, <1>2, <1>4, <2>1, <2>2 DEF Calm, SameRest
  <2> QED BY <2>3 DEF d
<1> QED BY <1>3, <1>4

LEMMA ShutdownIsCalm ==
  ASSUME NEW c \in ConnType, NEW id \in StreamId
  PROVE  Calm(c, Shutdown(c), id)
<1> DEFINE d == Shutdown(c)
<1>1. /\ d \in ConnType /\ d.out = c.out /\ d.wrote = c.wrote
      /\ d.clientWindow = c.clientWindow /\ d.initialWindow = c.initialWindow
      /\ d.streams = [other \in StreamId |-> Gone] /\ Accounts(c, d)
  BY ShutdownFacts, ShutdownAccounts
<1> HIDE DEF d
<1>2. Clean(d) /\ \A other \in StreamId : ~Holds(d, other)
  BY <1>1, StreamFacts DEF Clean, Holds
<1>3. Fed(d) /\ \A other \in StreamId : SameOut(c, d, other)
  BY <1>1, <1>2 DEF Fed, SameOut
<1>4. Calm(c, d, id)
  BY <1>1, <1>2, <1>3 DEF Calm
<1> QED BY <1>4 DEF d

LEMMA NewIsFed ==
  ASSUME NEW w \in Int
  PROVE  LET s == NewStream(w) IN
         /\ s.received <= BodyLimit /\ s.serverWindow > 0
         /\ s.received + s.serverWindow \in {BodyLimit, BodyLimit + 1}
<1>1. BodyLimit \in Nat /\ BodyLimit > 0
  BY Http2Assumption
<1>2. NewStream(w).received = 0 /\ NewStream(w).serverWindow = BodyLimit
  BY StreamFacts
<1> QED BY <1>1, <1>2

LEMMA OpenIsCalm ==
  ASSUME NEW c \in ConnType, NEW id \in StreamId, Clean(c), Fed(c)
  PROVE  LET d == Open(c, id) IN
         /\ d \in ConnType /\ Clean(d) /\ Fed(d) /\ Taken(d) = Taken(c)
         /\ SameRest(c, d) /\ d.out = c.out /\ Holds(d, id)
         /\ \A other \in StreamId \ {id} : d.streams[other] = c.streams[other]
         /\ IF Holds(c, id) THEN d = c
            ELSE d.streams[id] = NewStream(c.initialWindow) /\ d.remaining = c.remaining - 1
         /\ Holds(c, id) \/ Odd(id) => Accounts(c, d)
<1> DEFINE d == Open(c, id)
<1>1. /\ d \in ConnType /\ SameRest(c, d) /\ d.out = c.out
      /\ IF Holds(c, id) THEN d = c
         ELSE /\ d.streams = [c.streams EXCEPT ![id] = NewStream(c.initialWindow)]
              /\ d.remaining = c.remaining - 1
  BY OpenFacts
<1> HIDE DEF d
<1>2. CASE Holds(c, id)
  <2>1. Accounts(c, c)
    BY SameAccounts
  <2> QED BY <1>1, <1>2, <2>1 DEF d
<1>3. CASE ~Holds(c, id)
  <2>1. c.initialWindow \in Int
    BY DEF ConnType
  <2> DEFINE s == NewStream(c.initialWindow)
  <2>2. /\ s \in StreamType /\ s.held /\ s.buffer = 0 /\ ~s.remoteClosed /\ ~s.localClosed
        /\ s.received <= BodyLimit /\ s.serverWindow > 0
        /\ s.received + s.serverWindow \in {BodyLimit, BodyLimit + 1}
    BY <2>1, StreamFacts, NewIsFed
  <2>3. d.streams = [c.streams EXCEPT ![id] = s]
    BY <1>1, <1>3
  <2> HIDE DEF s
  <2>4. Taken(d) = Taken(c) /\ (Odd(id) => Accounts(c, d))
    BY <1>1, <1>3, <2>2, <2>3, OpenAccounts
  <2>5. d.streams[id] = s /\ \A other \in StreamId \ {id} : d.streams[other] = c.streams[other]
    BY <2>3 DEF ConnType
  <2>6. Clean(d) /\ Fed(d) /\ Holds(d, id)
    BY <2>2, <2>5 DEF Clean, Fed, Holds
  <2> QED BY <1>1, <1>3, <2>4, <2>5, <2>6 DEF d, s
<1> QED BY <1>2, <1>3

LEMMA CalmThen ==
  ASSUME NEW c \in ConnType, NEW d \in ConnType, NEW e \in ConnType, NEW id \in StreamId,
         Calm(c, d, id), Calm(d, e, id),
         \A other \in StreamId : Holds(e, other) => Holds(d, other)
  PROVE  Calm(c, e, id)
<1>1. Accounts(c, e)
  BY ThroughAccounts DEF Calm
<1>2. \A other \in StreamId : SameOut(c, e, other)
  BY DEF Calm, SameOut
<1>3. ASSUME NEW other \in StreamId, Holds(e, other)
      PROVE  IF Holds(c, other) THEN e.streams[other].window = c.streams[other].window
             ELSE other = id /\ e.streams[other].window = c.initialWindow
  BY <1>3 DEF Calm
<1> QED BY <1>1, <1>2, <1>3 DEF Calm

LEMMA ResetOpensNothing ==
  ASSUME NEW c \in ConnType, NEW id \in StreamId
  PROVE  /\ \A other \in StreamId : Holds(Reset(c, id), other) => Holds(c, other) /\ other # id
         /\ \A other \in StreamId : Holds(c, other) /\ other # id => Holds(Reset(c, id), other)
<1> DEFINE d == Reset(c, id)
<1>1. IF Holds(c, id) THEN d.streams = [c.streams EXCEPT ![id] = Gone] ELSE d.streams = c.streams
  BY ResetFacts
<1> HIDE DEF d
<1>2. CASE Holds(c, id)
  <2>1. \A other \in StreamId : d.streams[other] = IF other = id THEN Gone ELSE c.streams[other]
    BY <1>1, <1>2 DEF ConnType
  <2> QED BY <2>1, StreamFacts DEF Holds, d
<1>3. CASE ~Holds(c, id)
  BY <1>1, <1>3 DEF Holds, d
<1> QED BY <1>2, <1>3

\* The stream as handleHeaders finds or makes it.
Ready(c, id, ended) ==
  LET opened == [Open(c, id) EXCEPT !.last = IF id > @ THEN id ELSE @]
  IN IF ended THEN opened ELSE Welcome(opened)

LEMMA ReadyFacts ==
  ASSUME NEW c \in ConnType, NEW id \in StreamId, NEW ended \in BOOLEAN, Clean(c), Fed(c),
         Holds(c, id) \/ MayOpen(c, id)
  PROVE  LET d == Ready(c, id, ended) IN
         /\ Calm(c, d, id) /\ Holds(d, id)
         /\ d.streams = Open(c, id).streams /\ d.remaining = Open(c, id).remaining
         /\ d.out = c.out /\ d.closed = c.closed /\ d.requests = c.requests
         /\ d.headerStream = c.headerStream /\ d.expected = c.expected
         /\ d.last = (IF id > c.last THEN id ELSE c.last)
         /\ d.serverWindow \in {c.serverWindow, BodyLimit}
<1> DEFINE p == Open(c, id)
           o == [p EXCEPT !.last = IF id > @ THEN id ELSE @]
           d == Ready(c, id, ended)
<1>0. id \in Nat /\ c.last \in Nat /\ BodyLimit \in Nat
  BY Http2Assumption DEF ConnType
<1>1. /\ p \in ConnType /\ Clean(p) /\ Fed(p)
      /\ SameRest(c, p) /\ p.out = c.out /\ Holds(p, id)
      /\ \A other \in StreamId \ {id} : p.streams[other] = c.streams[other]
      /\ IF Holds(c, id) THEN p = c
         ELSE p.streams[id] = NewStream(c.initialWindow) /\ p.remaining = c.remaining - 1
      /\ Accounts(c, p)
  BY OpenIsCalm DEF MayOpen
<1> HIDE DEF p
<1>2. /\ o \in ConnType /\ o.last = (IF id > c.last THEN id ELSE c.last)
      /\ o.streams = p.streams /\ o.remaining = p.remaining /\ o.out = p.out
      /\ o.serverWindow = p.serverWindow /\ o.closed = p.closed
      /\ o.requests = p.requests /\ o.headerStream = p.headerStream /\ o.expected = p.expected
      /\ o.clientWindow = p.clientWindow /\ o.initialWindow = p.initialWindow /\ o.wrote = p.wrote
  BY <1>0, <1>1 DEF ConnType, SameRest
<1>3. d = IF ended THEN o ELSE Welcome(o)
  BY DEF Ready, p
<1> HIDE DEF o, d
<1>4. /\ Welcome(o) \in ConnType /\ Welcome(o).last = o.last
      /\ Welcome(o).streams = o.streams /\ Welcome(o).remaining = o.remaining
      /\ Welcome(o).out = o.out /\ Welcome(o).serverWindow \in {o.serverWindow, BodyLimit}
      /\ Welcome(o).closed = o.closed
      /\ Welcome(o).requests = o.requests /\ Welcome(o).headerStream = o.headerStream
      /\ Welcome(o).expected = o.expected /\ Welcome(o).clientWindow = o.clientWindow
      /\ Welcome(o).initialWindow = o.initialWindow /\ Welcome(o).wrote = o.wrote
  BY <1>0, <1>2 DEF Welcome, ConnType
<1>5. /\ d \in ConnType /\ d.last = o.last
      /\ d.streams = p.streams /\ d.remaining = p.remaining
      /\ d.out = p.out /\ d.serverWindow \in {p.serverWindow, BodyLimit}
      /\ d.closed = p.closed
      /\ d.requests = p.requests /\ d.headerStream = p.headerStream
      /\ d.expected = p.expected /\ d.clientWindow = p.clientWindow
      /\ d.initialWindow = p.initialWindow /\ d.wrote = p.wrote
  BY <1>2, <1>3, <1>4
<1>6. Clean(d) /\ Fed(d) /\ Holds(d, id) /\ \A other \in StreamId : Holds(d, other) <=> Holds(p, other)
  BY <1>1, <1>5 DEF Clean, Fed, Holds
<1>7. Accounts(c, d)
  BY <1>1, <1>5, <1>6, SameAccounts, ThroughAccounts
<1>8. \A other \in StreamId : SameOut(c, d, other)
  BY <1>1, <1>5 DEF SameOut
<1>9. ASSUME NEW other \in StreamId, Holds(d, other)
      PROVE  IF Holds(c, other) THEN d.streams[other].window = c.streams[other].window
             ELSE other = id /\ d.streams[other].window = c.initialWindow
  <2>1. c.initialWindow \in Int
    BY DEF ConnType
  <2>2. CASE other = id
    BY <1>1, <1>5, <2>1, <2>2, StreamFacts
  <2>3. CASE other # id
    BY <1>1, <1>5, <1>9, <2>3 DEF Holds
  <2> QED BY <2>2, <2>3
<1>10. Calm(c, d, id)
  BY <1>1, <1>5, <1>6, <1>7, <1>8, <1>9 DEF Calm, SameRest
<1> QED BY <1>1, <1>2, <1>5, <1>6, <1>10 DEF SameRest, p, d

\* The request of a plain client is put in the map, with a stream of its own.
Asked(c, d, id, what) ==
  /\ d.closed = c.closed /\ d.out = c.out
  /\ d.headerStream = c.headerStream /\ d.expected = c.expected
  /\ d.last = (IF id > c.last THEN id ELSE c.last)
  /\ d.requests = [c.requests EXCEPT ![id] = what]
  /\ \A other \in StreamId : Holds(d, other) <=> Holds(c, other) \/ other = id

\* The request of a stream is put away, with its header block.
Put(c, id, kind) == [c EXCEPT !.streams[id].reserved = TRUE, !.requests[id] = kind]

LEMMA PutFacts ==
  ASSUME NEW c \in ConnType, NEW id \in StreamId, NEW kind \in Kind, Clean(c), Fed(c)
  PROVE  LET d == Put(c, id, kind) IN
         /\ Calm(c, d, id) /\ d.serverWindow = c.serverWindow
         /\ d.requests = [c.requests EXCEPT ![id] = kind]
         /\ d.closed = c.closed /\ d.out = c.out
         /\ d.headerStream = c.headerStream /\ d.expected = c.expected /\ d.last = c.last
         /\ d.remaining = c.remaining
         /\ \A other \in StreamId \ {id} : d.streams[other] = c.streams[other]
         /\ \A other \in StreamId : Holds(d, other) <=> Holds(c, other)
<1> DEFINE t == [c.streams[id] EXCEPT !.reserved = TRUE]
           d == Put(c, id, kind)
<1>1. c.streams[id] \in StreamType
  BY DEF ConnType
<1>2. /\ t \in StreamType /\ t.held = c.streams[id].held /\ t.window = c.streams[id].window
      /\ t.buffer = c.streams[id].buffer /\ t.remoteClosed = c.streams[id].remoteClosed
      /\ t.localClosed = c.streams[id].localClosed /\ t.received = c.streams[id].received
      /\ t.serverWindow = c.streams[id].serverWindow
  BY <1>1 DEF StreamType
<1>3. d = [c EXCEPT !.streams = [c.streams EXCEPT ![id] = t],
                    !.requests = [c.requests EXCEPT ![id] = kind]]
  BY DEF Put, ConnType
<1> HIDE DEF t, d
<1>4. /\ [c.streams EXCEPT ![id] = t] \in [StreamId -> StreamType]
      /\ [c.requests EXCEPT ![id] = kind] \in [StreamId -> Kind \cup {"none"}]
  BY <1>2 DEF ConnType
<1>5. /\ d \in ConnType /\ d.streams = [c.streams EXCEPT ![id] = t]
      /\ d.requests = [c.requests EXCEPT ![id] = kind] /\ d.serverWindow = c.serverWindow
      /\ d.closed = c.closed /\ d.out = c.out
      /\ d.headerStream = c.headerStream /\ d.expected = c.expected /\ d.last = c.last
      /\ d.clientWindow = c.clientWindow /\ d.initialWindow = c.initialWindow
      /\ d.wrote = c.wrote /\ d.remaining = c.remaining
  BY <1>3, <1>4 DEF ConnType
<1>6. d.streams[id] = t /\ \A other \in StreamId \ {id} : d.streams[other] = c.streams[other]
  BY <1>5 DEF ConnType
<1>7. \A other \in StreamId :
        /\ d.streams[other].window = c.streams[other].window
        /\ d.streams[other].received = c.streams[other].received
        /\ d.streams[other].serverWindow = c.streams[other].serverWindow
        /\ d.streams[other].buffer = c.streams[other].buffer
        /\ d.streams[other].remoteClosed = c.streams[other].remoteClosed
        /\ d.streams[other].localClosed = c.streams[other].localClosed
        /\ d.streams[other].held = c.streams[other].held
  BY <1>2, <1>6
<1>8. \A other \in StreamId : Holds(d, other) <=> Holds(c, other)
  BY <1>7 DEF Holds
<1>9. Clean(d) /\ Fed(d)
  BY <1>7, <1>8 DEF Clean, Fed
<1>10. Accounts(c, d)
  BY <1>5, <1>8, SameAccounts
<1>11. Calm(c, d, id)
  BY <1>5, <1>7, <1>8, <1>9, <1>10 DEF Calm, SameOut
<1> QED BY <1>4, <1>5, <1>6, <1>7, <1>8, <1>11 DEF d

LEMMA HeadersFacts ==
  ASSUME NEW c \in ConnType, NEW id \in StreamId, NEW ended \in BOOLEAN,
         NEW what \in Kind \cup Wrong, Clean(c), Fed(c)
  PROVE  LET d == HandleHeaders(c, id, ended, what) IN
         /\ Calm(c, d, id) /\ d.serverWindow \in {c.serverWindow, BodyLimit}
         /\ (what \in {"call", "head"} /\ ~Holds(c, id) /\ MayOpen(c, id)) => Asked(c, d, id, what)
<1> DEFINE d == HandleHeaders(c, id, ended, what)
           b == [c EXCEPT !.headerStream = id]
           r == Ready(c, id, TRUE)
           s == Ready(c, id, ended)
<1>1. CASE what = "badName"
  <2>1. d = Reset(b, id)
    BY <1>1 DEF HandleHeaders
  <2>2. /\ b \in ConnType /\ b.streams = c.streams /\ b.remaining = c.remaining /\ b.out = c.out
        /\ b.clientWindow = c.clientWindow /\ b.initialWindow = c.initialWindow
        /\ b.wrote = c.wrote /\ b.serverWindow = c.serverWindow
    BY DEF ConnType
  <2> HIDE DEF b, d
  <2>3. Clean(b) /\ Fed(b) /\ \A other \in StreamId : Holds(b, other) <=> Holds(c, other)
    BY <2>2 DEF Clean, Fed, Holds
  <2>4. Accounts(c, b)
    BY <2>2, <2>3, SameAccounts
  <2>5. Calm(c, b, id)
    BY <2>2, <2>3, <2>4 DEF Calm, SameOut
  <2>6. Calm(b, d, id) /\ d \in ConnType /\ SameRest(b, d)
    BY <2>1, <2>2, <2>3, ResetIsCalm, ResetFacts
  <2>7. \A other \in StreamId : Holds(d, other) => Holds(b, other)
    BY <2>1, <2>2, ResetOpensNothing
  <2>8. Calm(c, d, id) /\ d.serverWindow = c.serverWindow
    BY <2>2, <2>5, <2>6, <2>7, CalmThen DEF SameRest
  <2> QED BY <1>1, <2>8 DEF d
<1>2. CASE what = "badPseudo"
  <2>1. d = Reset(c, id)
    BY <1>2 DEF HandleHeaders
  <2>2. Calm(c, d, id) /\ SameRest(c, d)
    BY <2>1, ResetIsCalm, ResetFacts
  <2> QED BY <1>2, <2>2 DEF SameRest
<1>3. CASE what \notin {"badName", "badPseudo"} /\ ~Holds(c, id) /\ ~MayOpen(c, id)
  <2>1. d = Shutdown(c)
    BY <1>3 DEF HandleHeaders
  <2>2. Calm(c, d, id) /\ d.serverWindow = c.serverWindow
    BY <2>1, ShutdownIsCalm, ShutdownFacts
  <2> QED BY <1>3, <2>2
<1>4. CASE what \notin {"badName", "badPseudo"} /\ (Holds(c, id) \/ MayOpen(c, id))
  <2>1. /\ Calm(c, r, id) /\ r \in ConnType /\ Holds(r, id) /\ r.serverWindow = c.serverWindow
        /\ Calm(c, s, id) /\ s \in ConnType /\ Holds(s, id)
        /\ s.serverWindow \in {c.serverWindow, BodyLimit}
    <3>1. r.serverWindow = Open(c, id).serverWindow /\ Open(c, id).serverWindow = c.serverWindow
      <4>1. Open(c, id) \in ConnType /\ Open(c, id).serverWindow = c.serverWindow
        BY OpenFacts DEF SameRest
      <4> QED BY <4>1 DEF Ready, ConnType
    <3>2. Calm(c, r, id) /\ Holds(r, id)
      BY <1>4, ReadyFacts
    <3>3. Calm(c, s, id) /\ Holds(s, id) /\ s.serverWindow \in {c.serverWindow, BodyLimit}
      BY <1>4, ReadyFacts
    <3> HIDE DEF r, s
    <3>4. r \in ConnType /\ s \in ConnType
      BY <3>2, <3>3 DEF Calm
    <3> QED BY <3>1, <3>2, <3>3, <3>4
  <2> DEFINE q == [s EXCEPT !.streams[id].reserved = TRUE,
                            !.requests[id] = IF what = "badLength" THEN "call" ELSE what]
  <2>2. \/ what = "badValue" /\ d = Reset(r, id)
        \/ r.streams[id].reserved /\ d = Reset(r, id)
        \/ what = "badLength" /\ d = Reset(s, id)
        \/ what # "badValue" /\ ~r.streams[id].reserved /\ d = q
    <3>1. ~c.streams[id].remoteClosed
      BY DEF Clean
    <3> QED BY <1>4, <3>1 DEF HandleHeaders, Ready
  <2>3. r.streams = Open(c, id).streams
    BY <1>4, ReadyFacts
  <2>4. s.streams = Open(c, id).streams /\ s.remaining = Open(c, id).remaining
        /\ s.out = c.out /\ s.closed = c.closed /\ s.requests = c.requests
        /\ s.headerStream = c.headerStream /\ s.expected = c.expected
        /\ s.last = (IF id > c.last THEN id ELSE c.last)
    BY <1>4, ReadyFacts
  <2> HIDE DEF r, s
  <2>5. ASSUME d = Reset(r, id)
        PROVE  Calm(c, d, id) /\ d.serverWindow = c.serverWindow
    <3> HIDE DEF d
    <3>0. Clean(r) /\ Fed(r)
      BY <2>1 DEF Calm
    <3>1. Calm(r, d, id) /\ d \in ConnType /\ SameRest(r, d)
      BY <2>1, <2>5, <3>0, ResetIsCalm, ResetFacts
    <3> QED BY <2>1, <2>5, <3>1, ResetOpensNothing, CalmThen DEF SameRest
  <2>6. ASSUME d = Reset(s, id)
        PROVE  Calm(c, d, id) /\ d.serverWindow \in {c.serverWindow, BodyLimit}
    <3> HIDE DEF d
    <3>0. Clean(s) /\ Fed(s)
      BY <2>1 DEF Calm
    <3>1. Calm(s, d, id) /\ d \in ConnType /\ SameRest(s, d)
      BY <2>1, <2>6, <3>0, ResetIsCalm, ResetFacts
    <3> QED BY <2>1, <2>6, <3>1, ResetOpensNothing, CalmThen DEF SameRest
  <2> DEFINE kind == IF what = "badLength" THEN "call" ELSE what
  <2>7. ASSUME what # "badValue"
        PROVE  /\ q \in ConnType /\ Calm(c, q, id) /\ q.serverWindow \in {c.serverWindow, BodyLimit}
               /\ q.requests = [s.requests EXCEPT ![id] = kind]
               /\ q.closed = s.closed /\ q.out = s.out
               /\ q.headerStream = s.headerStream /\ q.expected = s.expected /\ q.last = s.last
               /\ \A other \in StreamId : Holds(q, other) <=> Holds(s, other)
    <3>1. kind \in Kind
      BY <1>4, <2>7 DEF Kind, Wrong
    <3>2. q = Put(s, id, kind)
      BY DEF Put
    <3>3. Clean(s) /\ Fed(s)
      BY <2>1 DEF Calm
    <3> HIDE DEF kind, q
    <3>4. /\ Calm(s, q, id) /\ q.serverWindow = s.serverWindow
          /\ q.requests = [s.requests EXCEPT ![id] = kind]
          /\ q.closed = s.closed /\ q.out = s.out
          /\ q.headerStream = s.headerStream /\ q.expected = s.expected /\ q.last = s.last
          /\ \A other \in StreamId : Holds(q, other) <=> Holds(s, other)
      BY <2>1, <3>1, <3>2, <3>3, PutFacts
    <3>5. q \in ConnType
      BY <3>4 DEF Calm
    <3>6. Calm(c, q, id)
      BY <2>1, <3>4, <3>5, CalmThen
    <3> QED BY <2>1, <3>4, <3>5, <3>6
  <2>8. ASSUME what \in {"call", "head"}, ~Holds(c, id), MayOpen(c, id)
        PROVE  Asked(c, q, id, what)
    <3>1. \A other \in StreamId : Holds(s, other) <=> Holds(c, other) \/ other = id
      BY <2>1, <2>4, <2>8, OpenIsCalm DEF Holds
    <3>2. what # "badValue" /\ kind = what
      BY <2>8
    <3> HIDE DEF q, kind
    <3> QED BY <2>4, <2>7, <3>1, <3>2 DEF Asked
  <2>9. ASSUME what \in {"call", "head"}, ~Holds(c, id), MayOpen(c, id)
        PROVE  d = q
    <3>1. ~r.streams[id].reserved
      BY <2>3, <2>9, OpenIsCalm, StreamFacts DEF ConnType
    <3> QED BY <2>2, <2>9, <3>1
  <2> HIDE DEF d, q, kind
  <2>10. Calm(c, d, id) /\ d.serverWindow \in {c.serverWindow, BodyLimit}
    BY <2>2, <2>5, <2>6, <2>7
  <2> QED BY <2>8, <2>9, <2>10 DEF d
<1> QED BY <1>1, <1>2, <1>3, <1>4

\* The connection after n bytes have been counted.
Counted(c, id, n) ==
  LET s == c.streams[id] IN
  [c EXCEPT !.serverWindow = @ - n,
            !.streams[id] = [s EXCEPT !.serverWindow = s.serverWindow - n,
                                      !.received = s.received + n]]

\* All but the window for what comes in.
SameTaking(c, d) ==
  /\ d.closed = c.closed /\ d.clientWindow = c.clientWindow
  /\ d.initialWindow = c.initialWindow /\ d.last = c.last /\ d.requests = c.requests
  /\ d.headerStream = c.headerStream /\ d.expected = c.expected /\ d.wrote = c.wrote
  /\ d.out = c.out /\ d.remaining = c.remaining

LEMMA CountedFacts ==
  ASSUME NEW c \in ConnType, NEW id \in StreamId, NEW n \in Nat
  PROVE  LET d == Counted(c, id, n) IN
         /\ d \in ConnType /\ SameTaking(c, d) /\ d.serverWindow = c.serverWindow - n
         /\ \A other \in StreamId \ {id} : d.streams[other] = c.streams[other]
         /\ d.streams[id].received = c.streams[id].received + n
         /\ d.streams[id].serverWindow = c.streams[id].serverWindow - n
         /\ d.streams[id].window = c.streams[id].window /\ d.streams[id].held = c.streams[id].held
         /\ d.streams[id].buffer = c.streams[id].buffer
         /\ d.streams[id].remoteClosed = c.streams[id].remoteClosed
         /\ d.streams[id].localClosed = c.streams[id].localClosed
<1> DEFINE s == c.streams[id]
           t == [s EXCEPT !.serverWindow = s.serverWindow - n, !.received = s.received + n]
           d == Counted(c, id, n)
<1>1. s \in StreamType
  BY DEF ConnType
<1> HIDE DEF s
<1>2. s.serverWindow - n \in Int /\ s.received + n \in Nat
  BY <1>1 DEF StreamType
<1>3. /\ t \in StreamType /\ t.received = s.received + n /\ t.serverWindow = s.serverWindow - n
      /\ t.window = s.window /\ t.held = s.held /\ t.buffer = s.buffer
      /\ t.remoteClosed = s.remoteClosed /\ t.localClosed = s.localClosed
  BY <1>1, <1>2 DEF StreamType
<1>4. d = [c EXCEPT !.serverWindow = c.serverWindow - n, !.streams = [c.streams EXCEPT ![id] = t]]
  BY DEF Counted, s, ConnType
<1> HIDE DEF t, d
<1>5. [c.streams EXCEPT ![id] = t] \in [StreamId -> StreamType] /\ c.serverWindow - n \in Int
  BY <1>3 DEF ConnType
<1>6. /\ d \in ConnType /\ SameTaking(c, d) /\ d.serverWindow = c.serverWindow - n
      /\ d.streams = [c.streams EXCEPT ![id] = t]
  BY <1>4, <1>5 DEF ConnType, SameTaking
<1>7. d.streams[id] = t /\ \A other \in StreamId \ {id} : d.streams[other] = c.streams[other]
  BY <1>6 DEF ConnType
<1> QED BY <1>3, <1>6, <1>7 DEF d, s

LEMMA TopUpFacts ==
  ASSUME NEW c \in ConnType
  PROVE  LET d == TopUp(c) IN
         /\ d \in ConnType /\ SameTaking(c, d) /\ d.streams = c.streams
         /\ d.serverWindow = IF c.serverWindow <= MinimumWindow
                             THEN c.serverWindow + MaxIncrement ELSE c.serverWindow
<1>1. MaxIncrement \in Nat
  BY Http2Assumption
<1>2. CASE c.serverWindow <= MinimumWindow
  BY <1>1, <1>2 DEF TopUp, ConnType, SameTaking
<1>3. CASE ~(c.serverWindow <= MinimumWindow)
  BY <1>3 DEF TopUp, SameTaking
<1> QED BY <1>2, <1>3

LEMMA TopUpStreamFacts ==
  ASSUME NEW c \in ConnType, NEW id \in StreamId
  PROVE  LET d == TopUpStream(c, id)
             s == c.streams[id]
             inc == Least(BodyLimit + 1 - s.received - s.serverWindow, MaxIncrement)
         IN /\ d \in ConnType /\ SameTaking(c, d) /\ d.serverWindow = c.serverWindow
            /\ \A other \in StreamId \ {id} : d.streams[other] = c.streams[other]
            /\ d.streams[id].received = c.streams[id].received
            /\ d.streams[id].serverWindow = IF s.serverWindow <= MinimumWindow /\ inc > 0
                                            THEN s.serverWindow + inc ELSE s.serverWindow
            /\ d.streams[id].window = s.window /\ d.streams[id].held = s.held
            /\ d.streams[id].buffer = s.buffer
            /\ d.streams[id].remoteClosed = s.remoteClosed
            /\ d.streams[id].localClosed = s.localClosed
<1> DEFINE s == c.streams[id]
           inc == Least(BodyLimit + 1 - s.received - s.serverWindow, MaxIncrement)
           t == [s EXCEPT !.serverWindow = s.serverWindow + inc]
           d == TopUpStream(c, id)
<1>1. s \in StreamType /\ BodyLimit \in Nat /\ MaxIncrement \in Nat
  BY Http2Assumption DEF ConnType
<1>2. inc \in Int /\ s.serverWindow + inc \in Int
  <2> HIDE DEF s
  <2> QED BY <1>1 DEF StreamType, Least
<1>3. CASE ~(s.serverWindow <= MinimumWindow /\ inc > 0)
  <2>1. d = c
    BY <1>3 DEF TopUpStream
  <2> QED BY <1>3, <2>1 DEF SameTaking
<1>4. CASE s.serverWindow <= MinimumWindow /\ inc > 0
  <2>1. d = [c EXCEPT !.streams[id].serverWindow = @ + inc]
    BY <1>4 DEF TopUpStream
  <2> HIDE DEF inc
  <2>2. d = [c EXCEPT !.streams = [c.streams EXCEPT ![id] = t]]
    BY <2>1 DEF ConnType
  <2> HIDE DEF s, d
  <2>3. /\ t \in StreamType /\ t.received = s.received /\ t.serverWindow = s.serverWindow + inc
        /\ t.window = s.window /\ t.held = s.held /\ t.buffer = s.buffer
        /\ t.remoteClosed = s.remoteClosed /\ t.localClosed = s.localClosed
    BY <1>1, <1>2 DEF StreamType
  <2> HIDE DEF t
  <2>4. [c.streams EXCEPT ![id] = t] \in [StreamId -> StreamType]
    BY <2>3 DEF ConnType
  <2>5. /\ d \in ConnType /\ SameTaking(c, d) /\ d.serverWindow = c.serverWindow
        /\ d.streams = [c.streams EXCEPT ![id] = t]
    BY <2>2, <2>4 DEF ConnType, SameTaking
  <2>6. d.streams[id] = t /\ \A other \in StreamId \ {id} : d.streams[other] = c.streams[other]
    BY <2>5 DEF ConnType
  <2> QED BY <1>4, <2>3, <2>5, <2>6 DEF d, s, inc
<1> QED BY <1>3, <1>4

\* What a frame of DATA that is taken makes of the connection.
TakenIn(c, id, n) == TopUpStream(TopUp(Counted(c, id, n)), id)

\* The frame was taken, and the windows for what comes in are refilled.
Received(c, d) ==
  /\ d.closed = c.closed /\ d.out = c.out /\ d.last = c.last
  /\ d.headerStream = c.headerStream /\ d.expected = c.expected /\ d.requests = c.requests
  /\ \A other \in StreamId : Holds(d, other) <=> Holds(c, other)
  /\ d.serverWindow > MinimumWindow

LEMMA TakenInFacts ==
  ASSUME NEW c \in ConnType, NEW id \in StreamId, NEW n \in Chunk, Clean(c), Fed(c),
         Holds(c, id), c.streams[id].received + n <= BodyLimit
  PROVE  LET d == TakenIn(c, id, n) IN
         /\ Calm(c, d, id)
         /\ c.serverWindow > MinimumWindow => Received(c, d)
<1> DEFINE t == Counted(c, id, n)
           u == TopUp(t)
           d == TakenIn(c, id, n)
           s == c.streams[id]
           inc == Least(BodyLimit + 1 - s.received - s.serverWindow, MaxIncrement)
<1>1. /\ n \in Nat /\ n > 0 /\ n <= MinimumWindow /\ n <= MaxIncrement
      /\ BodyLimit \in Nat /\ MinimumWindow \in Nat /\ MaxIncrement \in Nat
  BY Http2Assumption
<1>2. /\ t \in ConnType /\ SameTaking(c, t) /\ t.serverWindow = c.serverWindow - n
      /\ \A other \in StreamId \ {id} : t.streams[other] = c.streams[other]
      /\ t.streams[id].received = s.received + n
      /\ t.streams[id].serverWindow = s.serverWindow - n
      /\ t.streams[id].window = s.window /\ t.streams[id].held = s.held
      /\ t.streams[id].buffer = s.buffer
      /\ t.streams[id].remoteClosed = s.remoteClosed
      /\ t.streams[id].localClosed = s.localClosed
  BY <1>1, CountedFacts
<1> HIDE DEF t
<1>3. /\ u \in ConnType /\ SameTaking(t, u) /\ u.streams = t.streams
      /\ u.serverWindow = IF t.serverWindow <= MinimumWindow
                          THEN t.serverWindow + MaxIncrement ELSE t.serverWindow
  BY <1>2, TopUpFacts
<1> HIDE DEF u
<1>4. d = TopUpStream(u, id)
  BY DEF TakenIn, u, t
<1> HIDE DEF d
<1>5. u.streams[id].received = s.received + n /\ u.streams[id].serverWindow = s.serverWindow - n
  BY <1>2, <1>3
<1>6. s.received \in Nat /\ s.serverWindow \in Int /\ c.serverWindow \in Int
  BY DEF ConnType, StreamType
<1>7. /\ d \in ConnType /\ SameTaking(u, d) /\ d.serverWindow = u.serverWindow
      /\ \A other \in StreamId \ {id} : d.streams[other] = u.streams[other]
      /\ d.streams[id].received = u.streams[id].received
      /\ LET v == u.streams[id]
             i == Least(BodyLimit + 1 - v.received - v.serverWindow, MaxIncrement)
         IN d.streams[id].serverWindow = IF v.serverWindow <= MinimumWindow /\ i > 0
                                         THEN v.serverWindow + i ELSE v.serverWindow
      /\ d.streams[id].window = u.streams[id].window /\ d.streams[id].held = u.streams[id].held
      /\ d.streams[id].buffer = u.streams[id].buffer
      /\ d.streams[id].remoteClosed = u.streams[id].remoteClosed
      /\ d.streams[id].localClosed = u.streams[id].localClosed
  BY <1>3, <1>4, TopUpStreamFacts
<1>8. d.streams[id].received = s.received + n
  BY <1>5, <1>7
<1>9. BodyLimit + 1 - (s.received + n) - (s.serverWindow - n)
        = BodyLimit + 1 - s.received - s.serverWindow
  BY <1>1, <1>6
<1>10. d.streams[id].serverWindow = IF s.serverWindow - n <= MinimumWindow /\ inc > 0
                                    THEN s.serverWindow - n + inc ELSE s.serverWindow - n
  BY <1>5, <1>7, <1>9
<1>11. SameTaking(c, d)
  BY <1>2, <1>3, <1>7 DEF SameTaking
<1>12. /\ \A other \in StreamId \ {id} : d.streams[other] = c.streams[other]
       /\ d.streams[id].window = s.window /\ d.streams[id].held = s.held
       /\ d.streams[id].buffer = s.buffer /\ d.streams[id].remoteClosed = s.remoteClosed
       /\ d.streams[id].localClosed = s.localClosed
  BY <1>2, <1>3, <1>7
<1>13. /\ s.received <= BodyLimit /\ s.serverWindow > 0
       /\ s.received + s.serverWindow \in {BodyLimit, BodyLimit + 1}
  BY DEF Fed
<1>14. /\ d.streams[id].received <= BodyLimit /\ d.streams[id].serverWindow > 0
       /\ d.streams[id].received + d.streams[id].serverWindow \in {BodyLimit, BodyLimit + 1}
  <2> HIDE DEF s
  <2>1. CASE s.received + s.serverWindow = BodyLimit
    <3>1. inc = 1
      BY <2>1, <1>1, <1>6 DEF Least
    <3> QED BY <3>1, <2>1, <1>1, <1>6, <1>8, <1>10, <1>13 DEF s
  <2>2. CASE s.received + s.serverWindow = BodyLimit + 1
    <3>1. inc = 0
      BY <2>2, <1>1, <1>6 DEF Least
    <3> QED BY <3>1, <2>2, <1>1, <1>6, <1>8, <1>10, <1>13 DEF s
  <2> QED BY <2>1, <2>2, <1>13
<1>15. Fed(d)
  <2>1. ASSUME NEW other \in StreamId, Holds(d, other)
        PROVE  /\ d.streams[other].received <= BodyLimit /\ d.streams[other].serverWindow > 0
               /\ d.streams[other].received + d.streams[other].serverWindow
                    \in {BodyLimit, BodyLimit + 1}
    <3>1. CASE other = id
      BY <3>1, <1>14
    <3>2. CASE other # id
      BY <3>2, <2>1, <1>12 DEF Fed, Holds
    <3> QED BY <3>1, <3>2
  <2> QED BY <2>1 DEF Fed
<1>16. \A other \in StreamId : Holds(d, other) <=> Holds(c, other)
  BY <1>12 DEF Holds
<1>17. Clean(d)
  BY <1>12 DEF Clean
<1>18. Accounts(c, d)
  BY <1>7, <1>11, <1>16, SameAccounts DEF SameTaking
<1>19. \A other \in StreamId : SameOut(c, d, other)
  BY <1>11 DEF SameTaking, SameOut
<1>20. \A other \in StreamId : Holds(d, other) => d.streams[other].window = c.streams[other].window
  BY <1>12
<1>21. Calm(c, d, id)
  BY <1>7, <1>11, <1>15, <1>16, <1>17, <1>18, <1>19, <1>20 DEF Calm, SameTaking
<1>22. ASSUME c.serverWindow > MinimumWindow PROVE Received(c, d)
  <2>1. d.serverWindow > MinimumWindow
    BY <1>1, <1>2, <1>3, <1>6, <1>7, <1>22
  <2> QED BY <2>1, <1>11, <1>16 DEF Received, SameTaking
<1> QED BY <1>21, <1>22 DEF d

\* Nothing has happened.
LEMMA SameIsCalm ==
  ASSUME NEW c \in ConnType, NEW id \in StreamId, Clean(c), Fed(c)
  PROVE  Calm(c, c, id)
<1>1. Accounts(c, c)
  BY SameAccounts
<1> QED BY <1>1 DEF Calm, SameOut

\* A connection that holds nothing but what it held, its counts aside.
LEMMA CountedThenLess ==
  ASSUME NEW c \in ConnType, NEW id \in StreamId, NEW n \in Nat, Clean(c), Fed(c), Holds(c, id)
  PROVE  /\ Calm(c, Reset(Counted(c, id, n), id), id)
         /\ Calm(c, Shutdown(Counted(c, id, n)), id)
         /\ \A other \in StreamId : /\ ~Holds(Shutdown(Counted(c, id, n)), other)
                                    /\ Holds(Reset(Counted(c, id, n), id), other) => Holds(c, other)
<1> DEFINE t == Counted(c, id, n)
           r == Reset(t, id)
           h == Shutdown(t)
<1>1. /\ t \in ConnType /\ SameTaking(c, t)
      /\ \A other \in StreamId \ {id} : t.streams[other] = c.streams[other]
      /\ t.streams[id].held = c.streams[id].held
      /\ t.streams[id].buffer = c.streams[id].buffer
      /\ t.streams[id].remoteClosed = c.streams[id].remoteClosed
      /\ t.streams[id].localClosed = c.streams[id].localClosed
  BY CountedFacts
<1> HIDE DEF t
<1>2. Clean(t) /\ \A other \in StreamId : Holds(t, other) <=> Holds(c, other)
  BY <1>1 DEF Clean, Holds
<1>3. Accounts(c, t)
  BY <1>1, <1>2, SameAccounts DEF SameTaking
<1>4. /\ r \in ConnType /\ SameRest(t, r) /\ r.out = [t.out EXCEPT ![id].reset = TRUE]
      /\ r.streams = [t.streams EXCEPT ![id] = Gone] /\ r.remaining = t.remaining + Slot(id)
  BY <1>1, <1>2, ResetFacts
<1> HIDE DEF r
<1>5. /\ Clean(r) /\ ~Holds(r, id)
      /\ \A other \in StreamId :
           Holds(r, other) => r.streams[other] = t.streams[other] /\ Holds(t, other)
  BY <1>1, <1>2, <1>4, GoneIsClean
<1>6. \A other \in StreamId :
        Holds(r, other) => r.streams[other] = c.streams[other] /\ Holds(c, other)
  BY <1>1, <1>2, <1>5
<1>7. Fed(r)
  BY <1>4, <1>6, GoneIsFed
<1>8. Accounts(c, r)
  BY <1>1, <1>2, <1>3, <1>4, DropAccounts, ThroughAccounts
<1>9. \A other \in StreamId : SameOut(c, r, other)
  BY <1>1, <1>4 DEF ConnType, OutType, SameOut, SameTaking
<1>10. Calm(c, r, id)
  BY <1>1, <1>4, <1>5, <1>6, <1>7, <1>8, <1>9 DEF Calm, SameTaking, SameRest
<1>11. /\ h \in ConnType /\ h.out = t.out /\ h.wrote = t.wrote
       /\ h.clientWindow = t.clientWindow /\ h.initialWindow = t.initialWindow
       /\ h.streams = [other \in StreamId |-> Gone] /\ Accounts(t, h)
  BY <1>1, ShutdownFacts, ShutdownAccounts
<1> HIDE DEF h
<1>12. Clean(h) /\ \A other \in StreamId : ~Holds(h, other)
  BY <1>11, StreamFacts DEF Clean, Holds
<1>13. Accounts(c, h) /\ Fed(h) /\ \A other \in StreamId : SameOut(c, h, other)
  BY <1>1, <1>3, <1>11, <1>12, ThroughAccounts DEF Fed, SameOut, SameTaking
<1>14. Calm(c, h, id)
  BY <1>1, <1>11, <1>12, <1>13 DEF Calm, SameTaking
<1> QED BY <1>6, <1>10, <1>12, <1>14 DEF t, r, h

LEMMA DataFacts ==
  ASSUME NEW c \in ConnType, NEW id \in StreamId, NEW n \in Chunk \cup {0}, Clean(c), Fed(c)
  PROVE  LET d == HandleData(c, id, n) IN
         /\ Calm(c, d, id)
         /\ \A other \in StreamId : Holds(d, other) => Holds(c, other)
         /\ (/\ Holds(c, id) /\ c.requests[id] # "none" /\ c.serverWindow > MinimumWindow
             /\ c.streams[id].received + n <= BodyLimit) => Received(c, d)
<1> DEFINE t == Counted(c, id, n)
           d == HandleData(c, id, n)
<1>1. CASE ~Holds(c, id)
  <2>1. d = Shutdown(c)
    BY <1>1 DEF HandleData
  <2>2. d.streams = [other \in StreamId |-> Gone]
    BY <2>1, ShutdownFacts
  <2> QED BY <1>1, <2>1, <2>2, ShutdownIsCalm, StreamFacts DEF Holds
<1>2. CASE Holds(c, id) /\ n = 0
  <2>1. d = c
    BY <1>2 DEF HandleData, Clean
  <2> QED BY <2>1, SameIsCalm DEF Received
<1>3. CASE Holds(c, id) /\ n # 0
  <2>1. n \in Chunk /\ n \in Nat
    BY <1>3, Http2Assumption
  <2>2. t.streams[id].received = c.streams[id].received + n
    BY <2>1, CountedFacts
  <2>3. d = IF t.streams[id].received > BodyLimit THEN Reset(t, id)
            ELSE IF c.requests[id] = "none" THEN Shutdown(t) ELSE TakenIn(c, id, n)
    BY <1>3 DEF HandleData, Clean, Counted, TakenIn
  <2> HIDE DEF d, t
  <2>4. c.streams[id].received + n \in Nat /\ BodyLimit \in Nat
    BY <2>1, Http2Assumption DEF ConnType, StreamType
  <2>5. CASE t.streams[id].received > BodyLimit
    <3>1. d = Reset(t, id)
      BY <2>3, <2>5
    <3> QED BY <3>1, <1>3, <2>1, <2>2, <2>4, <2>5, CountedThenLess DEF t, d
  <2>6. CASE ~(t.streams[id].received > BodyLimit) /\ c.requests[id] = "none"
    <3>1. d = Shutdown(t)
      BY <2>3, <2>6
    <3> QED BY <3>1, <1>3, <2>1, <2>6, CountedThenLess DEF t, d
  <2>7. CASE ~(t.streams[id].received > BodyLimit) /\ c.requests[id] # "none"
    <3>1. d = TakenIn(c, id, n) /\ c.streams[id].received + n <= BodyLimit
      BY <2>2, <2>3, <2>4, <2>7
    <3>2. Calm(c, d, id) /\ (c.serverWindow > MinimumWindow => Received(c, d))
      BY <1>3, <2>1, <3>1, TakenInFacts
    <3>3. \A other \in StreamId : Holds(d, other) => Holds(c, other)
      <4>1. ASSUME NEW other \in StreamId, Holds(d, other) PROVE Holds(c, other)
        BY <1>3, <3>2, <4>1 DEF Calm
      <4> QED BY <4>1
    <3> QED BY <3>2, <3>3 DEF d
  <2> QED BY <2>5, <2>6, <2>7
<1> QED BY <1>1, <1>2, <1>3

-----------------------------------------------------------------------------
(* The invariant: what a connection is between two frames, and how its      *)
(* windows agree with the books of the client.                             *)

Sound(c) == c \in ConnType /\ Clean(c) /\ Fed(c) /\ c.clientWindow >= 0 /\ Taken(c) <= Limit

Balanced(c, a, k) ==
  /\ ~c.closed => a = c.clientWindow
  /\ \A id \in StreamId :
       IF Holds(c, id) THEN k[id] >= 0 /\ c.streams[id].window = c.initialWindow + k[id]
       ELSE k[id] = 0

\* What a plain client finds: no stream is lost, every one that it has begun is
\* there but the one whose header block is on its way, and none has ended and
\* is not answered.
PlainState(c, p) ==
  /\ ~c.closed /\ Taken(c) = Limit /\ AllOdd(c) /\ c.serverWindow > MinimumWindow
  /\ c.last = 0 \/ (c.last \in StreamId /\ p[c.last] # "idle")
  /\ IF c.expected
     THEN /\ c.headerStream \in StreamId /\ MayOpen(c, c.headerStream)
          /\ p[c.headerStream] = "sending"
     ELSE c.headerStream = 0
  /\ \A id \in StreamId : p[id] # "ended"
  /\ \A id \in StreamId :
       Holds(c, id) <=> p[id] = "sending" /\ ~(c.expected /\ id = c.headerStream)
  /\ \A id \in StreamId :
       p[id] \in {"sending", "done"} => id <= c.last \/ (c.expected /\ id = c.headerStream)
  /\ \A id \in StreamId : Holds(c, id) => c.requests[id] \in {"call", "head"}

IInv ==
  /\ TypeOK /\ Sound(conn) /\ Balanced(conn, allowed, credit)
  /\ ~hands => Init
  /\ plain => PlainState(conn, peer)

\* What a frame writes on a stream fits into the windows, and an answer that is
\* ended is cut by them only.
Fits(id) ==
  LET o == conn'.out[id] IN
  /\ o.data > 0 => o.data <= ClientRoom(id)
  /\ o.ends > 0 => o.data = Least(o.body, ClientRoom(id))

LEMMA NowFacts ==
  ASSUME conn \in ConnType
  PROVE  /\ Now \in ConnType /\ Now.out = Silence /\ Now.wrote = 0
         /\ Now.closed = conn.closed
         /\ Now.clientWindow = conn.clientWindow /\ Now.initialWindow = conn.initialWindow
         /\ Now.serverWindow = conn.serverWindow /\ Now.remaining = conn.remaining
         /\ Now.last = conn.last /\ Now.streams = conn.streams /\ Now.requests = conn.requests
         /\ Now.headerStream = conn.headerStream /\ Now.expected = conn.expected
         /\ Taken(Now) = Taken(conn) /\ \A id \in StreamId : Holds(Now, id) <=> Holds(conn, id)
         /\ Clean(conn) => Clean(Now)
         /\ Fed(conn) => Fed(Now)
         /\ AllOdd(conn) => AllOdd(Now)
         /\ \A id \in StreamId : Now.out[id] = Nothing
<1>1. Silence \in [StreamId -> OutType] /\ \A id \in StreamId : Silence[id] = Nothing
  BY DEF Silence, Nothing, OutType
<1>2. /\ Now \in ConnType /\ Now.out = Silence /\ Now.wrote = 0
      /\ Now.closed = conn.closed
      /\ Now.clientWindow = conn.clientWindow /\ Now.initialWindow = conn.initialWindow
      /\ Now.serverWindow = conn.serverWindow /\ Now.remaining = conn.remaining
      /\ Now.last = conn.last /\ Now.streams = conn.streams /\ Now.requests = conn.requests
      /\ Now.headerStream = conn.headerStream /\ Now.expected = conn.expected
  BY <1>1 DEF Now, ConnType
<1>3. Held(Now) = Held(conn) /\ \A id \in StreamId : Holds(Now, id) <=> Holds(conn, id)
  BY <1>2 DEF Held, Holds
<1> QED BY <1>1, <1>2, <1>3 DEF Taken, Clean, Fed, AllOdd

\* Nothing was answered, as in Calm, but a slot may be lost.
Silent(c, d, id) ==
  /\ d \in ConnType /\ Clean(d) /\ Fed(d) /\ Taken(d) <= Taken(c)
  /\ d.clientWindow = c.clientWindow /\ d.initialWindow = c.initialWindow /\ d.wrote = c.wrote
  /\ \A other \in StreamId : Holds(d, other) =>
       IF Holds(c, other) THEN d.streams[other].window = c.streams[other].window
       ELSE other = id /\ d.streams[other].window = c.initialWindow
  /\ \A other \in StreamId : SameOut(c, d, other)

LEMMA CalmIsSilent ==
  ASSUME NEW c, NEW d, NEW id, Calm(c, d, id)
  PROVE  Silent(c, d, id)
BY DEF Calm, Silent, Accounts

\* How the windows stand before anything is answered.
Poised(c) ==
  /\ c \in ConnType /\ Clean(c) /\ Fed(c) /\ Taken(c) <= Limit
  /\ c.clientWindow = allowed /\ c.clientWindow >= 0
  /\ c.wrote = 0
  /\ \A id \in StreamId : credit[id] >= 0
  /\ \A id \in StreamId : Holds(c, id) => c.streams[id].window = c.initialWindow + credit[id]
  /\ \A id \in StreamId : c.out[id].data = 0 /\ c.out[id].ends = 0

LEMMA SilentIsPoised ==
  ASSUME NEW c, NEW id \in StreamId, Silent(Now, c, id), ~conn.closed, TypeOK, Sound(conn),
         Balanced(conn, allowed, credit)
  PROVE  Poised(c) /\ (Holds(c, id) => Room(c, id) >= 0)
<1>1. /\ Now \in ConnType /\ Now.wrote = 0 /\ Now.streams = conn.streams
      /\ Now.clientWindow = conn.clientWindow /\ Now.initialWindow = conn.initialWindow
      /\ Taken(Now) = Taken(conn) /\ \A i \in StreamId : Holds(Now, i) <=> Holds(conn, i)
      /\ \A i \in StreamId : Now.out[i] = Nothing
  BY NowFacts DEF Sound
<1>2. Taken(c) \in Int /\ Taken(conn) \in Int /\ Limit \in Int /\ conn.clientWindow \in Int
  BY TakenType, Http2Assumption DEF Sound, Silent, ConnType
<1>3. /\ c \in ConnType /\ Clean(c) /\ Fed(c) /\ Taken(c) <= Limit
      /\ c.clientWindow = allowed /\ c.clientWindow >= 0
      /\ c.initialWindow = conn.initialWindow /\ c.wrote = 0
  BY <1>1, <1>2 DEF Silent, Sound, Balanced
<1>4. credit \in [StreamId -> Int] /\ \A i \in StreamId : credit[i] >= 0
  BY DEF TypeOK, Balanced
<1>5. conn.initialWindow \in Nat /\ \A i \in StreamId : credit[i] \in Int
  BY <1>4 DEF ConnType, Sound
<1>6. ASSUME NEW i \in StreamId, Holds(c, i)
      PROVE  c.streams[i].window = c.initialWindow + credit[i]
  <2>1. CASE Holds(conn, i)
    BY <1>1, <1>3, <1>6, <2>1 DEF Silent, Balanced
  <2>2. CASE ~Holds(conn, i)
    <3>1. c.streams[i].window = c.initialWindow /\ credit[i] = 0
      BY <1>1, <1>3, <1>6, <2>2 DEF Silent, Balanced
    <3> QED BY <1>3, <1>5, <3>1
  <2> QED BY <2>1, <2>2
<1>7. \A i \in StreamId : c.out[i].data = 0 /\ c.out[i].ends = 0
  BY <1>1 DEF Silent, SameOut, Nothing
<1>8. ASSUME Holds(c, id) PROVE Room(c, id) >= 0
  BY <1>3, <1>4, <1>5, <1>6, <1>8, RoomFacts
<1> QED BY <1>3, <1>4, <1>6, <1>7, <1>8 DEF Poised

\* The frame of a stream, after which the windows were not changed by the client.
LEMMA AnswerFits ==
  ASSUME NEW c, NEW id \in StreamId, Poised(c), TypeOK, conn' = c \/ Settles(c, conn', id), Counts(0, 0)
  PROVE  /\ Sound(conn') /\ Balanced(conn', allowed', credit')
         /\ allowed' \in Int /\ credit' \in [StreamId -> Int]
         /\ \A i \in StreamId : Fits(i)
<1>1. /\ c \in ConnType /\ allowed \in Int /\ credit \in [StreamId -> Int] /\ 0 \notin StreamId
      /\ c.clientWindow \in Int /\ c.initialWindow \in Nat
  BY Http2Assumption DEF Poised, TypeOK, ConnType
<1>2. CASE conn' = c
  <2>1. allowed' = allowed /\ credit' = [i \in StreamId |-> IF ~Holds(c, i) THEN 0 ELSE credit[i]]
    BY <1>1, <1>2 DEF Counts, Poised
  <2>2. Sound(c)
    BY DEF Poised, Sound
  <2>3. credit' \in [StreamId -> Int]
    BY <1>1, <2>1
  <2>4. Balanced(c, allowed', credit')
    BY <1>1, <2>1 DEF Balanced, Poised
  <2>5. \A i \in StreamId : Fits(i)
    BY <1>2 DEF Fits, Poised
  <2> QED BY <1>1, <1>2, <2>1, <2>2, <2>3, <2>4, <2>5
<1>3. CASE Settles(c, conn', id)
  <2> DEFINE d == conn'
             n == d.wrote - c.wrote
  <2>1. /\ d \in ConnType /\ Clean(d) /\ Taken(d) <= Taken(c)
        /\ d.initialWindow = c.initialWindow
        /\ n \in Nat /\ d.clientWindow = c.clientWindow - n
        /\ n > 0 => Holds(c, id) /\ n <= Room(c, id)
        /\ \A other \in StreamId :
             Holds(d, other) => d.streams[other] = c.streams[other] /\ Holds(c, other)
        /\ ~Holds(d, id)
        /\ \A other \in StreamId \ {id} : d.out[other] = c.out[other]
        /\ d.out[id].data = c.out[id].data + n
        /\ d.out[id].ends > c.out[id].ends => Holds(c, id) /\ n = Least(d.out[id].body, Room(c, id))
    BY <1>3 DEF Settles, Accounts
  <2>2. d.wrote \in Nat /\ c.wrote = 0 /\ n = d.wrote
    BY <2>1 DEF ConnType, Poised
  <2>3. /\ \A other \in StreamId \ {id} : d.out[other].data = 0 /\ d.out[other].ends = 0
        /\ d.out[id].data = n /\ c.out[id].ends = 0
    BY <2>1, <2>2 DEF Poised
  <2>4. allowed' = allowed - n
    BY <1>1, <2>2 DEF Counts
  <2>5. credit' = [i \in StreamId |-> IF ~Holds(d, i) THEN 0 ELSE credit[i]]
    <3>1. credit' = [i \in StreamId |-> IF ~Holds(d, i) THEN 0 ELSE credit[i] - d.out[i].data + 0]
      BY <1>1 DEF Counts
    <3>2. ASSUME NEW i \in StreamId, Holds(d, i) PROVE credit[i] - d.out[i].data + 0 = credit[i]
      <4>1. d.out[i].data = 0 /\ credit[i] \in Int
        BY <1>1, <2>1, <2>3, <3>2
      <4> QED BY <4>1
    <3> QED BY <3>1, <3>2
  <2>6. Taken(c) \in Int /\ Taken(d) \in Int /\ Limit \in Int
    BY <1>1, <2>1, TakenType, Http2Assumption
  <2>7. Fed(d)
    BY <1>1, <2>1, GoneIsFed DEF Poised
  <2>8. d.clientWindow >= 0
    <3>1. CASE n = 0
      BY <1>1, <2>1, <3>1 DEF Poised
    <3>2. CASE n > 0
      <4>1. n <= Room(c, id) /\ Room(c, id) <= c.clientWindow /\ Room(c, id) \in Int
        BY <1>1, <2>1, <3>2, RoomFacts
      <4> QED BY <1>1, <2>1, <4>1
    <3> QED BY <2>1, <3>1, <3>2
  <2>9. Sound(d)
    BY <2>1, <2>6, <2>7, <2>8 DEF Sound, Poised
  <2>10. Balanced(d, allowed', credit')
    <3>1. allowed' = d.clientWindow
      BY <2>1, <2>4 DEF Poised
    <3>2. ASSUME NEW i \in StreamId, Holds(d, i)
          PROVE  credit'[i] >= 0 /\ d.streams[i].window = d.initialWindow + credit'[i]
      BY <2>1, <2>5, <3>2 DEF Poised
    <3>3. ASSUME NEW i \in StreamId, ~Holds(d, i) PROVE credit'[i] = 0
      BY <2>5, <3>3
    <3> QED BY <3>1, <3>2, <3>3 DEF Balanced
  <2>11. allowed' \in Int /\ credit' \in [StreamId -> Int]
    BY <1>1, <2>1, <2>4, <2>5
  <2>12. Holds(c, id) => ClientRoom(id) = Room(c, id)
    <3>1. ASSUME Holds(c, id) PROVE c.streams[id].window = c.initialWindow + credit[id]
      BY <3>1 DEF Poised
    <3>2. ClientRoom(id) = Least(allowed' + d.wrote, d.initialWindow + credit[id])
      BY <2>1 DEF ClientRoom
    <3>3. allowed' + d.wrote = c.clientWindow
      BY <1>1, <2>1, <2>2, <2>4 DEF Poised
    <3> QED BY <2>1, <3>1, <3>2, <3>3 DEF Room
  <2>13. ASSUME NEW i \in StreamId PROVE Fits(i)
    <3>1. CASE i # id
      BY <2>3, <3>1 DEF Fits
    <3>2. CASE i = id
      BY <2>1, <2>3, <2>12, <3>2 DEF Fits
    <3> QED BY <3>1, <3>2
  <2> QED BY <2>9, <2>10, <2>11, <2>13
<1> QED BY <1>2, <1>3

-----------------------------------------------------------------------------
(* Every frame keeps the windows in agreement, and within them.            *)

\* What a plain client has nothing to do with.
Base == TypeOK /\ Sound(conn) /\ Balanced(conn, allowed, credit) /\ (~hands => Init)

\* What a step comes to.
Good ==
  /\ Sound(conn') /\ Balanced(conn', allowed', credit')
  /\ allowed' \in Int /\ credit' \in [StreamId -> Int]
  /\ \A i \in StreamId : Fits(i)

LEMMA ShutdownFits ==
  ASSUME Base, conn' = Shutdown(Now), NEW to, NEW inc \in Nat, Counts(to, inc)
  PROVE  Good
<1>1. /\ Now \in ConnType /\ Now.out = Silence /\ Now.wrote = 0
      /\ Now.clientWindow = conn.clientWindow /\ Taken(Now) = Taken(conn)
      /\ \A i \in StreamId : Now.out[i] = Nothing
  BY NowFacts DEF Base, Sound
<1>2. /\ conn' \in ConnType /\ conn'.closed /\ conn'.out = Now.out /\ conn'.wrote = 0
      /\ conn'.clientWindow = conn.clientWindow
      /\ conn'.streams = [i \in StreamId |-> Gone] /\ Accounts(Now, conn')
  BY <1>1, ShutdownFacts, ShutdownAccounts
<1>3. Clean(conn') /\ \A i \in StreamId : ~Holds(conn', i)
  BY <1>2, StreamFacts DEF Clean, Holds
<1>4. Taken(conn') \in Int /\ Taken(Now) \in Int /\ Limit \in Int /\ Taken(conn) <= Limit
  BY <1>1, <1>2, TakenType, Http2Assumption DEF Base, Sound
<1>5. Sound(conn')
  BY <1>1, <1>2, <1>3, <1>4 DEF Sound, Fed, Accounts, Base
<1>6. credit' = [i \in StreamId |-> 0]
  BY <1>3 DEF Counts
<1>7. allowed' \in Int
  BY <1>2 DEF Counts, Base, TypeOK
<1>8. Balanced(conn', allowed', credit')
  BY <1>2, <1>3, <1>6 DEF Balanced
<1>9. \A i \in StreamId : Fits(i)
  BY <1>1, <1>2 DEF Fits, Nothing
<1> QED BY <1>5, <1>6, <1>7, <1>8, <1>9 DEF Good

\* A frame of a stream: it is handled, and ends the stream perhaps.
LEMMA FrameFits ==
  ASSUME Base, ~conn.closed, NEW id \in StreamId, NEW c, Calm(Now, c, id),
         NEW ended \in BOOLEAN, NEW fits \in BOOLEAN, NEW len \in Length,
         conn' = IF ended THEN EndStream(c, id, fits, len) ELSE c,
         Counts(0, 0)
  PROVE  Good
<1>1. Poised(c) /\ (Holds(c, id) => Room(c, id) >= 0)
  BY CalmIsSilent, SilentIsPoised DEF Base
<1>2. len \in Nat
  BY Http2Assumption
<1>3. CASE ended
  <2>1. Settles(c, conn', id)
    BY <1>1, <1>2, <1>3, EndStreamFacts DEF Poised
  <2> QED BY <1>1, <2>1, AnswerFits DEF Good, Base
<1>4. CASE ~ended
  <2>1. conn' = c
    BY <1>4
  <2> QED BY <1>1, <2>1, AnswerFits DEF Good, Base
<1> QED BY <1>3, <1>4

\* Nothing was answered.
LEMMA AnyAnswerFits ==
  ASSUME TypeOK, Poised(conn'), Counts(0, 0)
  PROVE  Good
<1>1. CASE StreamId = {}
  <2>1. allowed' = allowed - 0 + 0 /\ credit' = [i \in StreamId |-> 0]
    BY <1>1 DEF Counts, Poised
  <2>2. allowed \in Int
    BY DEF TypeOK
  <2> QED BY <1>1, <2>1, <2>2 DEF Good, Poised, Sound, Balanced
<1>2. ASSUME NEW id \in StreamId
      PROVE  Good
  BY AnswerFits DEF Good
<1> QED BY <1>1, <1>2

LEMMA HeadersFits ==
  ASSUME Base, NEW id \in StreamId, NEW ended \in BOOLEAN, NEW what \in Kind \cup Wrong,
         NEW len \in Length, Headers(id, ended, what, len)
  PROVE  Good
<1>1. /\ ~conn.closed /\ Counts(0, 0)
      /\ conn' = IF conn.expected \/ Foreign(id) THEN Shutdown(Now)
                 ELSE LET c == HandleHeaders(Now, id, ended, Blamed(id, what))
                      IN IF ended THEN EndStream(c, id, TRUE, len) ELSE c
  BY DEF Headers, Take
<1>2. CASE conn.expected \/ Foreign(id)
  BY <1>1, <1>2, ShutdownFits
<1>3. CASE ~(conn.expected \/ Foreign(id))
  <2> DEFINE c == HandleHeaders(Now, id, ended, Blamed(id, what))
  <2>1. Blamed(id, what) \in Kind \cup Wrong
    BY DEF Blamed, Wrong
  <2>2. Now \in ConnType /\ Clean(Now) /\ Fed(Now)
    BY NowFacts DEF Base, Sound
  <2>3. Calm(Now, c, id)
    BY <2>1, <2>2, HeadersFacts
  <2>4. conn' = IF ended THEN EndStream(c, id, TRUE, len) ELSE c
    BY <1>1, <1>3
  <2> HIDE DEF c
  <2> QED BY <1>1, <2>3, <2>4, FrameFits
<1> QED BY <1>2, <1>3

\* The connection, with what it knows of a header block that is on its way.
Block(c, h, e) == [c EXCEPT !.headerStream = h, !.expected = e]

LEMMA BlockIsCalm ==
  ASSUME Base, NEW id \in StreamId, NEW h \in StreamId \cup {0}, NEW e \in BOOLEAN
  PROVE  LET d == Block(Now, h, e) IN
         /\ Calm(Now, d, id) /\ d.headerStream = h /\ d.expected = e /\ d.streams = conn.streams
         /\ d.closed = conn.closed /\ d.remaining = conn.remaining /\ d.last = conn.last
         /\ d.serverWindow = conn.serverWindow /\ d.requests = conn.requests
         /\ d.out = Silence /\ Taken(d) = Taken(conn)
<1> DEFINE d == Block(Now, h, e)
<1>1. /\ Now \in ConnType /\ Clean(Now) /\ Fed(Now) /\ Now.out = Silence
      /\ Now.streams = conn.streams /\ Now.closed = conn.closed
      /\ Now.remaining = conn.remaining /\ Now.last = conn.last
      /\ Now.serverWindow = conn.serverWindow /\ Now.requests = conn.requests
      /\ Taken(Now) = Taken(conn)
  BY NowFacts DEF Base, Sound
<1>2. /\ d \in ConnType /\ d.streams = Now.streams /\ d.remaining = Now.remaining
      /\ d.clientWindow = Now.clientWindow /\ d.initialWindow = Now.initialWindow
      /\ d.wrote = Now.wrote /\ d.out = Now.out /\ d.closed = Now.closed /\ d.last = Now.last
      /\ d.serverWindow = Now.serverWindow /\ d.requests = Now.requests
      /\ d.headerStream = h /\ d.expected = e
  BY <1>1 DEF ConnType, Block
<1> HIDE DEF d
<1>3. Held(d) = Held(Now) /\ \A i \in StreamId : Holds(d, i) <=> Holds(Now, i)
  BY <1>2 DEF Held, Holds
<1>4. Clean(d) /\ Fed(d) /\ Accounts(Now, d) /\ Taken(d) = Taken(Now)
  BY <1>1, <1>2, <1>3, SameAccounts DEF Clean, Fed, Taken
<1>5. Calm(Now, d, id)
  BY <1>2, <1>3, <1>4 DEF Calm, SameOut
<1> QED BY <1>1, <1>2, <1>4, <1>5 DEF d

LEMMA SplitHeadersFits ==
  ASSUME Base, NEW id \in StreamId, NEW ended \in BOOLEAN, NEW fits \in BOOLEAN,
         NEW len \in Length, SplitHeaders(id, ended, fits, len)
  PROVE  Good
<1>1. /\ ~conn.closed /\ Counts(0, 0)
      /\ conn' = IF conn.expected \/ Foreign(id) THEN Shutdown(Now)
                 ELSE LET c == [Now EXCEPT !.headerStream = id, !.expected = TRUE]
                      IN IF ended THEN EndStream(c, id, fits, len) ELSE c
  BY DEF SplitHeaders, Take
<1>2. CASE conn.expected \/ Foreign(id)
  BY <1>1, <1>2, ShutdownFits
<1>3. CASE ~(conn.expected \/ Foreign(id))
  <2> DEFINE c == Block(Now, id, TRUE)
  <2>1. Calm(Now, c, id)
    BY BlockIsCalm
  <2>2. conn' = IF ended THEN EndStream(c, id, fits, len) ELSE c
    BY <1>1, <1>3 DEF Block
  <2> HIDE DEF c
  <2> QED BY <1>1, <2>1, <2>2, FrameFits
<1> QED BY <1>2, <1>3

LEMMA ContinuationFits ==
  ASSUME Base, NEW id \in StreamId, NEW what \in Kind \cup Wrong, Continuation(id, what)
  PROVE  Good
<1> DEFINE b == Block(Now, 0, FALSE)
           c == HandleHeaders(b, id, FALSE, Blamed(id, what))
<1>1. /\ ~conn.closed /\ Counts(0, 0)
      /\ conn' = IF id # conn.headerStream THEN Shutdown(Now) ELSE c
  BY DEF Continuation, Block
<1>2. CASE id # conn.headerStream
  BY <1>1, <1>2, ShutdownFits
<1>3. CASE id = conn.headerStream
  <2>1. Blamed(id, what) \in Kind \cup Wrong
    BY DEF Blamed, Wrong
  <2>2. Calm(Now, b, id) /\ b.streams = conn.streams
    BY BlockIsCalm
  <2>3. Now \in ConnType /\ Now.streams = conn.streams
    BY NowFacts DEF Base, Sound
  <2> HIDE DEF b
  <2>4. Calm(b, c, id) /\ \A i \in StreamId : Holds(b, i) <=> Holds(Now, i)
    <3>1. b \in ConnType /\ Clean(b) /\ Fed(b)
      BY <2>2 DEF Calm
    <3>2. Calm(b, c, id)
      BY <2>1, <3>1, HeadersFacts
    <3> QED BY <2>2, <2>3, <3>2 DEF Holds
  <2>5. Silent(Now, c, id)
    <3>1. Accounts(Now, c)
      BY <2>2, <2>3, <2>4, ThroughAccounts DEF Calm
    <3>2. ASSUME NEW i \in StreamId PROVE SameOut(Now, c, i)
      <4>1. SameOut(Now, b, i) /\ SameOut(b, c, i)
        BY <2>2, <2>4 DEF Calm
      <4> QED BY <4>1 DEF SameOut
    <3>3. ASSUME NEW i \in StreamId, Holds(c, i)
          PROVE  IF Holds(Now, i) THEN c.streams[i].window = Now.streams[i].window
                 ELSE i = id /\ c.streams[i].window = Now.initialWindow
      BY <2>2, <2>4, <3>3 DEF Calm
    <3> QED BY <2>2, <2>4, <3>1, <3>2, <3>3 DEF Silent, Calm, Accounts
  <2>6. Poised(c) /\ conn' = c
    BY <1>1, <1>3, <2>5, SilentIsPoised DEF Base
  <2> QED BY <1>1, <2>6, AnswerFits DEF Good, Base
<1> QED BY <1>2, <1>3

LEMMA DataFits ==
  ASSUME Base, NEW id \in StreamId, NEW n \in Chunk \cup {0}, NEW ended \in BOOLEAN,
         NEW fits \in BOOLEAN, NEW len \in Length, Data(id, n, ended, fits, len)
  PROVE  Good
<1>1. /\ ~conn.closed /\ Counts(0, 0)
      /\ conn' = IF conn.expected THEN Shutdown(Now)
                 ELSE LET c == HandleData(Now, id, n)
                      IN IF ended THEN EndStream(c, id, fits, len) ELSE c
  BY DEF Data, Take
<1>2. CASE conn.expected
  BY <1>1, <1>2, ShutdownFits
<1>3. CASE ~conn.expected
  <2> DEFINE c == HandleData(Now, id, n)
  <2>1. Now \in ConnType /\ Clean(Now) /\ Fed(Now)
    BY NowFacts DEF Base, Sound
  <2>2. Calm(Now, c, id)
    BY <2>1, DataFacts
  <2>3. conn' = IF ended THEN EndStream(c, id, fits, len) ELSE c
    BY <1>1, <1>3
  <2> HIDE DEF c
  <2> QED BY <1>1, <2>2, <2>3, FrameFits
<1> QED BY <1>2, <1>3

\* No stream has anything left to send.
LEMMA NothingWaits ==
  ASSUME NEW c, Clean(c)
  PROVE  SendBuffered(c) = c
<1>1. {id \in Held(c) : c.streams[id].buffer > 0} = {}
  BY DEF Clean, Held
<1> QED BY <1>1 DEF SendBuffered

\* An increment for a stream that is gone is an increment for none.
LEMMA CountsGone ==
  ASSUME Base, conn' \in ConnType, NEW id \in StreamId, NEW inc, Counts(id, inc), ~Holds(conn', id)
  PROVE  Counts(0, 0)
<1>1. id # 0 /\ 0 \notin StreamId
  BY Http2Assumption
<1>2. allowed' = allowed - conn'.wrote + 0
  BY <1>1 DEF Counts
<1>3. credit' = [i \in StreamId |->
                   IF ~Holds(conn', i) THEN 0
                   ELSE credit[i] - conn'.out[i].data + IF i = id THEN inc ELSE 0]
  BY DEF Counts
<1>4. credit' = [i \in StreamId |->
                   IF ~Holds(conn', i) THEN 0
                   ELSE credit[i] - conn'.out[i].data + IF i = 0 THEN 0 ELSE 0]
  BY <1>1, <1>3
<1> QED BY <1>2, <1>4 DEF Counts

\* The window of a stream that has grown.
Grown(c, id, inc) == [c EXCEPT !.streams[id].window = @ + inc]

LEMMA GrownFacts ==
  ASSUME NEW c \in ConnType, NEW id \in StreamId, NEW inc \in Nat
  PROVE  LET d == Grown(c, id, inc) IN
         /\ d \in ConnType /\ SameRest(c, d) /\ d.out = c.out /\ d.remaining = c.remaining
         /\ \A other \in StreamId \ {id} : d.streams[other] = c.streams[other]
         /\ d.streams[id].window = c.streams[id].window + inc
         /\ d.streams[id].received = c.streams[id].received
         /\ d.streams[id].serverWindow = c.streams[id].serverWindow
         /\ d.streams[id].held = c.streams[id].held
         /\ d.streams[id].buffer = c.streams[id].buffer
         /\ d.streams[id].remoteClosed = c.streams[id].remoteClosed
         /\ d.streams[id].localClosed = c.streams[id].localClosed
<1> DEFINE s == c.streams[id]
           t == [s EXCEPT !.window = s.window + inc]
           d == Grown(c, id, inc)
<1>1. s \in StreamType
  BY DEF ConnType
<1>2. d = [c EXCEPT !.streams = [c.streams EXCEPT ![id] = t]]
  BY DEF Grown, ConnType
<1> HIDE DEF s, d
<1>3. /\ t \in StreamType /\ t.received = s.received /\ t.serverWindow = s.serverWindow
      /\ t.window = s.window + inc /\ t.held = s.held /\ t.buffer = s.buffer
      /\ t.remoteClosed = s.remoteClosed /\ t.localClosed = s.localClosed
  BY <1>1 DEF StreamType
<1> HIDE DEF t
<1>4. [c.streams EXCEPT ![id] = t] \in [StreamId -> StreamType]
  BY <1>3 DEF ConnType
<1>5. /\ d \in ConnType /\ SameRest(c, d) /\ d.out = c.out /\ d.remaining = c.remaining
      /\ d.streams = [c.streams EXCEPT ![id] = t]
  BY <1>2, <1>4 DEF ConnType, SameRest
<1>6. d.streams[id] = t /\ \A other \in StreamId \ {id} : d.streams[other] = c.streams[other]
  BY <1>5 DEF ConnType
<1> QED BY <1>3, <1>5, <1>6 DEF d, s

\* What handleStreamWindowIncrement makes of the connection.
StreamUpdated(id, inc) ==
  IF Unknown(conn, id) THEN Shutdown(Now)
  ELSE IF ~Holds(conn, id) THEN Now
  ELSE IF conn.streams[id].window + inc > MaxWindow THEN Reset(Now, id)
  ELSE Grown(Now, id, inc)

LEMMA StreamUpdateIs ==
  ASSUME Base, NEW id \in StreamId, NEW inc \in Increment, StreamUpdate(id, inc)
  PROVE  /\ ~conn.closed /\ Counts(id, inc) /\ Hears(peer)
         /\ conn' = IF conn.expected THEN Shutdown(Now) ELSE StreamUpdated(id, inc)
<1>1. Clean(Grown(Now, id, inc))
  <2>1. Now \in ConnType /\ Clean(Now) /\ inc \in Nat
    BY NowFacts, Http2Assumption DEF Base, Sound
  <2> DEFINE d == Grown(Now, id, inc)
  <2>2. /\ \A other \in StreamId \ {id} : d.streams[other] = Now.streams[other]
        /\ d.streams[id].buffer = Now.streams[id].buffer
        /\ d.streams[id].remoteClosed = Now.streams[id].remoteClosed
        /\ d.streams[id].localClosed = Now.streams[id].localClosed
    BY <2>1, GrownFacts
  <2> HIDE DEF d
  <2>3. Clean(d)
    BY <2>1, <2>2 DEF Clean
  <2> QED BY <2>3 DEF d
<1>2. SendBuffered(Grown(Now, id, inc)) = Grown(Now, id, inc)
  BY <1>1, NothingWaits
<1>3. SendBuffered([Now EXCEPT !.streams[id].window = @ + inc]) = Grown(Now, id, inc)
  BY <1>2 DEF Grown
<1> QED BY <1>3 DEF StreamUpdate, StreamUpdated, Take

LEMMA StreamUpdateFits ==
  ASSUME Base, NEW id \in StreamId, NEW inc \in Increment, StreamUpdate(id, inc)
  PROVE  Good
<1> DEFINE d == Grown(Now, id, inc)
<1>1. /\ ~conn.closed /\ Counts(id, inc)
      /\ conn' = IF conn.expected THEN Shutdown(Now) ELSE StreamUpdated(id, inc)
  BY StreamUpdateIs
<1>2. /\ Now \in ConnType /\ Clean(Now) /\ Fed(Now) /\ Now.wrote = 0 /\ Now.streams = conn.streams
      /\ Taken(Now) = Taken(conn) /\ Now.closed = conn.closed
      /\ Now.clientWindow = conn.clientWindow /\ Now.initialWindow = conn.initialWindow
      /\ \A i \in StreamId : Holds(Now, i) <=> Holds(conn, i)
      /\ \A i \in StreamId : Now.out[i] = Nothing
  BY NowFacts DEF Base, Sound
<1>3. inc \in Nat /\ id # 0
  BY Http2Assumption
<1>4. CASE conn' = Shutdown(Now)
  BY <1>1, <1>3, <1>4, ShutdownFits
<1>5. ASSUME NEW c, Calm(Now, c, id), conn' = c, ~Holds(c, id)
      PROVE  Good
  <2>1. Counts(0, 0)
    BY <1>1, <1>5, CountsGone DEF Calm
  <2>2. Poised(c)
    BY <1>1, <1>5, CalmIsSilent, SilentIsPoised DEF Base
  <2> QED BY <1>5, <2>1, <2>2, AnswerFits DEF Good, Base
<1>6. CASE conn' = Now /\ ~Holds(conn, id)
  <2>1. Calm(Now, Now, id)
    BY <1>2, SameIsCalm
  <2> QED BY <1>2, <1>5, <1>6, <2>1
<1>7. CASE conn' = Reset(Now, id) /\ Holds(conn, id)
  <2>1. Calm(Now, Reset(Now, id), id) /\ ~Holds(Reset(Now, id), id)
    BY <1>2, ResetIsCalm, ResetOpensNothing
  <2> QED BY <1>5, <1>7, <2>1
<1>8. CASE conn' = d /\ Holds(conn, id)
  <2>1. /\ d \in ConnType /\ SameRest(Now, d) /\ d.out = Now.out /\ d.remaining = Now.remaining
        /\ \A other \in StreamId \ {id} : d.streams[other] = Now.streams[other]
        /\ d.streams[id].window = Now.streams[id].window + inc
        /\ d.streams[id].received = Now.streams[id].received
        /\ d.streams[id].serverWindow = Now.streams[id].serverWindow
        /\ d.streams[id].held = Now.streams[id].held
        /\ d.streams[id].buffer = Now.streams[id].buffer
        /\ d.streams[id].remoteClosed = Now.streams[id].remoteClosed
        /\ d.streams[id].localClosed = Now.streams[id].localClosed
    BY <1>2, <1>3, GrownFacts
  <2> HIDE DEF d
  <2>2. /\ \A i \in StreamId : Holds(d, i) <=> Holds(conn, i)
        /\ Held(d) = Held(Now)
    BY <1>2, <2>1 DEF Holds, Held
  <2>3. Clean(d) /\ Fed(d) /\ Taken(d) = Taken(conn)
    <3>1. Clean(d)
      BY <1>2, <2>1 DEF Clean
    <3>2. Taken(d) = Taken(conn)
      BY <1>2, <2>1, <2>2 DEF Taken
    <3>3. ASSUME NEW i \in StreamId, Holds(d, i)
          PROVE  /\ Holds(Now, i) /\ d.streams[i].received = Now.streams[i].received
                 /\ d.streams[i].serverWindow = Now.streams[i].serverWindow
      BY <1>2, <2>1, <2>2, <3>3
    <3> QED BY <1>2, <3>1, <3>2, <3>3 DEF Fed
  <2>4. d.wrote = 0 /\ \A i \in StreamId : d.out[i].data = 0 /\ d.out[i].ends = 0
    BY <1>2, <2>1 DEF SameRest, Nothing
  <2>5. allowed \in Int /\ credit \in [StreamId -> Int]
    BY DEF Base, TypeOK
  <2>6. allowed' = allowed
    BY <1>1, <1>3, <1>8, <2>4, <2>5 DEF Counts
  <2>7. credit' = [i \in StreamId |-> IF ~Holds(d, i) THEN 0
                                      ELSE credit[i] - 0 + IF i = id THEN inc ELSE 0]
    BY <1>1, <1>8, <2>4 DEF Counts
  <2>8. credit' \in [StreamId -> Int]
    BY <1>3, <2>5, <2>7
  <2>9. Sound(d)
    BY <1>2, <2>1, <2>3 DEF Sound, Base, SameRest
  <2>10. Balanced(d, allowed', credit')
    <3>1. d.clientWindow = allowed'
      BY <1>1, <1>2, <2>1, <2>6 DEF Base, Balanced, SameRest
    <3>2. ASSUME NEW i \in StreamId, Holds(d, i)
          PROVE  credit'[i] >= 0 /\ d.streams[i].window = d.initialWindow + credit'[i]
      <4>1. credit[i] >= 0 /\ Now.streams[i].window = d.initialWindow + credit[i]
        BY <1>2, <2>1, <2>2, <3>2 DEF Base, Balanced, SameRest
      <4>2. credit[i] \in Int /\ d.initialWindow \in Int
        BY <2>1, <2>5 DEF ConnType
      <4>3. CASE i = id
        <5>1. credit'[i] = credit[i] + inc /\ d.streams[i].window = Now.streams[i].window + inc
          BY <2>1, <2>7, <3>2, <4>2, <4>3
        <5> QED BY <1>3, <4>1, <4>2, <5>1
      <4>4. CASE i # id
        <5>1. credit'[i] = credit[i] /\ d.streams[i] = Now.streams[i]
          BY <2>1, <2>7, <3>2, <4>2, <4>4
        <5> QED BY <4>1, <5>1
      <4> QED BY <4>3, <4>4
    <3>3. ASSUME NEW i \in StreamId, ~Holds(d, i) PROVE credit'[i] = 0
      BY <2>7, <3>3
    <3> QED BY <3>1, <3>2, <3>3 DEF Balanced
  <2>11. \A i \in StreamId : Fits(i)
    BY <1>8, <2>4 DEF Fits, d
  <2> QED BY <1>8, <2>5, <2>6, <2>8, <2>9, <2>10, <2>11 DEF Good, d
<1> QED BY <1>1, <1>4, <1>6, <1>7, <1>8 DEF StreamUpdated

\* The window of the connection that has grown, and windows that were set.
Widened(c, inc) == [c EXCEPT !.clientWindow = @ + inc]

Shifted(s, by) == IF s.held THEN [s EXCEPT !.window = s.window + by] ELSE s

Set(c, value) ==
  [c EXCEPT !.initialWindow = value,
            !.streams = [id \in StreamId |-> Shifted(c.streams[id], value - c.initialWindow)]]

LEMMA WidenedFacts ==
  ASSUME NEW c \in ConnType, NEW inc \in Nat
  PROVE  LET d == Widened(c, inc) IN
         /\ d \in ConnType /\ d.streams = c.streams /\ d.remaining = c.remaining /\ d.out = c.out
         /\ d.wrote = c.wrote /\ d.clientWindow = c.clientWindow + inc /\ d.closed = c.closed
         /\ d.initialWindow = c.initialWindow
         /\ d.serverWindow = c.serverWindow /\ d.last = c.last /\ d.requests = c.requests
         /\ d.headerStream = c.headerStream /\ d.expected = c.expected
         /\ Held(d) = Held(c) /\ Taken(d) = Taken(c) /\ (Clean(c) => Clean(d))
         /\ (Fed(c) => Fed(d))
<1> DEFINE d == Widened(c, inc)
<1>1. /\ d \in ConnType /\ d.streams = c.streams /\ d.remaining = c.remaining /\ d.out = c.out
      /\ d.wrote = c.wrote /\ d.clientWindow = c.clientWindow + inc /\ d.closed = c.closed
      /\ d.initialWindow = c.initialWindow
      /\ d.serverWindow = c.serverWindow /\ d.last = c.last /\ d.requests = c.requests
      /\ d.headerStream = c.headerStream /\ d.expected = c.expected
  BY DEF Widened, ConnType
<1> HIDE DEF d
<1>2. Held(d) = Held(c) /\ \A id \in StreamId : Holds(d, id) <=> Holds(c, id)
  BY <1>1 DEF Held, Holds
<1>3. Taken(d) = Taken(c) /\ (Clean(c) => Clean(d)) /\ (Fed(c) => Fed(d))
  BY <1>1, <1>2 DEF Taken, Clean, Fed
<1> QED BY <1>1, <1>2, <1>3 DEF d

LEMMA ShiftedFacts ==
  ASSUME NEW s \in StreamType, NEW by \in Int
  PROVE  LET t == Shifted(s, by) IN
         /\ t \in StreamType /\ t.received = s.received /\ t.serverWindow = s.serverWindow
         /\ t.window = (IF s.held THEN s.window + by ELSE s.window) /\ (t.held <=> s.held)
         /\ t.buffer = s.buffer /\ (t.remoteClosed <=> s.remoteClosed)
         /\ (t.localClosed <=> s.localClosed)
<1>1. CASE s.held
  BY <1>1 DEF Shifted, StreamType
<1>2. CASE ~s.held
  BY <1>2 DEF Shifted
<1> QED BY <1>1, <1>2

LEMMA SetFacts ==
  ASSUME NEW c \in ConnType, NEW value \in Nat
  PROVE  LET d == Set(c, value) IN
         /\ d \in ConnType /\ d.remaining = c.remaining /\ d.out = c.out
         /\ d.wrote = c.wrote /\ d.clientWindow = c.clientWindow /\ d.closed = c.closed
         /\ d.initialWindow = value
         /\ d.serverWindow = c.serverWindow /\ d.last = c.last /\ d.requests = c.requests
         /\ d.headerStream = c.headerStream /\ d.expected = c.expected
         /\ \A id \in StreamId : Holds(d, id) <=> Holds(c, id)
         /\ Held(d) = Held(c) /\ Taken(d) = Taken(c) /\ (Clean(c) => Clean(d))
         /\ (Fed(c) => Fed(d))
         /\ \A id \in StreamId : Holds(c, id) =>
              d.streams[id].window = c.streams[id].window + (value - c.initialWindow)
<1> DEFINE d == Set(c, value)
           by == value - c.initialWindow
           streams == [id \in StreamId |-> Shifted(c.streams[id], by)]
<1>1. by \in Int
  BY DEF ConnType
<1> HIDE DEF by
<1>2. ASSUME NEW id \in StreamId
      PROVE  /\ streams[id] \in StreamType /\ streams[id].received = c.streams[id].received
             /\ streams[id].serverWindow = c.streams[id].serverWindow
             /\ streams[id].held <=> c.streams[id].held
             /\ streams[id].buffer = c.streams[id].buffer
             /\ streams[id].remoteClosed <=> c.streams[id].remoteClosed
             /\ streams[id].localClosed <=> c.streams[id].localClosed
             /\ c.streams[id].held => streams[id].window = c.streams[id].window + by
  <2>1. c.streams[id] \in StreamType /\ streams[id] = Shifted(c.streams[id], by)
    BY DEF ConnType
  <2> HIDE DEF streams
  <2> QED BY <1>1, <2>1, ShiftedFacts
<1>3. streams \in [StreamId -> StreamType]
  BY <1>2
<1>4. d = [c EXCEPT !.initialWindow = value, !.streams = streams]
  BY DEF Set, by
<1> HIDE DEF streams, d
<1>5. /\ d \in ConnType /\ d.streams = streams /\ d.remaining = c.remaining /\ d.out = c.out
      /\ d.wrote = c.wrote /\ d.clientWindow = c.clientWindow /\ d.closed = c.closed
      /\ d.initialWindow = value
      /\ d.serverWindow = c.serverWindow /\ d.last = c.last /\ d.requests = c.requests
      /\ d.headerStream = c.headerStream /\ d.expected = c.expected
  BY <1>3, <1>4 DEF ConnType
<1>6. \A id \in StreamId : Holds(d, id) <=> Holds(c, id)
  BY <1>2, <1>5 DEF Holds
<1>7. Held(d) = Held(c) /\ Taken(d) = Taken(c)
  BY <1>5, <1>6 DEF Held, Taken
<1>8. Clean(c) => Clean(d)
  BY <1>2, <1>5 DEF Clean
<1>9. ASSUME Fed(c), NEW id \in StreamId, Holds(d, id)
      PROVE  /\ Holds(c, id) /\ d.streams[id].received = c.streams[id].received
             /\ d.streams[id].serverWindow = c.streams[id].serverWindow
  BY <1>2, <1>5, <1>6, <1>9
<1>10. Fed(c) => Fed(d)
  BY <1>9 DEF Fed
<1>11. \A id \in StreamId : Holds(c, id) => d.streams[id].window = c.streams[id].window + by
  BY <1>2, <1>5 DEF Holds
<1> QED BY <1>5, <1>6, <1>7, <1>8, <1>10, <1>11 DEF d, by

LEMMA ConnectionUpdateIs ==
  ASSUME Base, NEW inc \in Increment, ConnectionUpdate(inc)
  PROVE  /\ ~conn.closed /\ Counts(0, inc) /\ Hears(peer)
         /\ conn' = IF conn.expected \/ conn.clientWindow + inc > MaxWindow THEN Shutdown(Now)
                    ELSE Widened(Now, inc)
<1>1. Now \in ConnType /\ Clean(Now) /\ inc \in Nat
  BY NowFacts, Http2Assumption DEF Base, Sound
<1>2. Clean(Widened(Now, inc))
  BY <1>1, WidenedFacts
<1>3. SendBuffered(Widened(Now, inc)) = Widened(Now, inc)
  BY <1>2, NothingWaits
<1>4. SendBuffered([Now EXCEPT !.clientWindow = @ + inc]) = Widened(Now, inc)
  BY <1>3 DEF Widened
<1> QED BY <1>4 DEF ConnectionUpdate, Take

LEMMA ConnectionUpdateFits ==
  ASSUME Base, NEW inc \in Increment, ConnectionUpdate(inc)
  PROVE  Good
<1> DEFINE d == Widened(Now, inc)
<1>1. /\ ~conn.closed /\ Counts(0, inc)
      /\ conn' = IF conn.expected \/ conn.clientWindow + inc > MaxWindow THEN Shutdown(Now) ELSE d
  BY ConnectionUpdateIs
<1>2. /\ Now \in ConnType /\ Clean(Now) /\ Fed(Now) /\ Now.wrote = 0 /\ Now.streams = conn.streams
      /\ Taken(Now) = Taken(conn) /\ Now.closed = conn.closed
      /\ Now.clientWindow = conn.clientWindow /\ Now.initialWindow = conn.initialWindow
      /\ \A i \in StreamId : Now.out[i] = Nothing
  BY NowFacts DEF Base, Sound
<1>3. inc \in Nat /\ 0 \notin StreamId
  BY Http2Assumption
<1>4. CASE conn' = Shutdown(Now)
  BY <1>1, <1>3, <1>4, ShutdownFits
<1>5. CASE conn' = d
  <2>1. /\ d \in ConnType /\ d.streams = Now.streams /\ d.out = Now.out
        /\ d.wrote = Now.wrote /\ d.clientWindow = Now.clientWindow + inc
        /\ d.closed = Now.closed /\ d.initialWindow = Now.initialWindow
        /\ Taken(d) = Taken(Now) /\ Clean(d) /\ Fed(d)
    BY <1>2, <1>3, WidenedFacts
  <2> HIDE DEF d
  <2>2. allowed \in Int /\ credit \in [StreamId -> Int] /\ allowed = conn.clientWindow
    BY <1>1 DEF Base, TypeOK, Balanced
  <2>3. d.wrote = 0 /\ \A i \in StreamId : d.out[i].data = 0 /\ d.out[i].ends = 0
    BY <1>2, <2>1 DEF Nothing
  <2>4. allowed' = allowed + inc
    BY <1>1, <1>3, <1>5, <2>2, <2>3 DEF Counts
  <2>5. credit' = [i \in StreamId |-> IF ~Holds(d, i) THEN 0 ELSE credit[i]]
    <3>1. credit' = [i \in StreamId |-> IF ~Holds(d, i) THEN 0 ELSE credit[i] - 0 + 0]
      BY <1>1, <1>3, <1>5, <2>3 DEF Counts
    <3> QED BY <2>2, <3>1
  <2>6. \A i \in StreamId : Holds(d, i) <=> Holds(conn, i)
    BY <1>2, <2>1 DEF Holds
  <2>7. Sound(d)
    BY <1>2, <1>3, <2>1, <2>2 DEF Sound, Base
  <2>8. Balanced(d, allowed', credit')
    BY <1>2, <2>1, <2>2, <2>4, <2>5, <2>6 DEF Balanced, Base
  <2>9. \A i \in StreamId : Fits(i)
    BY <1>5, <2>3 DEF Fits, d
  <2> QED BY <1>3, <1>5, <2>2, <2>4, <2>5, <2>7, <2>8, <2>9 DEF Good, d
<1> QED BY <1>1, <1>4, <1>5

LEMMA SettingsIs ==
  ASSUME Base, NEW value \in Setting, Settings(value)
  PROVE  /\ ~conn.closed /\ Counts(0, 0) /\ Hears(peer)
         /\ conn' = IF conn.expected \/ value > MaxWindow THEN Shutdown(Now)
                    ELSE Set(Now, value)
<1> DEFINE streams == [id \in StreamId |->
                         IF Holds(conn, id)
                         THEN [conn.streams[id] EXCEPT !.window = @ + value - conn.initialWindow]
                         ELSE conn.streams[id]]
           shifted == [id \in StreamId |-> Shifted(Now.streams[id], value - Now.initialWindow)]
<1>1. /\ Now \in ConnType /\ Clean(Now) /\ value \in Nat
      /\ Now.streams = conn.streams /\ Now.initialWindow = conn.initialWindow
      /\ conn \in ConnType
  BY NowFacts, Http2Assumption DEF Base, Sound
<1>2. Clean(Set(Now, value))
  BY <1>1, SetFacts
<1>3. SendBuffered(Set(Now, value)) = Set(Now, value)
  BY <1>2, NothingWaits
<1>4. ASSUME NEW id \in StreamId
      PROVE  (IF Holds(conn, id)
              THEN [conn.streams[id] EXCEPT !.window = @ + value - conn.initialWindow]
              ELSE conn.streams[id])
             = Shifted(Now.streams[id], value - Now.initialWindow)
  <2>1. /\ conn.streams[id] \in StreamType /\ conn.streams[id].window \in Int
        /\ conn.initialWindow \in Int
    BY <1>1 DEF ConnType, StreamType
  <2>2. conn.streams[id].window + value - conn.initialWindow
          = conn.streams[id].window + (value - conn.initialWindow)
    BY <1>1, <2>1
  <2>3. CASE Holds(conn, id)
    <3>1. [conn.streams[id] EXCEPT !.window = @ + value - conn.initialWindow]
            = [conn.streams[id] EXCEPT !.window = conn.streams[id].window
                                                    + (value - conn.initialWindow)]
      BY <2>1, <2>2 DEF StreamType
    <3> QED BY <1>1, <2>3, <3>1 DEF Shifted, Holds
  <2>4. CASE ~Holds(conn, id)
    BY <1>1, <2>4 DEF Shifted, Holds
  <2> QED BY <2>3, <2>4
<1>5. streams = shifted
  BY <1>4
<1>6. Set(Now, value) = [Now EXCEPT !.initialWindow = value, !.streams = shifted]
  BY DEF Set
<1>7. conn' = IF conn.expected THEN Shutdown(Now)
              ELSE IF value > MaxWindow THEN Shutdown(Now)
              ELSE SendBuffered([Now EXCEPT !.initialWindow = value, !.streams = streams])
  BY DEF Settings, Take
<1> HIDE DEF streams, shifted
<1>8. conn' = IF conn.expected THEN Shutdown(Now)
              ELSE IF value > MaxWindow THEN Shutdown(Now) ELSE Set(Now, value)
  BY <1>3, <1>5, <1>6, <1>7
<1> QED BY <1>8 DEF Settings, Take

LEMMA SettingsFits ==
  ASSUME Base, NEW value \in Setting, Settings(value)
  PROVE  Good
<1> DEFINE d == Set(Now, value)
<1>1. /\ ~conn.closed /\ Counts(0, 0)
      /\ conn' = IF conn.expected \/ value > MaxWindow THEN Shutdown(Now) ELSE d
  BY SettingsIs
<1>2. /\ Now \in ConnType /\ Clean(Now) /\ Fed(Now) /\ Now.wrote = 0 /\ Now.streams = conn.streams
      /\ Taken(Now) = Taken(conn) /\ Now.closed = conn.closed
      /\ Now.clientWindow = conn.clientWindow /\ Now.initialWindow = conn.initialWindow
      /\ \A i \in StreamId : Holds(Now, i) <=> Holds(conn, i)
      /\ \A i \in StreamId : Now.out[i] = Nothing
  BY NowFacts DEF Base, Sound
<1>3. value \in Nat /\ 0 \notin StreamId
  BY Http2Assumption
<1>4. CASE conn' = Shutdown(Now)
  BY <1>1, <1>4, ShutdownFits
<1>5. CASE conn' = d
  <2>1. /\ d \in ConnType /\ d.out = Now.out /\ d.wrote = Now.wrote
        /\ d.clientWindow = Now.clientWindow /\ d.initialWindow = value
        /\ Taken(d) = Taken(Now) /\ Clean(d) /\ Fed(d)
        /\ \A i \in StreamId : Holds(d, i) <=> Holds(Now, i)
        /\ \A i \in StreamId : Holds(Now, i) =>
             d.streams[i].window = Now.streams[i].window + (value - Now.initialWindow)
    BY <1>2, <1>3, SetFacts
  <2> HIDE DEF d
  <2>2. allowed \in Int /\ credit \in [StreamId -> Int]
    BY DEF Base, TypeOK
  <2>3. d.wrote = 0 /\ \A i \in StreamId : d.out[i].data = 0 /\ d.out[i].ends = 0
    BY <1>2, <2>1 DEF Nothing
  <2>4. Sound(d)
    BY <1>2, <2>1 DEF Sound, Base
  <2>5. ASSUME NEW i \in StreamId, Holds(d, i)
        PROVE  d.streams[i].window = d.initialWindow + credit[i]
    <3>1. Now.streams[i].window = conn.initialWindow + credit[i]
      BY <1>2, <2>1, <2>5 DEF Base, Balanced
    <3>2. credit[i] \in Int /\ conn.initialWindow \in Int
      BY <2>2 DEF Base, Sound, ConnType
    <3> QED BY <1>2, <1>3, <2>1, <2>5, <3>1, <3>2
  <2>6. Poised(d)
    <3>1. d.clientWindow = allowed /\ \A i \in StreamId : credit[i] >= 0
      BY <1>1, <1>2, <2>1, <2>2 DEF Base, Balanced
    <3> QED BY <2>1, <2>3, <2>4, <2>5, <3>1 DEF Poised, Sound
  <2> QED BY <1>1, <1>5, <2>6, AnyAnswerFits DEF Base, d
<1> QED BY <1>1, <1>4, <1>5

LEMMA PriorityFits ==
  ASSUME Base, NEW id \in StreamId, Priority(id)
  PROVE  Good
<1>1. /\ ~conn.closed /\ Counts(0, 0)
      /\ conn' = IF conn.expected THEN Shutdown(Now)
                 ELSE IF Holds(conn, id) THEN Now
                 ELSE IF conn.remaining <= 0 THEN Shutdown(Now)
                 ELSE IF id <= conn.last THEN [Now EXCEPT !.remaining = @ - 1]
                 ELSE Open(Now, id)
  BY DEF Priority, Take
<1>2. /\ Now \in ConnType /\ Clean(Now) /\ Fed(Now) /\ Taken(Now) \in Int
      /\ \A i \in StreamId : Holds(Now, i) <=> Holds(conn, i)
  BY NowFacts, TakenType DEF Base, Sound
<1>3. CASE conn' = Shutdown(Now)
  BY <1>1, <1>3, ShutdownFits
<1>4. ASSUME Silent(Now, conn', id)
      PROVE  Good
  BY <1>1, <1>4, SilentIsPoised, AnyAnswerFits DEF Base
<1>5. CASE conn' = Now
  BY <1>2, <1>4, <1>5, SameIsCalm, CalmIsSilent
<1>6. CASE conn' = [Now EXCEPT !.remaining = @ - 1]
  <2> DEFINE d == [Now EXCEPT !.remaining = @ - 1]
  <2>1. /\ d \in ConnType /\ SameRest(Now, d) /\ d.streams = Now.streams /\ d.out = Now.out
        /\ d.remaining = Now.remaining - 1 /\ Now.remaining \in Int
    BY <1>2 DEF ConnType, SameRest
  <2> HIDE DEF d
  <2>2. Held(d) = Held(Now) /\ \A i \in StreamId : Holds(d, i) <=> Holds(Now, i)
    BY <2>1 DEF Held, Holds
  <2>3. Cardinality(Held(Now)) \in Int
    BY StreamsFinite DEF Held
  <2>4. Taken(d) <= Taken(Now) /\ Clean(d) /\ Fed(d)
    BY <1>2, <2>1, <2>2, <2>3 DEF Taken, Clean, Fed
  <2>5. Silent(Now, d, id)
    BY <2>1, <2>2, <2>4 DEF Silent, SameRest, SameOut
  <2> QED BY <1>4, <1>6, <2>5 DEF d
<1>7. CASE conn' = Open(Now, id)
  <2> DEFINE d == Open(Now, id)
  <2>1. /\ d \in ConnType /\ Clean(d) /\ Fed(d) /\ Taken(d) = Taken(Now)
        /\ SameRest(Now, d) /\ d.out = Now.out
        /\ \A other \in StreamId \ {id} : d.streams[other] = Now.streams[other]
        /\ IF Holds(Now, id) THEN d = Now ELSE d.streams[id] = NewStream(Now.initialWindow)
    BY <1>2, OpenIsCalm
  <2> HIDE DEF d
  <2>2. NewStream(Now.initialWindow).window = Now.initialWindow
    BY <1>2, StreamFacts DEF ConnType
  <2>3. ASSUME NEW i \in StreamId, Holds(d, i)
        PROVE  IF Holds(Now, i) THEN d.streams[i].window = Now.streams[i].window
               ELSE i = id /\ d.streams[i].window = Now.initialWindow
    BY <2>1, <2>2, <2>3 DEF Holds
  <2>4. Silent(Now, d, id)
    BY <1>2, <2>1, <2>3 DEF Silent, SameRest, SameOut
  <2> QED BY <1>4, <1>7, <2>4 DEF d
<1> QED BY <1>1, <1>3, <1>5, <1>6, <1>7

LEMMA ReleaseIsCalm ==
  ASSUME NEW c \in ConnType, NEW id \in StreamId, Clean(c), Fed(c)
  PROVE  Calm(c, Release(c, id), id) /\ ~Holds(Release(c, id), id)
<1> DEFINE d == Release(c, id)
<1>1. /\ d \in ConnType /\ SameRest(c, d) /\ d.out = c.out
      /\ IF Holds(c, id)
         THEN /\ d.streams = [c.streams EXCEPT ![id] = Gone]
              /\ d.remaining = c.remaining + Slot(id)
         ELSE d = c
  BY ReleaseFacts
<1> HIDE DEF d
<1>2. CASE ~Holds(c, id)
  BY <1>1, <1>2, SameIsCalm DEF d
<1>3. CASE Holds(c, id)
  <2>1. /\ Clean(d) /\ ~Holds(d, id)
        /\ \A other \in StreamId :
             Holds(d, other) => d.streams[other] = c.streams[other] /\ Holds(c, other)
    BY <1>1, <1>3, GoneIsClean
  <2>2. Fed(d) /\ Accounts(c, d)
    BY <1>1, <1>3, <2>1, GoneIsFed, DropAccounts
  <2>3. Calm(c, d, id)
    BY <1>1, <2>1, <2>2 DEF Calm, SameRest, SameOut
  <2> QED BY <2>1, <2>3 DEF d
<1> QED BY <1>2, <1>3

LEMMA RstStreamFits ==
  ASSUME Base, NEW id \in StreamId, RstStream(id)
  PROVE  Good
<1>1. /\ ~conn.closed /\ Counts(0, 0)
      /\ conn' = IF conn.expected THEN Shutdown(Now) ELSE Release(Now, id)
  BY DEF RstStream, Take, Forget
<1>2. Now \in ConnType /\ Clean(Now) /\ Fed(Now)
  BY NowFacts DEF Base, Sound
<1>3. CASE conn.expected
  BY <1>1, <1>3, ShutdownFits
<1>4. CASE ~conn.expected
  BY <1>1, <1>2, <1>4, ReleaseIsCalm, CalmIsSilent, SilentIsPoised, AnyAnswerFits DEF Base
<1> QED BY <1>3, <1>4

LEMMA GoAwayFits == ASSUME Base, GoAway PROVE Good
BY ShutdownFits DEF GoAway, Take

LEMMA InitFacts ==
  ASSUME Init
  PROVE  /\ conn \in ConnType /\ Clean(conn) /\ Fed(conn) /\ Taken(conn) = Limit
         /\ \A id \in StreamId : ~Holds(conn, id) /\ conn.out[id] = Nothing
         /\ ~conn.closed /\ conn.wrote = 0 /\ conn.remaining = Limit
         /\ conn.clientWindow = DefaultWindow /\ conn.initialWindow = DefaultWindow
         /\ conn.serverWindow = DefaultWindow /\ conn.last = 0
         /\ conn.headerStream = 0 /\ ~conn.expected
         /\ allowed = DefaultWindow /\ \A id \in StreamId : credit[id] = 0
<1>1. DefaultWindow \in Nat /\ Limit \in Nat
  BY Http2Assumption
<1>2. [id \in StreamId |-> Gone] \in [StreamId -> StreamType]
  BY StreamFacts
<1>3. Silence \in [StreamId -> OutType] /\ \A id \in StreamId : Silence[id] = Nothing
  BY DEF Silence, Nothing, OutType
<1>4. [id \in StreamId |-> "none"] \in [StreamId -> Kind \cup {"none"}]
  OBVIOUS
<1> DEFINE c == [closed |-> FALSE,
                 clientWindow |-> DefaultWindow, initialWindow |-> DefaultWindow,
                 serverWindow |-> DefaultWindow, remaining |-> Limit, last |-> 0,
                 streams |-> [id \in StreamId |-> Gone],
                 requests |-> [id \in StreamId |-> "none"],
                 headerStream |-> 0, expected |-> FALSE,
                 wrote |-> 0, out |-> Silence]
<1>5. conn = c
  BY DEF Init
<1>6. c \in ConnType
  BY <1>1, <1>2, <1>3, <1>4 DEF ConnType
<1>7. /\ conn.streams = [id \in StreamId |-> Gone] /\ conn.out = Silence
      /\ ~conn.closed /\ conn.wrote = 0 /\ conn.remaining = Limit
      /\ conn.clientWindow = DefaultWindow /\ conn.initialWindow = DefaultWindow
      /\ conn.serverWindow = DefaultWindow /\ conn.last = 0
      /\ conn.headerStream = 0 /\ ~conn.expected
  BY <1>5
<1>8. \A id \in StreamId : ~Holds(conn, id) /\ conn.streams[id] = Gone
  BY <1>7, StreamFacts DEF Holds
<1>9. Held(conn) = {} /\ Cardinality(Held(conn)) = 0
  BY <1>8, FS_EmptySet DEF Held
<1>10. Taken(conn) = Limit
  BY <1>1, <1>7, <1>9 DEF Taken
<1>11. Clean(conn) /\ Fed(conn)
  BY <1>8, StreamFacts DEF Clean, Fed
<1>12. allowed = DefaultWindow /\ \A id \in StreamId : credit[id] = 0
  BY DEF Init
<1> QED BY <1>3, <1>5, <1>6, <1>7, <1>8, <1>10, <1>11, <1>12

LEMMA PrefaceFits ==
  ASSUME Base, Preface
  PROVE  Good
<1>1. Init /\ conn' = conn /\ allowed' = allowed /\ credit' = credit
  BY DEF Base, Preface
<1>2. /\ conn \in ConnType /\ Clean(conn) /\ Fed(conn) /\ Taken(conn) = Limit
      /\ \A id \in StreamId : ~Holds(conn, id) /\ conn.out[id] = Nothing
      /\ conn.clientWindow = DefaultWindow /\ allowed = DefaultWindow
      /\ \A id \in StreamId : credit[id] = 0
  BY <1>1, InitFacts
<1>3. /\ conn' \in ConnType /\ conn'.streams = conn.streams /\ conn'.out = conn.out
      /\ conn'.remaining = conn.remaining /\ conn'.clientWindow = conn.clientWindow
  BY <1>1, <1>2 DEF ConnType
<1>4. Held(conn') = Held(conn) /\ \A id \in StreamId : ~Holds(conn', id)
  BY <1>2, <1>3 DEF Held, Holds
<1>5. DefaultWindow \in Nat /\ Limit \in Nat
  BY Http2Assumption
<1>6. Sound(conn')
  BY <1>2, <1>3, <1>4, <1>5 DEF Sound, Clean, Fed, Taken
<1>7. Balanced(conn', allowed', credit')
  BY <1>1, <1>2, <1>3, <1>4 DEF Balanced
<1>8. \A i \in StreamId : Fits(i)
  BY <1>2, <1>3 DEF Fits, Nothing
<1> QED BY <1>1, <1>6, <1>7, <1>8 DEF Good, Base, TypeOK

\* The connection once a request of HTTP/1.1 was taken for stream 1.
Upgrading(value) == [conn EXCEPT !.initialWindow = value]
Upgraded(value, kind) == Put(Open(Upgrading(value), 1), 1, kind)

LEMMA UpgradedFacts ==
  ASSUME Init, TypeOK, 1 \in StreamId, NEW value \in Nat, NEW kind \in Kind
  PROVE  LET d == Upgraded(value, kind) IN
         /\ Poised(d) /\ Holds(d, 1) /\ Room(d, 1) >= 0 /\ d.requests[1] = kind
         /\ ~d.closed /\ d.serverWindow = DefaultWindow /\ d.last = 0
         /\ d.headerStream = 0 /\ ~d.expected /\ d.remaining = Limit - 1
         /\ \A id \in StreamId : d.out[id] = Nothing /\ (Holds(d, id) => id = 1)
         /\ Taken(d) = Limit
<1> DEFINE b == Upgrading(value)
           p == Open(b, 1)
           d == Upgraded(value, kind)
<1>0. DefaultWindow \in Nat /\ Limit \in Nat
  BY Http2Assumption
<1>1. /\ conn \in ConnType /\ Clean(conn) /\ Fed(conn) /\ Taken(conn) = Limit
      /\ \A id \in StreamId : ~Holds(conn, id) /\ conn.out[id] = Nothing
      /\ ~conn.closed /\ conn.wrote = 0 /\ conn.remaining = Limit
      /\ conn.clientWindow = DefaultWindow
      /\ conn.serverWindow = DefaultWindow /\ conn.last = 0
      /\ conn.headerStream = 0 /\ ~conn.expected
      /\ allowed = DefaultWindow /\ \A id \in StreamId : credit[id] = 0
  BY InitFacts
<1>2. /\ b \in ConnType /\ b.streams = conn.streams /\ b.out = conn.out
      /\ b.remaining = conn.remaining /\ b.clientWindow = conn.clientWindow
      /\ b.initialWindow = value /\ b.closed = conn.closed /\ b.wrote = conn.wrote
      /\ b.serverWindow = conn.serverWindow /\ b.last = conn.last
      /\ b.headerStream = conn.headerStream /\ b.expected = conn.expected
  BY <1>1 DEF ConnType, Upgrading
<1> HIDE DEF b
<1>3. Held(b) = Held(conn) /\ \A id \in StreamId : ~Holds(b, id)
  BY <1>1, <1>2 DEF Held, Holds
<1>4. Clean(b) /\ Fed(b) /\ Taken(b) = Limit
  BY <1>1, <1>2, <1>3 DEF Clean, Fed, Taken
<1>5. /\ p \in ConnType /\ Clean(p) /\ Fed(p) /\ Taken(p) = Limit
      /\ SameRest(b, p) /\ p.out = b.out /\ Holds(p, 1)
      /\ \A other \in StreamId \ {1} : p.streams[other] = b.streams[other]
      /\ p.streams[1] = NewStream(value) /\ p.remaining = Limit - 1
  BY <1>1, <1>2, <1>3, <1>4, OpenIsCalm
<1>6. p.streams[1].window = value /\ \A id \in StreamId : Holds(p, id) => id = 1
  BY <1>3, <1>5, StreamFacts DEF Holds
<1> HIDE DEF p
<1>7. d = Put(p, 1, kind)
  BY DEF Upgraded, p, b
<1> HIDE DEF d
<1>8. /\ Calm(p, d, 1) /\ d.serverWindow = p.serverWindow /\ d.requests[1] = kind
      /\ d.closed = p.closed /\ d.out = p.out
      /\ d.headerStream = p.headerStream /\ d.expected = p.expected /\ d.last = p.last
      /\ d.remaining = p.remaining
      /\ \A other \in StreamId : Holds(d, other) <=> Holds(p, other)
      /\ d.streams[1].window = p.streams[1].window
  <2>1. /\ Calm(p, d, 1) /\ d.serverWindow = p.serverWindow
        /\ d.requests = [p.requests EXCEPT ![1] = kind]
        /\ d.closed = p.closed /\ d.out = p.out
        /\ d.headerStream = p.headerStream /\ d.expected = p.expected /\ d.last = p.last
        /\ d.remaining = p.remaining
        /\ \A other \in StreamId : Holds(d, other) <=> Holds(p, other)
    BY <1>5, <1>7, PutFacts
  <2>2. d.requests[1] = kind
    BY <1>5, <2>1 DEF ConnType
  <2>3. d.streams[1].window = p.streams[1].window
    BY <1>5, <2>1 DEF Calm
  <2> QED BY <2>1, <2>2, <2>3
<1>9. /\ d \in ConnType /\ Clean(d) /\ Fed(d) /\ d.clientWindow = DefaultWindow
      /\ d.initialWindow = value /\ d.wrote = 0
  BY <1>1, <1>2, <1>5, <1>8 DEF Calm, SameRest
<1>10. Held(d) = Held(p) /\ Taken(d) = Limit
  BY <1>5, <1>8 DEF Held, Taken
<1>11. \A id \in StreamId : d.out[id] = Nothing
  BY <1>1, <1>2, <1>5, <1>8
<1>12. Poised(d)
  <2>1. \A id \in StreamId : d.out[id].data = 0 /\ d.out[id].ends = 0
    BY <1>11 DEF Nothing
  <2>2. ASSUME NEW id \in StreamId, Holds(d, id)
        PROVE  d.streams[id].window = d.initialWindow + credit[id]
    BY <1>1, <1>6, <1>8, <1>9, <2>2
  <2> QED BY <1>0, <1>1, <1>9, <1>10, <2>1, <2>2 DEF Poised
<1>13. Room(d, 1) >= 0
  BY <1>0, <1>6, <1>8, <1>9, RoomFacts
<1> QED BY <1>1, <1>2, <1>5, <1>6, <1>8, <1>10, <1>11, <1>12, <1>13 DEF d, SameRest

LEMMA UpgradeIs ==
  ASSUME NEW value \in Setting, NEW kind \in Kind, NEW len \in Length, Upgrade(value, kind, len)
  PROVE  /\ ~hands /\ 1 \in StreamId /\ kind # "garbled" /\ Counts(0, 0)
         /\ Judge(kind # "refused") /\ peer' = [peer EXCEPT ![1] = "upgraded"]
         /\ conn' = EndStream(Upgraded(value, kind), 1, TRUE, len)
BY DEF Upgrade, Upgraded, Upgrading, Put

LEMMA UpgradeFits ==
  ASSUME Base, NEW value \in Setting, NEW kind \in Kind, NEW len \in Length,
         Upgrade(value, kind, len)
  PROVE  Good
<1>1. /\ Init /\ TypeOK /\ 1 \in StreamId /\ Counts(0, 0)
      /\ conn' = EndStream(Upgraded(value, kind), 1, TRUE, len)
  BY UpgradeIs DEF Base
<1>2. value \in Nat /\ len \in Nat
  BY Http2Assumption
<1>3. Poised(Upgraded(value, kind)) /\ Room(Upgraded(value, kind), 1) >= 0
  BY <1>1, <1>2, UpgradedFacts
<1>4. Settles(Upgraded(value, kind), conn', 1)
  BY <1>1, <1>2, <1>3, EndStreamFacts DEF Poised
<1> QED BY <1>1, <1>3, <1>4, AnswerFits DEF Good

LEMMA NextFits == ASSUME Base, Next PROVE Good
<1>1. CASE Preface
  BY <1>1, PrefaceFits
<1>2. CASE \E value \in Setting, kind \in Kind, len \in Length : Upgrade(value, kind, len)
  BY <1>2, UpgradeFits
<1>3. CASE Frames
  <2>1. CASE \E id \in StreamId, ended \in BOOLEAN, what \in Kind \cup Wrong, len \in Length :
               Headers(id, ended, what, len)
    BY <2>1, HeadersFits
  <2>2. CASE \E id \in StreamId, ended \in BOOLEAN, fits \in BOOLEAN, len \in Length :
               SplitHeaders(id, ended, fits, len)
    BY <2>2, SplitHeadersFits
  <2>3. CASE \E id \in StreamId, what \in Kind \cup Wrong : Continuation(id, what)
    BY <2>3, ContinuationFits
  <2>4. CASE \E id \in StreamId, n \in Chunk \cup {0}, ended \in BOOLEAN, fits \in BOOLEAN,
                len \in Length : Data(id, n, ended, fits, len)
    BY <2>4, DataFits
  <2>5. CASE \E id \in StreamId, inc \in Increment : StreamUpdate(id, inc)
    BY <2>5, StreamUpdateFits
  <2>6. CASE \E inc \in Increment : ConnectionUpdate(inc)
    BY <2>6, ConnectionUpdateFits
  <2>7. CASE \E value \in Setting : Settings(value)
    BY <2>7, SettingsFits
  <2>8. CASE \E id \in StreamId : Priority(id)
    BY <2>8, PriorityFits
  <2>9. CASE \E id \in StreamId : RstStream(id)
    BY <2>9, RstStreamFits
  <2>10. CASE GoAway
    BY <2>10, GoAwayFits
  <2> QED BY <1>3, <2>1, <2>2, <2>3, <2>4, <2>5, <2>6, <2>7, <2>8, <2>9, <2>10 DEF Frames
<1> QED BY <1>1, <1>2, <1>3 DEF Next

-----------------------------------------------------------------------------
(* A plain client: none of its frames loses it a slot, a stream or the      *)
(* connection, and each of its requests is answered once.                  *)

\* What a plain client is told by a step.
Once ==
  \A id \in StreamId :
    LET o == conn'.out[id] IN
    /\ o.heads = o.ends /\ o.ends <= 1
    /\ peer[id] \in {"done", "upgraded"} => o = Nothing
    /\ peer'[id] # "ended"

LEMMA HearsFacts ==
  ASSUME NEW told, Hears(told)
  PROVE  \A i \in StreamId : peer'[i] = IF conn'.out[i].ends > 0 \/ conn'.out[i].reset
                                        THEN "done" ELSE told[i]
BY DEF Hears

\* An answer on stream id, if any.
LEMMA OnceFacts ==
  ASSUME NEW id \in StreamId, PlainState(conn', peer'),
         \A other \in StreamId \ {id} : conn'.out[other] = Nothing,
         conn'.out[id].heads = conn'.out[id].ends, conn'.out[id].ends <= 1,
         peer[id] \notin {"done", "upgraded"} \/ conn'.out[id] = Nothing
  PROVE  Once
<1>1. Nothing.heads = 0 /\ Nothing.ends = 0
  BY DEF Nothing
<1>2. ASSUME NEW i \in StreamId
      PROVE  LET o == conn'.out[i] IN
             /\ o.heads = o.ends /\ o.ends <= 1
             /\ peer[i] \in {"done", "upgraded"} => o = Nothing
             /\ peer'[i] # "ended"
  BY <1>1 DEF PlainState
<1> QED BY <1>2 DEF Once

\* Nothing was said, so that the client knows what it knew.
LEMMA SilenceFacts ==
  ASSUME conn'.out = Silence, NEW told, Hears(told)
  PROVE  /\ \A i \in StreamId : peer'[i] = told[i]
         /\ PlainState(conn', peer') => Once
<1>1. \A i \in StreamId : conn'.out[i] = Nothing
  BY DEF Silence
<1>2. Nothing.heads = 0 /\ Nothing.ends = 0 /\ ~Nothing.reset
  BY DEF Nothing
<1>3. \A i \in StreamId : peer'[i] = told[i]
  BY <1>1, <1>2, HearsFacts
<1>4. ASSUME PlainState(conn', peer') PROVE Once
  BY <1>1, <1>2, <1>4 DEF PlainState, Once
<1> QED BY <1>3, <1>4

\* A request has come in, with a header block that is whole.
LEMMA AskedIsPlain ==
  ASSUME NEW b \in ConnType, NEW c \in ConnType, NEW id \in StreamId,
         NEW what \in {"call", "head"}, NEW p, NEW q,
         ~b.closed, Taken(b) = Limit, AllOdd(b), b.serverWindow > MinimumWindow,
         ~b.expected, b.headerStream = 0, MayOpen(b, id),
         Asked(b, c, id, what), Calm(b, c, id), c.serverWindow \in {b.serverWindow, BodyLimit},
         q[id] = "sending",
         \A other \in StreamId \ {id} :
           /\ q[other] = p[other] /\ p[other] # "ended"
           /\ Holds(b, other) <=> p[other] = "sending"
           /\ p[other] \in {"sending", "done"} => other <= b.last
           /\ Holds(b, other) => b.requests[other] \in {"call", "head"}
  PROVE  PlainState(c, q) /\ Holds(c, id) /\ c.requests[id] = what
<1>1. id \in Nat /\ b.last \in Nat /\ id > b.last /\ BodyLimit > MinimumWindow
  BY Http2Assumption DEF MayOpen, ConnType
<1>2. /\ ~c.closed /\ c.last = id /\ c.headerStream = 0 /\ ~c.expected
      /\ c.requests = [b.requests EXCEPT ![id] = what]
      /\ \A other \in StreamId : Holds(c, other) <=> Holds(b, other) \/ other = id
  BY <1>1 DEF Asked
<1>3. Taken(c) = Limit /\ AllOdd(c)
  BY DEF Calm, Accounts
<1>4. c.serverWindow > MinimumWindow
  BY <1>1
<1>5. c.requests[id] = what /\ \A other \in StreamId \ {id} : c.requests[other] = b.requests[other]
  BY <1>2 DEF ConnType
<1>6. ASSUME NEW i \in StreamId
      PROVE  /\ q[i] # "ended" /\ (Holds(c, i) <=> q[i] = "sending")
             /\ q[i] \in {"sending", "done"} => i <= c.last
             /\ Holds(c, i) => c.requests[i] \in {"call", "head"}
  <2>1. CASE i = id
    BY <1>1, <1>2, <1>5, <2>1
  <2>2. CASE i # id
    <3>1. i \in Nat
      BY Http2Assumption
    <3> QED BY <1>1, <1>2, <1>5, <2>2, <3>1
  <2> QED BY <2>1, <2>2
<1> QED BY <1>2, <1>3, <1>4, <1>5, <1>6 DEF PlainState

\* A stream is gone, and the client was told.
LEMMA DroppedIsPlain ==
  ASSUME NEW c \in ConnType, NEW d \in ConnType, NEW id \in StreamId, NEW q, NEW r,
         PlainState(c, q), ~c.expected, SameAside(c, d), Accounts(c, d), q[id] # "idle",
         d.streams = [c.streams EXCEPT ![id] = Gone],
         r[id] \in {"done", "upgraded"}, id <= c.last \/ r[id] = "upgraded",
         \A other \in StreamId \ {id} : r[other] = q[other]
  PROVE  PlainState(d, r)
<1>1. /\ ~d.closed /\ d.serverWindow > MinimumWindow /\ d.last = c.last /\ ~d.expected
      /\ d.headerStream = 0 /\ d.requests = c.requests
  BY DEF SameAside, PlainState
<1>2. Taken(d) = Limit /\ AllOdd(d)
  BY DEF Accounts, PlainState
<1>3. d.last = 0 \/ (d.last \in StreamId /\ r[d.last] # "idle")
  <2>1. CASE c.last = id
    BY <1>1, <2>1 DEF PlainState
  <2>2. CASE c.last # id
    BY <1>1, <2>2 DEF PlainState
  <2> QED BY <2>1, <2>2
<1>4. \A i \in StreamId : Holds(d, i) <=> Holds(c, i) /\ i # id
  BY StreamFacts DEF Holds, ConnType
<1>5. ASSUME NEW i \in StreamId
      PROVE  /\ r[i] # "ended" /\ (Holds(d, i) <=> r[i] = "sending")
             /\ r[i] \in {"sending", "done"} => i <= d.last
             /\ Holds(d, i) => d.requests[i] \in {"call", "head"}
  <2>1. CASE i = id
    BY <1>1, <1>4, <2>1
  <2>2. CASE i # id
    BY <1>1, <1>4, <2>2 DEF PlainState
  <2> QED BY <2>1, <2>2
<1> QED BY <1>1, <1>2, <1>3, <1>5 DEF PlainState

\* The streams and slots of a connection are what they were.
LEMMA KeptIsPlain ==
  ASSUME NEW c \in ConnType, NEW d \in ConnType, NEW q, NEW r,
         PlainState(c, q), ~c.expected, Taken(d) = Taken(c),
         d.closed = c.closed, d.last = c.last, d.requests = c.requests,
         d.headerStream = c.headerStream, d.expected = c.expected,
         d.serverWindow > MinimumWindow,
         \A i \in StreamId : r[i] = q[i] /\ (Holds(d, i) <=> Holds(c, i))
  PROVE  PlainState(d, r)
<1>1. AllOdd(d)
  BY DEF AllOdd, PlainState
<1> QED BY <1>1 DEF PlainState

\* The end of a request that a plain client has sent.
LEMMA EndIsPlain ==
  ASSUME Base, ~conn.closed, NEW id \in StreamId, NEW c, NEW q, Calm(Now, c, id),
         PlainState(c, q), ~c.expected, c.out = Silence, Holds(c, id), q[id] = "sending",
         NEW fits \in BOOLEAN, NEW len \in Length,
         conn' = EndStream(c, id, fits, len),
         NEW told, Hears(told),
         \A other \in StreamId \ {id} : told[other] = q[other],
         peer[id] \in {"idle", "sending"}
  PROVE  PlainState(conn', peer') /\ Once
<1>1. Poised(c) /\ Room(c, id) >= 0
  BY CalmIsSilent, SilentIsPoised DEF Base
<1>2. len \in Nat /\ c \in ConnType /\ Clean(c)
  BY Http2Assumption DEF Calm
<1>3. c.requests[id] \in {"call", "head"}
  BY DEF PlainState
<1>4. Settles(c, conn', id) /\ Completes(c, conn', id, fits)
  BY <1>1, <1>2, <1>3, EndStreamFacts
<1>5. Silence[id] = Nothing /\ \A other \in StreamId : c.out[other] = Nothing
  BY DEF Silence
<1>6. Nothing.heads = 0 /\ Nothing.ends = 0 /\ ~Nothing.reset
  BY DEF Nothing
<1>7. \A other \in StreamId \ {id} : conn'.out[other] = Nothing
  BY <1>4, <1>5 DEF Settles
<1>8. /\ conn'.out[id].heads = conn'.out[id].ends /\ conn'.out[id].ends <= 1
      /\ conn'.out[id].ends > 0 \/ conn'.out[id].reset
  <2>1. CASE fits
    <3>1. /\ conn'.out[id].heads = c.out[id].heads + 1
          /\ conn'.out[id].ends = c.out[id].ends + 1
      BY <1>4, <2>1 DEF Completes
    <3>2. c.out[id].heads = 0 /\ c.out[id].ends = 0
      BY <1>5, <1>6
    <3> QED BY <3>1, <3>2
  <2>2. CASE ~fits
    <3>1. conn'.out = [c.out EXCEPT ![id].reset = TRUE]
      BY <1>4, <2>2 DEF Completes
    <3>2. c.out[id] \in OutType /\ c.out \in [StreamId -> OutType]
      BY <1>2 DEF ConnType
    <3>3. conn'.out[id] = [c.out[id] EXCEPT !.reset = TRUE]
      BY <3>1, <3>2
    <3>4. conn'.out[id].heads = 0 /\ conn'.out[id].ends = 0 /\ conn'.out[id].reset
      BY <1>5, <1>6, <3>2, <3>3 DEF OutType
    <3> QED BY <3>4
  <2> QED BY <2>1, <2>2
<1>9. peer'[id] = "done"
  BY <1>8, HearsFacts
<1>10. \A other \in StreamId \ {id} : peer'[other] = q[other]
  <2>1. ASSUME NEW other \in StreamId \ {id} PROVE peer'[other] = q[other]
    <3>1. ~(conn'.out[other].ends > 0 \/ conn'.out[other].reset)
      BY <1>6, <1>7
    <3> QED BY <3>1, HearsFacts
  <2> QED BY <2>1
<1>11. id <= c.last
  BY DEF PlainState
<1>12. PlainState(conn', peer')
  <2>1. /\ conn' \in ConnType /\ SameAside(c, conn') /\ Accounts(c, conn')
        /\ conn'.streams = [c.streams EXCEPT ![id] = Gone]
    BY <1>4 DEF Settles, Completes
  <2> QED BY <1>2, <1>9, <1>10, <1>11, <2>1, DroppedIsPlain
<1> QED BY <1>7, <1>8, <1>12, OnceFacts

\* What a plain client can be said to start from.
PlainBase == Base /\ PlainState(conn, peer) /\ peer \in [StreamId -> {"idle", "sending", "ended", "done", "upgraded"}]

LEMMA PlainOpenFacts ==
  ASSUME PlainBase, ~conn.expected, NEW id \in StreamId, NEW what, PlainOpen(id, what)
  PROVE  /\ peer[id] = "idle" /\ ~Holds(conn, id) /\ MayOpen(conn, id) /\ MayOpen(Now, id)
         /\ what \in {"call", "head"} /\ conn.headerStream = 0 /\ id # 0
         /\ Blamed(id, what) = what /\ ~Foreign(id)
<1>1. id \in Nat /\ id # 0
  BY Http2Assumption
<1>2. peer[id] = "idle"
  BY <1>1 DEF PlainOpen
<1>3. ~Holds(conn, id) /\ conn.headerStream = 0
  BY <1>2 DEF PlainBase, PlainState
<1>4. id > conn.last
  <2>1. CASE conn.last = 0
    BY <1>1, <2>1
  <2>2. CASE conn.last \in StreamId /\ peer[conn.last] # "idle"
    BY <2>2 DEF PlainOpen
  <2> QED BY <2>1, <2>2 DEF PlainBase, PlainState
<1>5. conn.remaining > 0
  <2> DEFINE A == {other \in StreamId : Active(other)}
  <2>1. IsFiniteSet(A) /\ Cardinality(A) \in Nat /\ Cardinality(Held(conn)) \in Nat
    BY StreamsFinite DEF Held
  <2>2. Held(conn) \subseteq A
    BY DEF Held, PlainBase, PlainState, Active
  <2>3. Cardinality(Held(conn)) <= Cardinality(A)
    BY <2>1, <2>2, FS_Subset
  <2>4. Cardinality(A) < Limit
    BY DEF PlainOpen
  <2>5. Limit \in Nat /\ conn.remaining \in Int /\ conn.remaining + Cardinality(Held(conn)) = Limit
    BY Http2Assumption DEF PlainBase, PlainState, Taken, Base, Sound, ConnType
  <2> HIDE DEF A
  <2> QED BY <2>1, <2>3, <2>4, <2>5
<1>6. MayOpen(conn, id) /\ MayOpen(Now, id)
  BY <1>4, <1>5, NowFacts DEF MayOpen, PlainOpen, PlainBase, Base, Sound
<1>7. Blamed(id, what) = what /\ ~Foreign(id)
  BY <1>1, <1>3 DEF Blamed, Foreign
<1> QED BY <1>1, <1>2, <1>3, <1>6, <1>7 DEF PlainOpen

LEMMA HeadersPlain ==
  ASSUME PlainBase, NEW id \in StreamId, NEW ended \in BOOLEAN, NEW what \in Kind \cup Wrong,
         NEW len \in Length, Headers(id, ended, what, len), ~conn.expected, PlainOpen(id, what)
  PROVE  PlainState(conn', peer') /\ Once
<1> DEFINE c == HandleHeaders(Now, id, ended, what)
           q == [peer EXCEPT ![id] = "sending"]
           told == [peer EXCEPT ![id] = IF ended THEN "ended" ELSE "sending"]
<1>1. /\ peer[id] = "idle" /\ ~Holds(conn, id) /\ MayOpen(Now, id)
      /\ what \in {"call", "head"} /\ Blamed(id, what) = what /\ ~Foreign(id)
      /\ conn.headerStream = 0
  BY PlainOpenFacts
<1>2. /\ ~conn.closed /\ conn' = IF ended THEN EndStream(c, id, TRUE, len) ELSE c
      /\ Hears(told)
  BY <1>1 DEF Headers, Take
<1>3. /\ Now \in ConnType /\ Clean(Now) /\ Fed(Now) /\ Now.out = Silence
      /\ Taken(Now) = Taken(conn) /\ AllOdd(Now) /\ Now.serverWindow = conn.serverWindow
      /\ ~Now.expected /\ Now.headerStream = 0 /\ ~Now.closed /\ Now.last = conn.last
      /\ Now.requests = conn.requests /\ \A i \in StreamId : Holds(Now, i) <=> Holds(conn, i)
  BY <1>1, <1>2, NowFacts DEF PlainBase, Base, Sound, PlainState
<1>4. /\ Calm(Now, c, id) /\ c.serverWindow \in {Now.serverWindow, BodyLimit}
      /\ Asked(Now, c, id, what)
  BY <1>1, <1>3, HeadersFacts
<1> HIDE DEF c
<1>5. c \in ConnType /\ c.out = Silence /\ ~c.expected
  BY <1>3, <1>4 DEF Calm, Asked
<1>6. q[id] = "sending" /\ \A other \in StreamId \ {id} : q[other] = peer[other]
  BY DEF PlainBase
<1>7. told[id] = (IF ended THEN "ended" ELSE "sending")
      /\ \A other \in StreamId \ {id} : told[other] = q[other]
  BY DEF PlainBase
<1> HIDE DEF q, told
<1>8. PlainState(c, q) /\ Holds(c, id)
  <2>1. \A other \in StreamId \ {id} :
          /\ q[other] = peer[other] /\ peer[other] # "ended"
          /\ Holds(Now, other) <=> peer[other] = "sending"
          /\ peer[other] \in {"sending", "done"} => other <= Now.last
          /\ Holds(Now, other) => Now.requests[other] \in {"call", "head"}
    BY <1>3, <1>6 DEF PlainBase, PlainState
  <2>2. Taken(Now) = Limit /\ Now.serverWindow > MinimumWindow
    BY <1>3 DEF PlainBase, PlainState
  <2>3. /\ Now \in ConnType /\ c \in ConnType /\ what \in {"call", "head"}
        /\ ~Now.closed /\ AllOdd(Now) /\ ~Now.expected /\ Now.headerStream = 0
        /\ MayOpen(Now, id) /\ q[id] = "sending"
    BY <1>1, <1>3, <1>5, <1>6
  <2> QED BY <1>4, <2>1, <2>2, <2>3, AskedIsPlain
<1>9. CASE ended
  <2>1. conn' = EndStream(c, id, TRUE, len)
    BY <1>2, <1>9
  <2>2. Base /\ ~conn.closed /\ Calm(Now, c, id) /\ peer[id] \in {"idle", "sending"}
    BY <1>1, <1>2, <1>4 DEF PlainBase
  <2>3. \A other \in StreamId \ {id} : told[other] = q[other]
    BY <1>7
  <2>4. PlainState(c, q) /\ ~c.expected /\ c.out = Silence /\ Holds(c, id) /\ q[id] = "sending"
    BY <1>5, <1>6, <1>8
  <2>5. Hears(told) /\ TRUE \in BOOLEAN
    BY <1>2
  <2> QED BY <2>1, <2>2, <2>3, <2>4, <2>5, EndIsPlain
<1>10. CASE ~ended
  <2>1. conn' = c /\ conn'.out = Silence
    BY <1>2, <1>5, <1>10
  <2>2. \A i \in StreamId : peer'[i] = told[i]
    BY <1>2, <2>1, SilenceFacts
  <2>3. \A i \in StreamId : peer'[i] = q[i]
    BY <1>6, <1>7, <1>10, <2>2
  <2>4. ~c.expected /\ Taken(c) = Taken(c) /\ c.serverWindow > MinimumWindow
    BY <1>5, <1>8 DEF PlainState
  <2>5. PlainState(conn', peer')
    BY <1>5, <1>8, <2>1, <2>3, <2>4, KeptIsPlain
  <2> QED BY <1>2, <2>1, <2>5, SilenceFacts
<1> QED BY <1>9, <1>10

LEMMA SplitHeadersPlain ==
  ASSUME PlainBase, NEW id \in StreamId, NEW fits \in BOOLEAN,
         NEW len \in Length, SplitHeaders(id, FALSE, fits, len), ~conn.expected,
         PlainOpen(id, "call")
  PROVE  PlainState(conn', peer') /\ Once
<1> DEFINE c == Block(Now, id, TRUE)
           q == [peer EXCEPT ![id] = "sending"]
<1>1. /\ peer[id] = "idle" /\ ~Holds(conn, id) /\ MayOpen(conn, id) /\ ~Foreign(id)
  BY PlainOpenFacts
<1>2. ~conn.closed /\ conn' = c /\ Hears(q)
  BY <1>1 DEF SplitHeaders, Take, Block
<1>3. /\ c.headerStream = id /\ c.expected /\ c.streams = conn.streams
      /\ c.closed = conn.closed /\ c.remaining = conn.remaining /\ c.last = conn.last
      /\ c.serverWindow = conn.serverWindow /\ c.requests = conn.requests
      /\ c.out = Silence /\ Taken(c) = Taken(conn)
  <2>1. Base /\ TRUE \in BOOLEAN /\ id \in StreamId \cup {0}
    BY DEF PlainBase
  <2> QED BY <2>1, BlockIsCalm
<1> HIDE DEF c
<1>4. \A i \in StreamId : peer'[i] = q[i]
  BY <1>2, <1>3, SilenceFacts
<1>5. peer'[id] = "sending" /\ \A other \in StreamId \ {id} : peer'[other] = peer[other]
  BY <1>4 DEF PlainBase
<1>6. \A i \in StreamId : Holds(c, i) <=> Holds(conn, i)
  BY <1>3 DEF Holds
<1>7. AllOdd(c) /\ MayOpen(c, id)
  BY <1>1, <1>3, <1>6 DEF AllOdd, MayOpen, PlainBase, PlainState
<1>8. c.last = 0 \/ (c.last \in StreamId /\ peer'[c.last] # "idle")
  BY <1>3, <1>5 DEF PlainBase, PlainState
<1>9. ASSUME NEW i \in StreamId
      PROVE  /\ peer'[i] # "ended"
             /\ Holds(c, i) <=> peer'[i] = "sending" /\ ~(c.expected /\ i = c.headerStream)
             /\ peer'[i] \in {"sending", "done"} => i <= c.last \/ (c.expected /\ i = c.headerStream)
             /\ Holds(c, i) => c.requests[i] \in {"call", "head"}
  <2>1. CASE i = id
    BY <1>1, <1>3, <1>5, <1>6, <2>1
  <2>2. CASE i # id
    BY <1>3, <1>5, <1>6, <2>2 DEF PlainBase, PlainState
  <2> QED BY <2>1, <2>2
<1>10. PlainState(c, peer')
  BY <1>2, <1>3, <1>5, <1>7, <1>8, <1>9 DEF PlainState, PlainBase
<1> QED BY <1>2, <1>3, <1>10, SilenceFacts

LEMMA ContinuationPlain ==
  ASSUME PlainBase, NEW id \in StreamId, NEW what \in {"call", "head"}, Continuation(id, what),
         conn.expected, id = conn.headerStream
  PROVE  PlainState(conn', peer') /\ Once
<1> DEFINE b == Block(Now, 0, FALSE)
           c == HandleHeaders(b, id, FALSE, what)
<1>1. Blamed(id, what) = what
  BY DEF Blamed
<1>2. /\ ~conn.closed /\ Hears(peer) /\ conn' = c
  BY <1>1 DEF Continuation, Block
<1>3. /\ Calm(Now, b, id) /\ b.headerStream = 0 /\ ~b.expected /\ b.streams = conn.streams
      /\ b.closed = conn.closed /\ b.remaining = conn.remaining /\ b.last = conn.last
      /\ b.serverWindow = conn.serverWindow /\ b.requests = conn.requests
      /\ b.out = Silence /\ Taken(b) = Taken(conn)
  <2>1. Base /\ FALSE \in BOOLEAN /\ 0 \in StreamId \cup {0}
    BY DEF PlainBase
  <2>2. /\ Calm(Now, b, id) /\ b.headerStream = 0 /\ b.expected = FALSE /\ b.streams = conn.streams
        /\ b.closed = conn.closed /\ b.remaining = conn.remaining /\ b.last = conn.last
        /\ b.serverWindow = conn.serverWindow /\ b.requests = conn.requests
        /\ b.out = Silence /\ Taken(b) = Taken(conn)
    BY <2>1, BlockIsCalm, ZenonT(30)
  <2> QED BY <2>2
<1> HIDE DEF b
<1>4. b \in ConnType /\ Clean(b) /\ Fed(b)
  BY <1>3 DEF Calm
<1>5. \A i \in StreamId : Holds(b, i) <=> Holds(conn, i)
  BY <1>3 DEF Holds
<1>6. MayOpen(b, id) /\ ~Holds(b, id) /\ AllOdd(b) /\ peer[id] = "sending"
  BY <1>3, <1>5 DEF MayOpen, AllOdd, PlainBase, PlainState
<1>7. /\ Calm(b, c, id) /\ c.serverWindow \in {b.serverWindow, BodyLimit}
      /\ Asked(b, c, id, what)
  BY <1>4, <1>6, HeadersFacts DEF Kind
<1> HIDE DEF c
<1>8. PlainState(c, peer)
  <2>1. \A other \in StreamId \ {id} :
          /\ peer[other] = peer[other] /\ peer[other] # "ended"
          /\ Holds(b, other) <=> peer[other] = "sending"
          /\ peer[other] \in {"sending", "done"} => other <= b.last
          /\ Holds(b, other) => b.requests[other] \in {"call", "head"}
    BY <1>3, <1>5 DEF PlainBase, PlainState
  <2>2. Taken(b) = Limit /\ b.serverWindow > MinimumWindow /\ ~b.closed
    BY <1>2, <1>3 DEF PlainBase, PlainState
  <2>3. c \in ConnType
    BY <1>7 DEF Calm
  <2> QED BY <1>3, <1>4, <1>6, <1>7, <2>1, <2>2, <2>3, AskedIsPlain
<1>9. c.out = Silence /\ c \in ConnType /\ ~c.expected
  BY <1>3, <1>7 DEF Asked, Calm
<1>10. \A i \in StreamId : peer'[i] = peer[i]
  BY <1>2, <1>9, SilenceFacts
<1>11. PlainState(conn', peer')
  <2>1. c.serverWindow > MinimumWindow
    BY <1>8 DEF PlainState
  <2> QED BY <1>2, <1>8, <1>9, <1>10, <2>1, KeptIsPlain
<1> QED BY <1>2, <1>9, <1>11, SilenceFacts

\* The connection as it is found, for a client that is not in a header block.
LEMMA NowPlain ==
  ASSUME PlainBase, ~conn.expected
  PROVE  /\ PlainState(Now, peer) /\ ~Now.expected /\ Now \in ConnType /\ Clean(Now) /\ Fed(Now)
         /\ Now.out = Silence /\ Now.streams = conn.streams /\ Now.wrote = 0
         /\ \A i \in StreamId : Holds(Now, i) <=> Holds(conn, i)
         /\ \A i \in StreamId : Opened(i) => i <= conn.last
<1>1. /\ Now \in ConnType /\ Clean(Now) /\ Fed(Now) /\ Now.out = Silence /\ Now.wrote = 0
      /\ Taken(Now) = Taken(conn) /\ Now.serverWindow = conn.serverWindow
      /\ Now.expected = conn.expected /\ Now.headerStream = conn.headerStream
      /\ Now.closed = conn.closed /\ Now.last = conn.last /\ Now.requests = conn.requests
      /\ Now.streams = conn.streams
      /\ \A i \in StreamId : Holds(Now, i) <=> Holds(conn, i)
  BY NowFacts DEF PlainBase, Base, Sound
<1>2. conn \in ConnType /\ PlainState(conn, peer)
  BY DEF PlainBase, Base, Sound
<1>3. Now.serverWindow > MinimumWindow /\ ~Now.expected
  BY <1>1, <1>2 DEF PlainState
<1>4. PlainState(Now, peer)
  BY <1>1, <1>2, <1>3, KeptIsPlain
<1>5. \A i \in StreamId : Opened(i) => i <= conn.last
  BY <1>2 DEF PlainState, Opened
<1> QED BY <1>1, <1>3, <1>4, <1>5

LEMMA DataPlain ==
  ASSUME PlainBase, NEW id \in StreamId, NEW n \in Chunk \cup {0}, NEW ended \in BOOLEAN,
         NEW fits \in BOOLEAN, NEW len \in Length, Data(id, n, ended, fits, len),
         ~conn.expected, PlainData(id, n)
  PROVE  PlainState(conn', peer') /\ Once
<1> DEFINE c == HandleData(Now, id, n)
           told == [peer EXCEPT ![id] = IF ended /\ @ = "sending" THEN "ended" ELSE @]
<1>1. /\ ~conn.closed /\ conn' = IF ended THEN EndStream(c, id, fits, len) ELSE c
      /\ Hears(told)
  BY DEF Data, Take
<1>2. peer[id] = "sending" /\ conn.streams[id].received + n <= BodyLimit
  BY DEF PlainData
<1>3. /\ PlainState(Now, peer) /\ ~Now.expected /\ Now \in ConnType /\ Clean(Now) /\ Fed(Now)
      /\ Now.out = Silence /\ Now.streams = conn.streams
  BY NowPlain
<1>4. Holds(Now, id) /\ Now.requests[id] # "none" /\ Now.serverWindow > MinimumWindow
  BY <1>2, <1>3 DEF PlainState
<1>5. Calm(Now, c, id) /\ Received(Now, c)
  BY <1>2, <1>3, <1>4, DataFacts
<1> HIDE DEF c
<1>6. c \in ConnType /\ c.out = Silence /\ ~c.expected /\ Holds(c, id)
  BY <1>3, <1>4, <1>5 DEF Calm, Received
<1>7. PlainState(c, peer)
  <2>1. Taken(c) = Taken(Now)
    BY <1>3, <1>5 DEF Calm, Accounts, PlainState
  <2>2. /\ c.closed = Now.closed /\ c.last = Now.last /\ c.requests = Now.requests
        /\ c.headerStream = Now.headerStream /\ c.expected = Now.expected
        /\ c.serverWindow > MinimumWindow
        /\ \A i \in StreamId : peer[i] = peer[i] /\ (Holds(c, i) <=> Holds(Now, i))
    BY <1>5 DEF Received
  <2> QED BY <1>3, <1>6, <2>1, <2>2, KeptIsPlain
<1>8. \A other \in StreamId \ {id} : told[other] = peer[other]
  BY DEF PlainBase
<1>9. CASE ended
  <2>1. conn' = EndStream(c, id, fits, len)
    BY <1>1, <1>9
  <2>2. Base /\ peer[id] \in {"idle", "sending"}
    BY <1>2 DEF PlainBase
  <2> HIDE DEF told
  <2> QED BY <1>1, <1>2, <1>5, <1>6, <1>7, <1>8, <2>1, <2>2, EndIsPlain
<1>10. CASE ~ended
  <2>1. conn' = c
    BY <1>1, <1>10
  <2>2. \A i \in StreamId : told[i] = peer[i]
    BY <1>10 DEF PlainBase
  <2> HIDE DEF told
  <2>3. \A i \in StreamId : peer'[i] = peer[i]
    BY <1>1, <1>6, <2>1, <2>2, SilenceFacts
  <2>4. PlainState(conn', peer')
    <3>1. c.serverWindow > MinimumWindow
      BY <1>7 DEF PlainState
    <3> QED BY <1>6, <1>7, <2>1, <2>3, <3>1, KeptIsPlain
  <2> QED BY <1>1, <1>6, <2>1, <2>4, SilenceFacts
<1> QED BY <1>9, <1>10

\* A frame after which the client is told nothing, about streams that are kept.
LEMMA SilentIsPlain ==
  ASSUME PlainBase, ~conn.expected, Hears(peer), conn' \in ConnType, conn'.out = Silence,
         Taken(conn') = Taken(Now),
         conn'.closed = Now.closed, conn'.last = Now.last, conn'.requests = Now.requests,
         conn'.headerStream = Now.headerStream, conn'.expected = Now.expected,
         conn'.serverWindow = Now.serverWindow,
         \A i \in StreamId : Holds(conn', i) <=> Holds(Now, i)
  PROVE  PlainState(conn', peer') /\ Once
<1>1. PlainState(Now, peer) /\ ~Now.expected /\ Now \in ConnType
  BY NowPlain
<1>2. \A i \in StreamId : peer'[i] = peer[i]
  BY SilenceFacts
<1>3. conn'.serverWindow > MinimumWindow
  BY <1>1 DEF PlainState
<1>4. PlainState(conn', peer')
  BY <1>1, <1>2, <1>3, KeptIsPlain
<1> QED BY <1>4, SilenceFacts

LEMMA StreamUpdatePlain ==
  ASSUME PlainBase, NEW id \in StreamId, NEW inc \in Increment, StreamUpdate(id, inc),
         ~conn.expected, Opened(id)
  PROVE  PlainState(conn', peer') /\ Once
<1>1. /\ PlainState(Now, peer) /\ ~Now.expected /\ Now \in ConnType /\ Clean(Now) /\ Fed(Now)
      /\ Now.out = Silence /\ \A i \in StreamId : Holds(Now, i) <=> Holds(conn, i)
      /\ id <= conn.last
  BY NowPlain
<1>2. Hears(peer) /\ conn' = StreamUpdated(id, inc)
  BY StreamUpdateIs DEF PlainBase
<1>3. ~Unknown(conn, id)
  <2>1. conn.last \in Nat /\ id \in Nat
    BY Http2Assumption DEF PlainBase, Base, Sound, ConnType
  <2> QED BY <1>1, <2>1 DEF Unknown
<1>4. CASE conn' = Now
  BY <1>1, <1>2, <1>4, SilentIsPlain
<1>5. CASE conn' = Grown(Now, id, inc)
  <2> DEFINE d == Grown(Now, id, inc)
  <2>1. inc \in Nat
    BY Http2Assumption
  <2>2. /\ d \in ConnType /\ SameRest(Now, d) /\ d.out = Now.out /\ d.remaining = Now.remaining
        /\ \A other \in StreamId \ {id} : d.streams[other] = Now.streams[other]
        /\ d.streams[id].held = Now.streams[id].held
    BY <1>1, <2>1, GrownFacts
  <2> HIDE DEF d
  <2>3. \A i \in StreamId : Holds(d, i) <=> Holds(Now, i)
    BY <2>2 DEF Holds
  <2>4. Taken(d) = Taken(Now)
    BY <2>2, <2>3 DEF Taken, Held
  <2>5. conn' = d
    BY <1>5 DEF d
  <2> QED BY <1>1, <1>2, <2>2, <2>3, <2>4, <2>5, SilentIsPlain DEF SameRest
<1>6. CASE conn' = Reset(Now, id) /\ Holds(Now, id)
  <2>1. /\ conn' \in ConnType /\ SameRest(Now, conn')
        /\ conn'.out = [Now.out EXCEPT ![id].reset = TRUE]
        /\ conn'.streams = [Now.streams EXCEPT ![id] = Gone]
        /\ conn'.remaining = Now.remaining + Slot(id)
    BY <1>1, <1>6, ResetFacts
  <2>2. Accounts(Now, conn') /\ SameAside(Now, conn')
    BY <1>1, <1>6, <2>1, DropAccounts DEF SameRest, SameAside
  <2>3. Silence \in [StreamId -> OutType] /\ \A i \in StreamId : Silence[i] = Nothing
    BY DEF Silence, Nothing, OutType
  <2>4. conn'.out[id] = [Nothing EXCEPT !.reset = TRUE]
    BY <1>1, <2>1, <2>3
  <2>5. conn'.out[id].heads = 0 /\ conn'.out[id].ends = 0 /\ conn'.out[id].reset
    BY <2>4 DEF Nothing
  <2>6. \A other \in StreamId \ {id} : conn'.out[other] = Nothing
    BY <1>1, <2>1, <2>3
  <2>7. peer[id] = "sending"
    BY <1>1, <1>6 DEF PlainState
  <2>8. Nothing.ends = 0 /\ ~Nothing.reset
    BY DEF Nothing
  <2>9. peer'[id] = "done" /\ \A other \in StreamId \ {id} : peer'[other] = peer[other]
    BY <1>2, <2>5, <2>6, <2>8, HearsFacts
  <2>10. id <= Now.last
    BY <1>1, <2>7 DEF PlainState
  <2>11. PlainState(conn', peer')
    BY <1>1, <2>1, <2>2, <2>7, <2>9, <2>10, DroppedIsPlain
  <2> QED BY <2>5, <2>6, <2>7, <2>11, OnceFacts
<1> QED BY <1>1, <1>2, <1>3, <1>4, <1>5, <1>6 DEF StreamUpdated

LEMMA ConnectionUpdatePlain ==
  ASSUME PlainBase, NEW inc \in Increment, ConnectionUpdate(inc),
         ~conn.expected, allowed + inc <= MaxWindow
  PROVE  PlainState(conn', peer') /\ Once
<1> DEFINE d == Widened(Now, inc)
<1>1. Now \in ConnType /\ Now.out = Silence
  BY NowPlain
<1>2. inc \in Nat /\ MaxWindow \in Nat
  BY Http2Assumption
<1>3. allowed = conn.clientWindow /\ allowed \in Int
  BY DEF PlainBase, PlainState, Base, Balanced, TypeOK
<1>4. Hears(peer) /\ conn' = d
  BY <1>2, <1>3, ConnectionUpdateIs DEF PlainBase
<1>5. /\ d \in ConnType /\ d.streams = Now.streams /\ d.out = Now.out /\ d.closed = Now.closed
      /\ d.serverWindow = Now.serverWindow /\ d.last = Now.last /\ d.requests = Now.requests
      /\ d.headerStream = Now.headerStream /\ d.expected = Now.expected
      /\ Taken(d) = Taken(Now)
  BY <1>1, <1>2, WidenedFacts
<1> HIDE DEF d
<1>6. \A i \in StreamId : Holds(d, i) <=> Holds(Now, i)
  BY <1>5 DEF Holds
<1> QED BY <1>1, <1>4, <1>5, <1>6, SilentIsPlain

LEMMA SettingsPlain ==
  ASSUME PlainBase, NEW value \in Setting, Settings(value), ~conn.expected, value <= MaxWindow
  PROVE  PlainState(conn', peer') /\ Once
<1> DEFINE d == Set(Now, value)
<1>1. Now \in ConnType /\ Now.out = Silence
  BY NowPlain
<1>2. value \in Nat /\ MaxWindow \in Nat
  BY Http2Assumption
<1>3. Hears(peer) /\ conn' = d
  BY <1>2, SettingsIs DEF PlainBase
<1>4. /\ d \in ConnType /\ d.out = Now.out /\ d.closed = Now.closed
      /\ d.serverWindow = Now.serverWindow /\ d.last = Now.last /\ d.requests = Now.requests
      /\ d.headerStream = Now.headerStream /\ d.expected = Now.expected
      /\ Taken(d) = Taken(Now) /\ \A i \in StreamId : Holds(d, i) <=> Holds(Now, i)
  BY <1>1, <1>2, SetFacts
<1> HIDE DEF d
<1> QED BY <1>1, <1>3, <1>4, SilentIsPlain

LEMMA PriorityPlain ==
  ASSUME PlainBase, NEW id \in StreamId, Priority(id), ~conn.expected, Active(id)
  PROVE  PlainState(conn', peer') /\ Once
<1>1. Holds(conn, id)
  BY DEF PlainBase, PlainState, Active
<1>2. Hears(peer) /\ conn' = Now
  BY <1>1 DEF Priority, Take
<1>3. Now \in ConnType /\ Now.out = Silence
  BY NowPlain
<1> QED BY <1>2, <1>3, SilentIsPlain

LEMMA RstStreamPlain ==
  ASSUME PlainBase, NEW id \in StreamId, RstStream(id), ~conn.expected, Opened(id)
  PROVE  PlainState(conn', peer') /\ Once
<1> DEFINE d == Release(Now, id)
           told == [peer EXCEPT ![id] = "done"]
<1>1. /\ PlainState(Now, peer) /\ ~Now.expected /\ Now \in ConnType
      /\ Now.out = Silence /\ id <= conn.last /\ Now.last = conn.last
  BY NowPlain, NowFacts DEF PlainBase, Base, Sound
<1>2. Hears(told) /\ conn' = d
  BY DEF RstStream, Take, Forget
<1>3. /\ d \in ConnType /\ SameRest(Now, d) /\ d.out = Now.out
      /\ IF Holds(Now, id)
         THEN /\ d.streams = [Now.streams EXCEPT ![id] = Gone]
              /\ d.remaining = Now.remaining + Slot(id)
         ELSE d = Now
  BY <1>1, ReleaseFacts
<1>4. told[id] = "done" /\ \A other \in StreamId \ {id} : told[other] = peer[other]
  BY DEF PlainBase
<1> HIDE DEF d, told
<1>5. conn'.out = Silence /\ \A i \in StreamId : peer'[i] = told[i]
  BY <1>1, <1>2, <1>3, SilenceFacts
<1>6. CASE Holds(Now, id)
  <2>1. Accounts(Now, d) /\ SameAside(Now, d)
    BY <1>1, <1>3, <1>6, DropAccounts DEF SameRest, SameAside
  <2>2. peer[id] # "idle"
    BY <1>1, <1>6 DEF PlainState
  <2>3. PlainState(conn', peer')
    BY <1>1, <1>2, <1>3, <1>4, <1>5, <1>6, <2>1, <2>2, DroppedIsPlain
  <2> QED BY <1>2, <1>5, <2>3, SilenceFacts
<1>7. CASE ~Holds(Now, id)
  <2>1. peer[id] = "done"
    BY <1>1, <1>7 DEF PlainState, Opened
  <2>2. \A i \in StreamId : peer'[i] = peer[i]
    BY <1>4, <1>5, <2>1
  <2>3. conn' = Now
    BY <1>2, <1>3, <1>7
  <2>4. PlainState(conn', peer')
    <3>1. Now.serverWindow > MinimumWindow
      BY <1>1 DEF PlainState
    <3> QED BY <1>1, <2>2, <2>3, <3>1, KeptIsPlain
  <2> QED BY <1>2, <1>5, <2>4, SilenceFacts
<1> QED BY <1>6, <1>7

LEMMA PrefacePlain ==
  ASSUME PlainBase, Preface
  PROVE  PlainState(conn', peer') /\ Once
<1>1. Init /\ conn' = conn /\ peer' = peer
  BY DEF PlainBase, Base, Preface
<1>2. /\ conn \in ConnType /\ ~conn.expected
      /\ \A id \in StreamId : conn.out[id] = Nothing
  BY <1>1, InitFacts
<1>3. /\ conn' \in ConnType /\ conn'.streams = conn.streams /\ conn'.out = conn.out
      /\ conn'.remaining = conn.remaining /\ conn'.closed = conn.closed
      /\ conn'.last = conn.last /\ conn'.requests = conn.requests
      /\ conn'.headerStream = conn.headerStream /\ conn'.expected = conn.expected
      /\ conn'.serverWindow = conn.serverWindow
  BY <1>1, <1>2 DEF ConnType
<1>4. Taken(conn') = Taken(conn) /\ \A i \in StreamId : Holds(conn', i) <=> Holds(conn, i)
  BY <1>3 DEF Taken, Held, Holds
<1>5. PlainState(conn', peer')
  <2>1. PlainState(conn, peer) /\ conn'.serverWindow > MinimumWindow
    BY <1>3 DEF PlainBase, PlainState
  <2> QED BY <1>1, <1>2, <1>3, <1>4, <2>1, KeptIsPlain
<1>6. Nothing.heads = 0 /\ Nothing.ends = 0
  BY DEF Nothing
<1> QED BY <1>2, <1>3, <1>5, <1>6 DEF Once, PlainState

LEMMA UpgradePlain ==
  ASSUME PlainBase, NEW value \in Setting, NEW kind \in Kind, NEW len \in Length,
         Upgrade(value, kind, len), kind # "refused"
  PROVE  PlainState(conn', peer') /\ Once
<1> DEFINE c == Upgraded(value, kind)
<1>1. /\ Init /\ TypeOK /\ 1 \in StreamId /\ kind \in {"call", "head"}
      /\ peer' = [peer EXCEPT ![1] = "upgraded"]
      /\ conn' = EndStream(c, 1, TRUE, len)
  BY UpgradeIs DEF PlainBase, Base, Kind
<1>2. value \in Nat /\ len \in Nat /\ DefaultWindow > MinimumWindow
  BY Http2Assumption
<1>3. /\ Poised(c) /\ Holds(c, 1) /\ Room(c, 1) >= 0 /\ c.requests[1] = kind
      /\ ~c.closed /\ c.serverWindow = DefaultWindow /\ c.last = 0
      /\ c.headerStream = 0 /\ ~c.expected
      /\ \A id \in StreamId : c.out[id] = Nothing /\ (Holds(c, id) => id = 1)
      /\ Taken(c) = Limit
  BY <1>1, <1>2, UpgradedFacts
<1> HIDE DEF c
<1>4. c \in ConnType /\ Clean(c)
  BY <1>3 DEF Poised
<1>5. Settles(c, conn', 1) /\ Completes(c, conn', 1, TRUE)
  <2>1. c.requests[1] \in {"call", "head"} /\ TRUE \in BOOLEAN
    BY <1>1, <1>3
  <2> QED BY <1>1, <1>2, <1>3, <1>4, <2>1, EndStreamFacts
<1>6. AllOdd(c)
  BY <1>3 DEF AllOdd, Odd
<1>7. Taken(conn') = Limit /\ AllOdd(conn')
  BY <1>3, <1>5, <1>6 DEF Settles, Accounts
<1>8. /\ ~conn'.closed /\ conn'.serverWindow > MinimumWindow /\ conn'.last = 0
      /\ conn'.headerStream = 0 /\ ~conn'.expected
  BY <1>2, <1>3, <1>5 DEF Completes, SameAside
<1>9. \A i \in StreamId : ~Holds(conn', i)
  BY <1>3, <1>5 DEF Settles
<1>10. peer[1] = "idle" /\ \A i \in StreamId : peer'[i] \in {"idle", "upgraded"}
  BY <1>1 DEF Init
<1>11. PlainState(conn', peer')
  BY <1>7, <1>8, <1>9, <1>10 DEF PlainState
<1>12. \A other \in StreamId \ {1} : conn'.out[other] = Nothing
  BY <1>3, <1>5 DEF Settles
<1>13. conn'.out[1].heads = 1 /\ conn'.out[1].ends = 1
  <2>1. conn'.out[1].heads = c.out[1].heads + 1 /\ conn'.out[1].ends = c.out[1].ends + 1
    BY <1>5 DEF Completes
  <2>2. c.out[1].heads = 0 /\ c.out[1].ends = 0
    BY <1>1, <1>3 DEF Nothing
  <2> QED BY <2>1, <2>2
<1>14. peer[1] \notin {"done", "upgraded"} /\ conn'.out[1].ends <= 1
  BY <1>10, <1>13
<1>15. conn'.out[1].heads = conn'.out[1].ends
  BY <1>13
<1>16. Once
  BY <1>1, <1>11, <1>12, <1>14, <1>15, OnceFacts
<1> QED BY <1>11, <1>16

\* A step after which the client is plain was a frame that keeps to the protocol.
LEMMA JudgeFacts ==
  ASSUME NEW p, Judge(p), plain', breaches \in Nat
  PROVE  plain /\ p
BY DEF Judge, plain

LEMMA NextPlain ==
  ASSUME IInv, Next, plain'
  PROVE  PlainState(conn', peer') /\ Once
<1>0. Base /\ breaches \in Nat /\ (plain => PlainBase)
  BY Http2Assumption DEF IInv, Base, PlainBase, TypeOK
<1>1. CASE Preface
  <2>1. plain
    BY <1>1 DEF Preface, plain
  <2> QED BY <1>0, <1>1, <2>1, PrefacePlain
<1>2. CASE \E value \in Setting, kind \in Kind, len \in Length : Upgrade(value, kind, len)
  <2>1. PICK value \in Setting, kind \in Kind, len \in Length : Upgrade(value, kind, len)
    BY <1>2
  <2>2. plain /\ kind # "refused"
    BY <1>0, <2>1, JudgeFacts DEF Upgrade
  <2> QED BY <1>0, <2>1, <2>2, UpgradePlain
<1>3. CASE Frames
  <2>1. CASE \E id \in StreamId, ended \in BOOLEAN, what \in Kind \cup Wrong, len \in Length :
               Headers(id, ended, what, len)
    <3>1. PICK id \in StreamId, ended \in BOOLEAN, what \in Kind \cup Wrong, len \in Length :
                 Headers(id, ended, what, len)
      BY <2>1
    <3>2. plain /\ ~conn.expected /\ PlainOpen(id, what)
      BY <1>0, <3>1, JudgeFacts DEF Headers
    <3> QED BY <1>0, <3>1, <3>2, HeadersPlain
  <2>2. CASE \E id \in StreamId, ended \in BOOLEAN, fits \in BOOLEAN, len \in Length :
               SplitHeaders(id, ended, fits, len)
    <3>1. PICK id \in StreamId, ended \in BOOLEAN, fits \in BOOLEAN, len \in Length :
                 SplitHeaders(id, ended, fits, len)
      BY <2>2
    <3>2. plain /\ ~conn.expected /\ ~ended /\ PlainOpen(id, "call")
      BY <1>0, <3>1, JudgeFacts DEF SplitHeaders
    <3>3. ended = FALSE
      BY <3>2
    <3>4. SplitHeaders(id, FALSE, fits, len)
      BY <3>1, <3>3
    <3> QED BY <1>0, <3>2, <3>4, SplitHeadersPlain
  <2>3. CASE \E id \in StreamId, what \in Kind \cup Wrong : Continuation(id, what)
    <3>1. PICK id \in StreamId, what \in Kind \cup Wrong : Continuation(id, what)
      BY <2>3
    <3>2. plain /\ conn.expected /\ id = conn.headerStream /\ what \in {"call", "head"}
      BY <1>0, <3>1, JudgeFacts DEF Continuation
    <3> QED BY <1>0, <3>1, <3>2, ContinuationPlain
  <2>4. CASE \E id \in StreamId, n \in Chunk \cup {0}, ended \in BOOLEAN, fits \in BOOLEAN,
                len \in Length : Data(id, n, ended, fits, len)
    <3>1. PICK id \in StreamId, n \in Chunk \cup {0}, ended \in BOOLEAN, fits \in BOOLEAN,
               len \in Length : Data(id, n, ended, fits, len)
      BY <2>4
    <3>2. plain /\ ~conn.expected /\ PlainData(id, n)
      BY <1>0, <3>1, JudgeFacts DEF Data
    <3> QED BY <1>0, <3>1, <3>2, DataPlain
  <2>5. CASE \E id \in StreamId, inc \in Increment : StreamUpdate(id, inc)
    <3>1. PICK id \in StreamId, inc \in Increment : StreamUpdate(id, inc)
      BY <2>5
    <3>2. plain /\ ~conn.expected /\ Opened(id)
      BY <1>0, <3>1, JudgeFacts DEF StreamUpdate
    <3> QED BY <1>0, <3>1, <3>2, StreamUpdatePlain
  <2>6. CASE \E inc \in Increment : ConnectionUpdate(inc)
    <3>1. PICK inc \in Increment : ConnectionUpdate(inc)
      BY <2>6
    <3>2. plain /\ ~conn.expected /\ allowed + inc <= MaxWindow
      BY <1>0, <3>1, JudgeFacts DEF ConnectionUpdate
    <3> QED BY <1>0, <3>1, <3>2, ConnectionUpdatePlain
  <2>7. CASE \E value \in Setting : Settings(value)
    <3>1. PICK value \in Setting : Settings(value)
      BY <2>7
    <3>2. plain /\ ~conn.expected /\ value <= MaxWindow
      BY <1>0, <3>1, JudgeFacts DEF Settings
    <3> QED BY <1>0, <3>1, <3>2, SettingsPlain
  <2>8. CASE \E id \in StreamId : Priority(id)
    <3>1. PICK id \in StreamId : Priority(id)
      BY <2>8
    <3>2. plain /\ ~conn.expected /\ Active(id)
      BY <1>0, <3>1, JudgeFacts DEF Priority
    <3> QED BY <1>0, <3>1, <3>2, PriorityPlain
  <2>9. CASE \E id \in StreamId : RstStream(id)
    <3>1. PICK id \in StreamId : RstStream(id)
      BY <2>9
    <3>2. plain /\ ~conn.expected /\ Opened(id)
      BY <1>0, <3>1, JudgeFacts DEF RstStream
    <3> QED BY <1>0, <3>1, <3>2, RstStreamPlain
  <2>10. CASE GoAway
    BY <1>0, <2>10, JudgeFacts DEF GoAway
  <2> QED BY <1>3, <2>1, <2>2, <2>3, <2>4, <2>5, <2>6, <2>7, <2>8, <2>9, <2>10 DEF Frames
<1> QED BY <1>1, <1>2, <1>3 DEF Next

-----------------------------------------------------------------------------
(* The invariant is inductive.                                             *)

LEMMA InitIInv == Init => IInv
<1> SUFFICES ASSUME Init PROVE IInv
  OBVIOUS
<1>1. /\ conn \in ConnType /\ Clean(conn) /\ Fed(conn) /\ Taken(conn) = Limit
      /\ \A id \in StreamId : ~Holds(conn, id) /\ conn.out[id] = Nothing
      /\ ~conn.closed
      /\ conn.clientWindow = DefaultWindow /\ conn.serverWindow = DefaultWindow /\ conn.last = 0
      /\ conn.headerStream = 0 /\ ~conn.expected
      /\ allowed = DefaultWindow /\ \A id \in StreamId : credit[id] = 0
  BY InitFacts
<1>2. DefaultWindow \in Nat /\ Limit \in Nat /\ DefaultWindow > MinimumWindow /\ MaxBreaches \in Nat
  BY Http2Assumption
<1>3. TypeOK
  <2>1. /\ hands \in BOOLEAN /\ breaches \in 0..MaxBreaches
        /\ peer \in [StreamId -> {"idle", "sending", "ended", "done", "upgraded"}]
        /\ allowed \in Int /\ credit \in [StreamId -> Int]
    <3>1. hands \in BOOLEAN
      BY DEF Init
    <3>2. breaches \in 0..MaxBreaches
      BY <1>2 DEF Init
    <3>3. peer \in [StreamId -> {"idle", "sending", "ended", "done", "upgraded"}]
      BY DEF Init
    <3>4. allowed \in Int /\ credit \in [StreamId -> Int]
      BY <1>2 DEF Init
    <3> QED BY <3>1, <3>2, <3>3, <3>4
  <2>2. \A id \in StreamId :
          LET s == conn.streams[id] IN s.buffer = 0 /\ ~s.remoteClosed /\ ~s.localClosed
    BY <1>1 DEF Clean
  <2> QED BY <1>1, <2>1, <2>2 DEF TypeOK
<1>4. Sound(conn) /\ Balanced(conn, allowed, credit)
  BY <1>1, <1>2 DEF Sound, Balanced
<1>5. \A id \in StreamId : peer[id] = "idle"
  BY DEF Init
<1>6. PlainState(conn, peer)
  BY <1>1, <1>2, <1>5 DEF PlainState, AllOdd
<1> QED BY <1>3, <1>4, <1>6 DEF IInv

LEMMA JudgedType ==
  ASSUME NEW p, Judge(p), TypeOK
  PROVE  breaches' \in 0..MaxBreaches
BY Http2Assumption DEF Judge, TypeOK

LEMMA HeardType ==
  ASSUME NEW told, Hears(told), TypeOK,
         \A i \in StreamId : told[i] \in {"idle", "sending", "ended", "done", "upgraded"}
  PROVE  peer' \in [StreamId -> {"idle", "sending", "ended", "done", "upgraded"}]
BY DEF Hears

\* The books that are no numbers keep their types.
LEMMA NextType ==
  ASSUME TypeOK, Next
  PROVE  /\ breaches' \in 0..MaxBreaches
         /\ peer' \in [StreamId -> {"idle", "sending", "ended", "done", "upgraded"}]
<1>0. /\ breaches \in 0..MaxBreaches
      /\ peer \in [StreamId -> {"idle", "sending", "ended", "done", "upgraded"}]
  BY DEF TypeOK
<1>1. CASE Preface
  BY <1>0, <1>1 DEF Preface
<1>2. CASE \E value \in Setting, kind \in Kind, len \in Length : Upgrade(value, kind, len)
  BY <1>0, <1>2, JudgedType DEF Upgrade
<1>3. CASE Frames
  <2>1. CASE \E id \in StreamId, ended \in BOOLEAN, what \in Kind \cup Wrong, len \in Length :
               Headers(id, ended, what, len)
    BY <1>0, <2>1, JudgedType, HeardType DEF Headers
  <2>2. CASE \E id \in StreamId, ended \in BOOLEAN, fits \in BOOLEAN, len \in Length :
               SplitHeaders(id, ended, fits, len)
    BY <1>0, <2>2, JudgedType, HeardType DEF SplitHeaders
  <2>3. CASE \E id \in StreamId, what \in Kind \cup Wrong : Continuation(id, what)
    BY <1>0, <2>3, JudgedType, HeardType DEF Continuation
  <2>4. CASE \E id \in StreamId, n \in Chunk \cup {0}, ended \in BOOLEAN, fits \in BOOLEAN,
                len \in Length : Data(id, n, ended, fits, len)
    BY <1>0, <2>4, JudgedType, HeardType DEF Data
  <2>5. CASE \E id \in StreamId, inc \in Increment : StreamUpdate(id, inc)
    BY <1>0, <2>5, JudgedType, HeardType DEF StreamUpdate
  <2>6. CASE \E inc \in Increment : ConnectionUpdate(inc)
    BY <1>0, <2>6, JudgedType, HeardType DEF ConnectionUpdate
  <2>7. CASE \E value \in Setting : Settings(value)
    BY <1>0, <2>7, JudgedType, HeardType DEF Settings
  <2>8. CASE \E id \in StreamId : Priority(id)
    BY <1>0, <2>8, JudgedType, HeardType DEF Priority
  <2>9. CASE \E id \in StreamId : RstStream(id)
    BY <1>0, <2>9, JudgedType, HeardType DEF RstStream
  <2>10. CASE GoAway
    BY <1>0, <2>10, JudgedType DEF GoAway
  <2> QED BY <1>3, <2>1, <2>2, <2>3, <2>4, <2>5, <2>6, <2>7, <2>8, <2>9, <2>10 DEF Frames
<1> QED BY <1>1, <1>2, <1>3 DEF Next

\* Once the two speak HTTP/2 they go on with it.
LEMMA NextHands ==
  ASSUME Next
  PROVE  hands'
<1>1. CASE Preface
  BY <1>1 DEF Preface
<1>2. CASE \E value \in Setting, kind \in Kind, len \in Length : Upgrade(value, kind, len)
  BY <1>2 DEF Upgrade
<1>3. CASE Frames
  <2>1. ASSUME NEW c, Take(c)
        PROVE  hands'
    BY <2>1 DEF Take
  <2>2. CASE \E id \in StreamId, what \in Kind \cup Wrong : Continuation(id, what)
    BY <2>2 DEF Continuation
  <2> QED BY <1>3, <2>1, <2>2 DEF Frames, Headers, SplitHeaders, Data, StreamUpdate,
          ConnectionUpdate, Settings, Priority, RstStream, GoAway
<1> QED BY <1>1, <1>2, <1>3 DEF Next

\* A step preserves the invariant; what it writes is as the action properties say.
LEMMA NextIInv ==
  ASSUME IInv, Next
  PROVE  IInv' /\ (\A id \in StreamId : Fits(id)) /\ (plain' => Once)
<1>1. Base /\ TypeOK
  BY DEF IInv, Base
<1>2. Good
  BY <1>1, NextFits
<1>3. plain' => PlainState(conn', peer') /\ Once
  BY NextPlain
<1>4. hands'
  BY NextHands
<1>5. TypeOK'
  <2>1. /\ breaches' \in 0..MaxBreaches
        /\ peer' \in [StreamId -> {"idle", "sending", "ended", "done", "upgraded"}]
    BY <1>1, NextType
  <2>2. conn' \in ConnType /\ Clean(conn') /\ allowed' \in Int /\ credit' \in [StreamId -> Int]
    BY <1>2 DEF Good, Sound
  <2> QED BY <1>4, <2>1, <2>2 DEF TypeOK, Clean
<1>6. Sound(conn)' /\ Balanced(conn, allowed, credit)' /\ PlainState(conn, peer)' = PlainState(conn', peer')
  <2>1. Sound(conn)' = Sound(conn')
    BY DEF Sound, Clean, Fed, Taken, Held, Holds
  <2>2. Balanced(conn, allowed, credit)' = Balanced(conn', allowed', credit')
    BY DEF Balanced, Holds
  <2>3. PlainState(conn, peer)' = PlainState(conn', peer')
    BY DEF PlainState, Taken, Held, Holds, AllOdd, MayOpen
  <2> QED BY <1>2, <2>1, <2>2, <2>3 DEF Good
<1>7. IInv'
  BY <1>3, <1>4, <1>5, <1>6 DEF IInv
<1> QED BY <1>2, <1>3, <1>7 DEF Good

LEMMA StutterIInv == IInv /\ UNCHANGED vars => IInv'
<1> SUFFICES ASSUME IInv, UNCHANGED vars
             PROVE  IInv'
  OBVIOUS
<1>1. /\ hands' = hands /\ conn' = conn /\ breaches' = breaches /\ peer' = peer
      /\ allowed' = allowed /\ credit' = credit
  BY DEF vars
<1>2. TypeOK' = TypeOK /\ Init' = Init /\ plain' = plain
  BY <1>1 DEF TypeOK, Init, plain
<1>3. Sound(conn)' = Sound(conn)
  BY <1>1 DEF Sound, Clean, Fed, Taken, Held, Holds
<1>4. Balanced(conn, allowed, credit)' = Balanced(conn, allowed, credit)
  BY <1>1 DEF Balanced, Holds
<1>5. PlainState(conn, peer)' = PlainState(conn, peer)
  BY <1>1 DEF PlainState, Taken, Held, Holds, AllOdd, MayOpen
<1> QED BY <1>1, <1>2, <1>3, <1>4, <1>5 DEF IInv

LEMMA SpecIInv == Spec => []IInv
<1>1. Init => IInv
  BY InitIInv
<1>2. IInv /\ [Next]_vars => IInv'
  BY NextIInv, StutterIInv
<1> QED BY <1>1, <1>2, PTL DEF Spec

-----------------------------------------------------------------------------
(* The theorems.                                                           *)

\* The connection is well formed and, between two frames, no stream waits for a
\* window: what writeBufferedData could not send is gone with its stream, so
\* that sendBufferedData never finds anything to send.
THEOREM TypeCorrect == Spec => []TypeOK
<1>1. IInv => TypeOK
  BY DEF IInv
<1> QED BY <1>1, SpecIInv, PTL

\* The limit of concurrent streams (handleHeaders, releaseStream, shutdown) is
\* kept whatever the client sends, and a plain client never loses a slot.
THEOREM SlotsAreAccounted == Spec => []SlotsAccounted
<1>1. IInv => SlotsAccounted
  BY DEF IInv, Sound, PlainState, Taken, SlotsAccounted
<1> QED BY <1>1, SpecIInv, PTL

\* No frame of a plain client is an error of the connection: neither frames that
\* cross the end of a stream nor header blocks in two frames.
THEOREM PlainClientsAreKept == Spec => []PlainClientIsKept
<1>1. IInv => PlainClientIsKept
  BY DEF IInv, PlainState, PlainClientIsKept
<1> QED BY <1>1, SpecIInv, PTL

\* The refills of handleData keep both windows of an upload open.
THEOREM UploadsGoOn == Spec => []UploadGoesOn
<1>1. IInv => UploadGoesOn
  <2> SUFFICES ASSUME IInv, plain
               PROVE  UploadGoesOn
    BY DEF UploadGoesOn
  <2>1. PlainState(conn, peer) /\ Fed(conn) /\ conn \in ConnType
    BY DEF IInv, Sound
  <2>2. conn.serverWindow > 0
    BY <2>1, Http2Assumption DEF PlainState, ConnType
  <2>3. \A id \in Held(conn) : conn.streams[id].serverWindow > 0
    BY <2>1 DEF Fed, Held
  <2> QED BY <2>2, <2>3 DEF UploadGoesOn
<1> QED BY <1>1, SpecIInv, PTL

\* writeBufferedData and SETTINGS between them never let more out than the
\* client allowed by its own books.
THEOREM WindowsAreKept == Spec => WithinWindow
<1>1. IInv /\ [Next]_vars =>
        [\A id \in StreamId : conn'.out[id].data > 0 => conn'.out[id].data <= ClientRoom(id)]_vars
  BY NextIInv DEF Fits
<1> QED BY <1>1, SpecIInv, PTL DEF Spec, WithinWindow

\* An answer that is ended is shorter than its body only by what the windows
\* did not let through.
THEOREM CutByWindows == Spec => CutByWindowOnly
<1>1. IInv /\ [Next]_vars =>
        [\A id \in StreamId :
           LET o == conn'.out[id] IN o.ends > 0 => o.data = Least(o.body, ClientRoom(id))]_vars
  BY NextIInv DEF Fits
<1> QED BY <1>1, SpecIInv, PTL DEF Spec, CutByWindowOnly

\* A plain client gets one answer to each of its requests, ended once.
THEOREM AnsweredOnceEach == Spec => AnsweredOnce
<1>1. IInv /\ [Next]_vars =>
        [plain' =>
           \A id \in StreamId :
             LET o == conn'.out[id] IN
             /\ o.heads = o.ends /\ o.ends <= 1
             /\ peer[id] \in {"done", "upgraded"} => o = Nothing
             /\ peer'[id] # "ended"]_vars
  BY NextIInv DEF Once
<1> QED BY <1>1, SpecIInv, PTL DEF Spec, AnsweredOnce

=============================================================================
