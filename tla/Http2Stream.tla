---------------------------- MODULE Http2Stream ----------------------------
(***************************************************************************)
(* One HTTP/2 connection between the gateway and a worker, from the        *)
(* worker's side: admin/app/grpc/parse/Http2Driver.php with the frame loop *)
(* of Http2Parser.php and the calls that Grpc.php answers.                 *)
(*                                                                         *)
(* The worker handles a frame to its end before it looks at the next one,  *)
(* so that each action is a frame of the client, and `conn' is what the    *)
(* handlers make of it.  The other variables are the books of the client,  *)
(* read by no handler.                                                     *)
(*                                                                         *)
(* InternalService declares unary calls only; the branches for client and  *)
(* server streaming, and server push, are never taken and not modelled.    *)
(* support/bootstrap.php installs the error handler of the framework: to   *)
(* read what is not in an array, or a property of null, is an exception,   *)
(* and an exception of no stream ends the connection.                      *)
(***************************************************************************)
EXTENDS Integers, FiniteSets, FiniteSetsExt

CONSTANTS
  StreamId,       \* stream identifiers that the client may use
  Limit,          \* Options::getConcurrentStreamLimit
  DefaultWindow,  \* DEFAULT_WINDOW_SIZE
  MaxWindow,      \* 2147483647
  BodyLimit,      \* Options::getBodySizeLimit
  MinimumWindow,  \* MINIMUM_WINDOW
  MaxIncrement,   \* MAX_INCREMENT
  Chunk,          \* lengths of DATA frames
  Increment,      \* values of WINDOW_UPDATE frames
  Setting,        \* values of SETTINGS_INITIAL_WINDOW_SIZE
  Length,         \* lengths of response bodies
  MaxBreaches     \* bound: frames that a plain client does not send

ASSUME Http2Assumption ==
  \* Stream identifiers have 31 bits.
  /\ StreamId \subseteq Nat \ {0} /\ IsFiniteSet(StreamId) /\ Limit \in Nat \ {0}
  /\ DefaultWindow \in Nat /\ MaxWindow \in Nat /\ BodyLimit \in Nat
  /\ MinimumWindow \in Nat /\ MaxIncrement \in Nat
  /\ Chunk \subseteq Nat \ {0} /\ Increment \subseteq Nat \ {0}
  /\ MaxBreaches \in Nat /\ Setting \subseteq Nat /\ Length \subseteq Nat \ {0}
  \* A frame is shorter than the reserve of a window, and one increment
  \* makes up for it.
  /\ \A n \in Chunk : n <= MinimumWindow /\ n <= MaxIncrement
  /\ MinimumWindow < DefaultWindow /\ MinimumWindow < BodyLimit

VARIABLES
  hands,    \* whether the two speak HTTP/2 by now
  conn,     \* the connection, see ConnType
  breaches, \* frames that a plain client does not send, see below
  peer,     \* what each stream is to the client
  allowed,  \* what the client still lets the worker send on the connection
  credit    \* what it still lets it send on each stream, beyond the initial window

vars == <<hands, conn, breaches, peer, allowed, credit>>

\* What a request asks for: a call, a HEAD request, a method that is not
\* allowed, or a call whose message the handler cannot parse.
Kind == {"call", "head", "refused", "garbled"}

StreamType ==
  [held : BOOLEAN, window : Int, serverWindow : Int, received : Nat, buffer : Nat,
   reserved : BOOLEAN, remoteClosed : BOOLEAN, localClosed : BOOLEAN]

\* What the worker wrote on a stream for the last frame: header blocks, bytes
\* of data, ends of stream, RST_STREAM; and the length of the body it had.
OutType == [heads : Nat, data : Nat, ends : Nat, reset : BOOLEAN, body : Nat]

ConnType ==
  [closed : BOOLEAN,
   clientWindow : Int, initialWindow : Nat, serverWindow : Int,
   remaining : Int, last : Nat,
   streams : [StreamId -> StreamType],
   requests : [StreamId -> Kind \cup {"none"}],
   headerStream : StreamId \cup {0}, expected : BOOLEAN, wrote : Nat,
   out : [StreamId -> OutType]]

Least(a, b) == IF a <= b THEN a ELSE b
Odd(id) == id % 2 = 1

Stream(held, window) ==
  [held |-> held, window |-> window, serverWindow |-> BodyLimit, received |-> 0, buffer |-> 0,
   reserved |-> FALSE, remoteClosed |-> FALSE, localClosed |-> FALSE]

NewStream(window) == Stream(TRUE, window)

\* A stream that is not in the map.
Gone == Stream(FALSE, 0)

Nothing == [heads |-> 0, data |-> 0, ends |-> 0, reset |-> FALSE, body |-> 0]
Silence == [id \in StreamId |-> Nothing]

Init ==
  /\ hands = FALSE
  /\ conn = [closed |-> FALSE,
             clientWindow |-> DefaultWindow, initialWindow |-> DefaultWindow,
             serverWindow |-> DefaultWindow, remaining |-> Limit, last |-> 0,
             streams |-> [id \in StreamId |-> Gone],
             requests |-> [id \in StreamId |-> "none"],
             headerStream |-> 0, expected |-> FALSE,
             wrote |-> 0, out |-> Silence]
  /\ breaches = 0
  /\ peer = [id \in StreamId |-> "idle"]
  /\ allowed = DefaultWindow
  /\ credit = [id \in StreamId |-> 0]

-----------------------------------------------------------------------------
(* What the handlers are made of: each takes the connection and returns it. *)

Holds(c, id) == c.streams[id].held
Held(c) == {id \in StreamId : Holds(c, id)}

\* releaseStream
Release(c, id) ==
  IF Holds(c, id)
  THEN [c EXCEPT !.streams[id] = Gone,
                 !.remaining = IF Odd(id) THEN @ + 1 ELSE @]
  ELSE c

\* handleStreamException
Reset(c, id) == Release([c EXCEPT !.out[id].reset = TRUE], id)

\* handleConnectionException, shutdown
Shutdown(c) ==
  [c EXCEPT !.closed = TRUE,
            !.streams = [id \in StreamId |-> Gone],
            !.remaining = @ + Cardinality({id \in Held(c) : Odd(id)})]

\* Mutant: the window of the stream is not asked.
ConnectionRoom(c, id) == c.clientWindow

\* What the windows of connection and stream let through.
Room(c, id) == Least(c.clientWindow, c.streams[id].window)

\* Mutant: a body that does not fit is not begun.
AllOrNothing(c, id) ==
  IF Room(c, id) >= c.streams[id].buffer THEN c.streams[id].buffer ELSE 0

\* As much of the buffer as there is room for.
Portion(c, id) ==
  LET room == Room(c, id) IN
  IF room >= c.streams[id].buffer THEN c.streams[id].buffer
  ELSE IF room > 0 THEN room ELSE 0

\* writeBufferedData.  The last frame ends the stream if the worker is done.
WriteBuffered(c, id) ==
  LET n == Portion(c, id)
      s == c.streams[id]
      o == c.out[id]
      ended == Room(c, id) >= s.buffer /\ s.localClosed
  IN [c EXCEPT !.clientWindow = c.clientWindow - n,
               !.wrote = c.wrote + n,
               !.streams[id] = [s EXCEPT !.window = s.window - n, !.buffer = s.buffer - n],
               !.out[id] = [o EXCEPT !.data = o.data + n,
                                     !.ends = IF ended THEN o.ends + 1 ELSE o.ends]]

\* sendBufferedData: what waits is sent when a window grows.
SendBuffered(c) ==
  LET waiting == {id \in Held(c) : c.streams[id].buffer > 0}
      Flush(id, d) ==
        IF Room(d, id) > 0 THEN WriteBuffered(d, id) ELSE d
  IN IF waiting = {} THEN c ELSE FoldSet(Flush, c, waiting)

\* sendHeader, sendBody, the trailers.  A call has trailers, which end the
\* stream whatever is left in the buffer; the other answers have none, and
\* only a HEAD request is followed by an (empty) DATA frame that ends it.
Respond(c, id, len) ==
  LET call == c.requests[id] = "call"
      body == IF call THEN len ELSE 0
      headed == [c EXCEPT !.out[id] = [c.out[id] EXCEPT !.heads = c.out[id].heads + 1,
                                                        !.body = body],
                          !.streams[id] = [c.streams[id] EXCEPT !.localClosed = ~call,
                                                                !.buffer = body]]
      written == WriteBuffered(headed, id)
  IN CASE c.requests[id] = "refused" -> headed
       [] c.requests[id] = "head" -> written
       [] OTHER -> [written EXCEPT !.out[id].ends = @ + 1,
                                   !.streams[id].localClosed = TRUE]

\* Mutant: a stream is kept until its buffer is empty.
KeptWhileWaiting(c, id) ==
  IF Holds(c, id) /\ c.streams[id].buffer = 0 THEN Release(c, id) ELSE c

\* The `finally' of send: the client is done, so the stream goes, and with it
\* what its buffer still holds.
Sent(c, id) ==
  IF Holds(c, id) /\ c.streams[id].remoteClosed THEN Release(c, id) ELSE c

\* handleStreamEnd.  fits: the body has the length that was announced.
EndStream(c, id, fits, len) ==
  IF ~Holds(c, id) THEN c
  ELSE LET ended == [c EXCEPT !.streams[id].remoteClosed = TRUE] IN
       IF ~fits THEN Reset(ended, id)
       ELSE IF c.requests[id] \in {"none", "garbled"}
            THEN Shutdown(ended)
            ELSE Sent(Respond(ended, id, len), id)

\* What handleHeaders asks of a stream that is not there yet.
MayOpen(c, id) == Odd(id) /\ c.remaining > 0 /\ id > c.last

\* The stream and its slot, unless PRIORITY made it before.
Open(c, id) ==
  IF Holds(c, id) THEN c
  ELSE [c EXCEPT !.streams[id] = NewStream(c.initialWindow),
                 !.remaining = @ - 1]

\* A body is to come: the window of the connection is made large.
Welcome(c) ==
  IF c.serverWindow <= BodyLimit \div 2 THEN [c EXCEPT !.serverWindow = BodyLimit] ELSE c

\* What can be wrong with a header block: a field name, found before the block
\* is put away; a pseudo header or the size; a value, found once the stream is
\* open; the announced length, which counts for a request with a body.
Wrong == {"badName", "badPseudo", "badValue", "badLength"}

\* handleHeaders, and the decoding before it.
HandleHeaders(c, id, ended, what) ==
  IF what = "badName" THEN Reset([c EXCEPT !.headerStream = id], id)
  ELSE IF what = "badPseudo" \/ (Holds(c, id) /\ c.streams[id].remoteClosed) THEN Reset(c, id)
  ELSE IF ~Holds(c, id) /\ ~MayOpen(c, id) THEN Shutdown(c)
  ELSE LET opened == [Open(c, id) EXCEPT !.last = IF id > @ THEN id ELSE @]
           ready == IF ended THEN opened ELSE Welcome(opened)
       IN IF opened.streams[id].reserved \/ what = "badValue" THEN Reset(opened, id)
          ELSE IF what = "badLength" /\ ~ended THEN Reset(ready, id)
          ELSE [ready EXCEPT !.streams[id].reserved = TRUE,
                             !.requests[id] = IF what = "badLength" THEN "call" ELSE what]

\* Mutant: only the window of the stream is refilled.
NoTopUp(c) == c

\* The window of the connection never falls below its reserve.
TopUp(c) ==
  IF c.serverWindow <= MinimumWindow
  THEN [c EXCEPT !.serverWindow = @ + MaxIncrement] ELSE c

\* The window of a stream is refilled up to one byte beyond the limit.
TopUpStream(c, id) ==
  LET s == c.streams[id]
      inc == Least(BodyLimit + 1 - s.received - s.serverWindow, MaxIncrement)
  IN IF s.serverWindow <= MinimumWindow /\ inc > 0
     THEN [c EXCEPT !.streams[id].serverWindow = @ + inc] ELSE c

\* handleData.  There is no look-up that may fail: a stream that is gone, or
\* has no request yet, is an error of the connection.
HandleData(c, id, n) ==
  IF ~Holds(c, id) THEN Shutdown(c)
  ELSE IF c.streams[id].remoteClosed THEN Reset(c, id)
  ELSE IF n = 0 THEN c
  ELSE LET s == c.streams[id]
           taken == [c EXCEPT !.serverWindow = @ - n,
                              !.streams[id] = [s EXCEPT !.serverWindow = s.serverWindow - n,
                                                        !.received = s.received + n]]
       IN IF taken.streams[id].received > BodyLimit THEN Reset(taken, id)
          ELSE IF c.requests[id] = "none" THEN Shutdown(taken)
          ELSE TopUpStream(TopUp(taken), id)

-----------------------------------------------------------------------------
(* The books of the client, who sees what a frame made the worker write     *)
(* before it sends the next one.                                           *)

Active(id) == peer[id] \in {"sending", "ended"}
Opened(id) == peer[id] \in {"sending", "ended", "done"}

\* What each stream is to the client after it was told: it is done when the
\* worker ended or reset it.
Hears(told) ==
  peer' = [id \in StreamId |->
             IF conn'.out[id].ends > 0 \/ conn'.out[id].reset THEN "done" ELSE told[id]]

\* The windows by the client's books, after it gave `inc' bytes to the stream
\* `to', or to the connection (0), and the worker wrote what it wrote.
Counts(to, inc) ==
  /\ allowed' = allowed - conn'.wrote + IF to = 0 THEN inc ELSE 0
  /\ credit' = [id \in StreamId |->
                  IF ~Holds(conn', id) THEN 0
                  ELSE credit[id] - conn'.out[id].data + IF id = to THEN inc ELSE 0]

\* A plain client keeps to the protocol.  Besides, it uses methods that are
\* allowed, sends whole messages within the limit, ends no request in a header
\* block of several frames, sends no PRIORITY for a stream that is not active,
\* and no frame about an upgraded request.
PlainOpen(id, what) ==
  /\ Odd(id) /\ \A other \in StreamId : peer[other] # "idle" => other < id
  /\ Cardinality({other \in StreamId : Active(other)}) < Limit
  /\ what \in {"call", "head"}

PlainData(id, n) ==
  /\ peer[id] = "sending"
  /\ n <= conn.serverWindow /\ n <= conn.streams[id].serverWindow
  /\ conn.streams[id].received + n <= BodyLimit

Judge(p) ==
  \/ p /\ UNCHANGED breaches
  \/ ~p /\ breaches < MaxBreaches /\ breaches' = breaches + 1

plain == breaches = 0

-----------------------------------------------------------------------------
(* The frames.                                                             *)

\* The client speaks HTTP/2 at once.
Preface ==
  /\ ~hands /\ hands' = TRUE
  /\ UNCHANGED <<conn, breaches, peer, allowed, credit>>

\* Or it upgrades a request of HTTP/1.1, which becomes stream 1.  (An error in
\* here is not caught by the loop; such a request is left out.)
Upgrade(value, kind, len) ==
  /\ ~hands /\ hands' = TRUE /\ 1 \in StreamId /\ kind # "garbled" /\ value <= MaxWindow
  /\ LET opened == Open([conn EXCEPT !.initialWindow = value], 1)
         asked == [opened EXCEPT !.streams[1].reserved = TRUE,
                                 !.requests[1] = kind]
     IN conn' = EndStream(asked, 1, TRUE, len)
  /\ Judge(kind # "refused")
  /\ peer' = [peer EXCEPT ![1] = "upgraded"]
  /\ Counts(0, 0)

\* The connection as the loop finds it when it takes the next frame.
Now == [conn EXCEPT !.out = Silence, !.wrote = 0]

\* Within a header block it takes nothing but CONTINUATION.
Take(c) ==
  /\ hands /\ ~conn.closed /\ UNCHANGED hands
  /\ conn' = IF conn.expected THEN Shutdown(Now) ELSE c

\* A block whose decoding failed is still there when the next one comes.
Foreign(id) == conn.headerStream \notin {0, id}
Blamed(id, what) ==
  IF conn.headerStream = id /\ ~conn.expected THEN "badName" ELSE what

\* HEADERS with END_HEADERS.
Headers(id, ended, what, len) ==
  /\ Take(IF Foreign(id) THEN Shutdown(Now)
          ELSE LET c == HandleHeaders(Now, id, ended, Blamed(id, what))
               IN IF ended THEN EndStream(c, id, TRUE, len) ELSE c)
  /\ Judge(~conn.expected /\ PlainOpen(id, what))
  /\ Hears([peer EXCEPT ![id] = IF ended THEN "ended" ELSE "sending"])
  /\ Counts(0, 0)

\* HEADERS without END_HEADERS.  Its END_STREAM is obeyed at once, before there
\* is a request.
SplitHeaders(id, ended, fits, len) ==
  /\ Take(IF Foreign(id) THEN Shutdown(Now)
          ELSE LET c == [Now EXCEPT !.headerStream = id, !.expected = TRUE]
               IN IF ended THEN EndStream(c, id, fits, len) ELSE c)
  /\ Judge(~conn.expected /\ ~ended /\ PlainOpen(id, "call"))
  /\ Hears([peer EXCEPT ![id] = IF ended THEN "ended" ELSE "sending"])
  /\ Counts(0, 0)

\* The last CONTINUATION of a header block.
Continuation(id, what) ==
  /\ hands /\ ~conn.closed /\ UNCHANGED hands
  /\ conn' = IF id # conn.headerStream THEN Shutdown(Now)
             ELSE HandleHeaders([Now EXCEPT !.headerStream = 0, !.expected = FALSE],
                                id, FALSE, Blamed(id, what))
  /\ Judge(conn.expected /\ id = conn.headerStream /\ what \in {"call", "head"})
  /\ Hears(peer)
  /\ Counts(0, 0)

Data(id, n, ended, fits, len) ==
  /\ Take(LET c == HandleData(Now, id, n)
          IN IF ended THEN EndStream(c, id, fits, len) ELSE c)
  /\ Judge(~conn.expected /\ PlainData(id, n))
  /\ Hears([peer EXCEPT ![id] = IF ended /\ @ = "sending" THEN "ended" ELSE @])
  /\ Counts(0, 0)

\* Mutant: a stream that is gone is an error like one that never was.
NotThere(c, id) == ~Holds(c, id)

\* What handleStreamWindowIncrement takes for a stream that never was.
Unknown(c, id) == id > c.last

\* handleStreamWindowIncrement
StreamUpdate(id, inc) ==
  /\ Take(IF Unknown(conn, id) THEN Shutdown(Now)
          ELSE IF ~Holds(conn, id) THEN Now
          ELSE IF conn.streams[id].window + inc > MaxWindow THEN Reset(Now, id)
          ELSE SendBuffered([Now EXCEPT !.streams[id].window = @ + inc]))
  /\ Judge(~conn.expected /\ Opened(id))
  /\ Hears(peer)
  /\ Counts(id, inc)

\* handleConnectionWindowIncrement
ConnectionUpdate(inc) ==
  /\ Take(IF conn.clientWindow + inc > MaxWindow THEN Shutdown(Now)
          ELSE SendBuffered([Now EXCEPT !.clientWindow = @ + inc]))
  /\ Judge(~conn.expected /\ allowed + inc <= MaxWindow)
  /\ Hears(peer)
  /\ Counts(0, inc)

\* handleSettings: the difference goes to every stream.
Settings(value) ==
  /\ Take(IF value > MaxWindow THEN Shutdown(Now)
          ELSE SendBuffered(
            [Now EXCEPT !.initialWindow = value,
                        !.streams = [id \in StreamId |->
                          IF Holds(conn, id)
                          THEN [conn.streams[id] EXCEPT !.window = @ + value - conn.initialWindow]
                          ELSE conn.streams[id]]]))
  /\ Judge(~conn.expected /\ value <= MaxWindow)
  /\ Hears(peer)
  /\ Counts(0, 0)

\* handlePriority, for a frame of its own or for a flag of HEADERS.  A slot is
\* taken before it is known whether there will be a stream, and a stream with
\* an even number never gives it back.
Priority(id) ==
  /\ Take(IF Holds(conn, id) THEN Now
          ELSE IF conn.remaining <= 0 THEN Shutdown(Now)
          ELSE IF id <= conn.last THEN [Now EXCEPT !.remaining = @ - 1]
          ELSE Open(Now, id))
  /\ Judge(~conn.expected /\ Active(id))
  /\ Hears(peer)
  /\ Counts(0, 0)

\* Mutant: the slot of a stream that the client gives up is kept.
KeepSlot(c, id) ==
  IF Holds(c, id) THEN [c EXCEPT !.streams[id] = Gone] ELSE c

\* handleStreamReset
Forget(c, id) == Release(c, id)

RstStream(id) ==
  /\ Take(Forget(Now, id))
  /\ Judge(~conn.expected /\ Opened(id))
  /\ Hears([peer EXCEPT ![id] = "done"])
  /\ Counts(0, 0)

\* The client says goodbye.
GoAway ==
  /\ Take(Shutdown(Now))
  /\ Judge(FALSE)
  /\ UNCHANGED peer
  /\ Counts(0, 0)

Frames ==
  \/ \E id \in StreamId, ended \in BOOLEAN, what \in Kind \cup Wrong, len \in Length :
       Headers(id, ended, what, len)
  \/ \E id \in StreamId, ended \in BOOLEAN, fits \in BOOLEAN, len \in Length :
       SplitHeaders(id, ended, fits, len)
  \/ \E id \in StreamId, what \in Kind \cup Wrong : Continuation(id, what)
  \/ \E id \in StreamId, n \in Chunk \cup {0}, ended \in BOOLEAN, fits \in BOOLEAN, len \in Length :
       Data(id, n, ended, fits, len)
  \/ \E id \in StreamId, inc \in Increment : StreamUpdate(id, inc)
  \/ \E inc \in Increment : ConnectionUpdate(inc)
  \/ \E value \in Setting : Settings(value)
  \/ \E id \in StreamId : Priority(id)
  \/ \E id \in StreamId : RstStream(id)
  \/ GoAway

Next ==
  \/ Preface
  \/ \E value \in Setting, kind \in Kind, len \in Length : Upgrade(value, kind, len)
  \/ Frames

Spec == Init /\ [][Next]_vars

-----------------------------------------------------------------------------
(* Properties.                                                             *)

\* Types, and: between two frames no stream waits for window, and none is
\* closed on either side, so that sendBufferedData never finds anything to send.
TypeOK ==
  /\ hands \in BOOLEAN /\ conn \in ConnType
  /\ \A id \in StreamId :
       LET s == conn.streams[id] IN s.buffer = 0 /\ ~s.remoteClosed /\ ~s.localClosed
  /\ breaches \in 0..MaxBreaches
  /\ peer \in [StreamId -> {"idle", "sending", "ended", "done", "upgraded"}]
  /\ allowed \in Int /\ credit \in [StreamId -> Int]

\* What the client let the worker write on a stream for this frame.
ClientRoom(id) ==
  Least(allowed' + conn'.wrote,
        conn'.initialWindow + IF Holds(conn', id) THEN credit'[id] + conn'.out[id].data
                                                  ELSE credit[id])

\* The worker sends no more than the client allowed on the connection and on
\* the stream, by the client's own books, whatever SETTINGS did to the windows
\* and however oddly the client behaves.
WithinWindow ==
  [][\A id \in StreamId :
       conn'.out[id].data > 0 => conn'.out[id].data <= ClientRoom(id)]_vars

\* An answer that is ended is whole, or as long as the windows allowed: send()
\* drops the rest with the stream, but nothing else is dropped.
CutByWindowOnly ==
  [][\A id \in StreamId :
       LET o == conn'.out[id] IN o.ends > 0 => o.data = Least(o.body, ClientRoom(id))]_vars

\* A plain client gets one answer to each request, ended once, as soon as it
\* has ended the request; and nothing on a stream that is done.
AnsweredOnce ==
  [][plain' =>
       \A id \in StreamId :
         LET o == conn'.out[id] IN
         /\ o.heads = o.ends /\ o.ends <= 1
         /\ peer[id] \in {"done", "upgraded"} => o = Nothing
         /\ peer'[id] # "ended"]_vars

\* The number of streams stays within the limit, and a plain client loses no
\* slot: streams that end in any way give theirs back.
SlotsAccounted ==
  ~conn.closed =>
    LET taken == conn.remaining + Cardinality(Held(conn))
    IN taken <= Limit /\ (plain => taken = Limit)

\* The connection of a plain client is not ended by the worker.
PlainClientIsKept == plain => ~conn.closed

\* A plain client that has more to send can always send: windows are refilled
\* before they are used up.
UploadGoesOn ==
  plain =>
    /\ conn.serverWindow > 0
    /\ \A id \in Held(conn) : conn.streams[id].serverWindow > 0
=============================================================================
