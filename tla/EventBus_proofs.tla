--------------------------- MODULE EventBus_proofs ---------------------------
(***************************************************************************)
(* One consumer, in order, owed and on its way: for any number of          *)
(* subscribers, publishers, messages and faults, and any capacity.         *)
(***************************************************************************)
EXTENDS EventBus, TLAPS

-----------------------------------------------------------------------------
(* The inductive invariant.                                                *)

Starter(s) == at[s] \in {"asking", "binding"}

\* There is one place, one call that starts a consumer, and one consumer.
OnePlace ==
  /\ \A s, t \in Subscriber : Starter(s) /\ Starter(t) => s = t
  /\ \A s \in Subscriber : Starter(s) => entry = Starting
  /\ \A s \in Subscriber : at[s] = "asking" => Live = {}
  /\ \A k \in Live : entry = k \/ at[chan[k].by] = "binding"
  /\ \A i, j \in DOMAIN chan : chan[i].by = chan[j].by => i = j
  /\ \A k \in DOMAIN chan : at[chan[k].by] \in {"binding", "done"}

\* A call of publish has a message of its own and a channel to go to.
PassesSound ==
  \A p \in Publisher : Publishing(p) =>
    /\ pub[p].message \in 1..count /\ from[pub[p].message] = p
    /\ pub[p].next \in DOMAIN chan

\* The call has not yet sent its message to the channel.
Pending(p, k) == pub[p].next < k \/ (pub[p].next = k /\ ~pub[p].sent)

Follows(x, y) == from[x] = from[y] => x < y

Published ==
  /\ \A k \in DOMAIN chan : \A i \in DOMAIN chan[k].log : chan[k].log[i] <= count
  /\ \A s \in Subscriber : \A i \in DOMAIN calls[s] : calls[s][i] <= count

LogsInOrder ==
  \A k \in DOMAIN chan : \A i, j \in DOMAIN chan[k].log :
    i < j => Follows(chan[k].log[i], chan[k].log[j])

CallsBeforeLog ==
  \A k \in Live : \A s \in Subscriber : \A i \in DOMAIN calls[s] :
    \A j \in chan[k].next..Len(chan[k].log) : Follows(calls[s][i], chan[k].log[j])

PendingIsLast ==
  \A p \in Publisher : \A k \in Live : Publishing(p) /\ Pending(p, k) =>
    /\ \A i \in DOMAIN chan[k].log : Follows(chan[k].log[i], pub[p].message)
    /\ \A s \in Subscriber : \A i \in DOMAIN calls[s] : Follows(calls[s][i], pub[p].message)

OwedToHandlers ==
  /\ \A s \in Subscriber : at[s] # "new" => s \in ToSet(handlers)
  /\ \A m \in Message : due[m] \subseteq ToSet(handlers)

IInv ==
  /\ TypeOK /\ OnePlace /\ PassesSound /\ Published /\ LogsInOrder
  /\ CallsBeforeLog /\ PendingIsLast /\ HeardOnceInOrder
  /\ OwedToHandlers /\ OwedIsComing /\ PlaceHasOwner

-----------------------------------------------------------------------------
(* Sequences and channels.                                                 *)

LEMMA AppendFacts ==
  ASSUME NEW S, NEW q \in Seq(S), NEW e \in S
  PROVE  /\ Append(q, e) \in Seq(S) /\ Len(q) \in Nat
         /\ DOMAIN q = 1..Len(q) /\ DOMAIN Append(q, e) = 1..Len(q) + 1
         /\ Len(Append(q, e)) = Len(q) + 1
         /\ Append(q, e)[Len(q) + 1] = e
         /\ \A i \in 1..Len(q) : Append(q, e)[i] = q[i]
OBVIOUS

\* What each kind of step does to one channel.
LEMMA WaitsFacts ==
  ASSUME NEW c \in ChannelType,
         NEW step \in {"top", "empty", "poll", "again", "asleep", "deaf", "finished"},
         NEW state \in {"none", "armed", "waiting", "fired"}
  PROVE  LET d == Waits(c, step, state) IN
         /\ d \in ChannelType /\ d.by = c.by /\ d.log = c.log /\ d.next = c.next
         /\ d.pc = step /\ d.notified = state
BY DEF Waits, ChannelType

LEMMA ReadsFacts ==
  ASSUME NEW c \in ChannelType, NEW i \in Nat \ {0},
         NEW step \in {"top", "empty", "poll", "again", "asleep", "deaf", "finished"}
  PROVE  LET d == Reads(c, i, step) IN
         /\ d \in ChannelType /\ d.by = c.by /\ d.log = c.log /\ d.next = i
         /\ d.pc = step /\ d.notified = c.notified
BY DEF Reads, ChannelType

LEMMA SentFacts ==
  ASSUME NEW c \in ChannelType, NEW m \in Message
  PROVE  LET d == Sent(c, m) IN
         /\ d \in ChannelType /\ d.by = c.by /\ d.log = Append(c.log, m) /\ d.next = c.next
         /\ d.pc = c.pc /\ d.notified = c.notified
<1>1. Append(c.log, m) \in Seq(Message)
  BY AppendFacts DEF ChannelType
<1> QED BY <1>1 DEF Sent, ChannelType

\* The same consumer has the same before it.
Kept(c, d) ==
  /\ d.by = c.by /\ d.log = c.log /\ d.next = c.next
  /\ (d.pc = "finished" <=> c.pc = "finished")

\* Who waits for a notification is asleep, who sleeps waits for one.
Sleeps(c) == c.notified = "waiting" <=> c.pc = "asleep"

LEMMA WokenFacts ==
  ASSUME NEW c \in ChannelType, Sleeps(c)
  PROVE  Woken(c) \in ChannelType /\ Kept(c, Woken(c)) /\ Sleeps(Woken(c))
<1>1. CASE c.notified = "armed"
  <2>1. Woken(c) = Waits(c, c.pc, "fired") /\ c.pc # "asleep"
    BY <1>1 DEF Woken, Noticed, Sleeps
  <2>2. c.pc \in {"top", "empty", "poll", "again", "asleep", "deaf", "finished"}
    BY DEF ChannelType
  <2> QED BY <2>1, <2>2, WaitsFacts DEF Kept, Sleeps
<1>2. CASE c.notified = "waiting"
  <2>1. Woken(c) = Waits(c, "top", "fired") /\ c.pc = "asleep"
    BY <1>2 DEF Woken, Noticed, Sleeps
  <2> QED BY <2>1, WaitsFacts DEF Kept, Sleeps
<1>3. CASE c.notified \notin {"armed", "waiting"}
  BY <1>3 DEF Woken, Noticed, Kept
<1> QED BY <1>1, <1>2, <1>3

\* One channel changes, the others do not.
LEMMA ChannelSet ==
  ASSUME chan \in Seq(ChannelType), NEW k \in DOMAIN chan, NEW d \in ChannelType,
         chan' = [chan EXCEPT ![k] = d]
  PROVE  /\ chan' \in Seq(ChannelType) /\ DOMAIN chan' = DOMAIN chan /\ Len(chan') = Len(chan)
         /\ chan'[k] = d /\ \A j \in DOMAIN chan : j # k => chan'[j] = chan[j]
OBVIOUS

LEMMA ChannelFacts ==
  ASSUME TypeOK, NEW k \in DOMAIN chan
  PROVE  /\ k \in Nat \ {0} /\ chan[k] \in ChannelType /\ Sleeps(chan[k])
         /\ chan[k].by \in Subscriber /\ chan[k].log \in Seq(Message)
         /\ chan[k].next \in Nat \ {0} /\ chan[k].next <= Len(chan[k].log) + 1
         /\ Len(chan[k].log) \in Nat /\ DOMAIN chan[k].log = 1..Len(chan[k].log)
         /\ \A i \in DOMAIN chan[k].log : chan[k].log[i] \in Message
<1>1. chan \in Seq(ChannelType) /\ chan[k] \in ChannelType /\ k \in Nat \ {0}
  BY DEF TypeOK
<1>2. chan[k].log \in Seq(Message) /\ chan[k].by \in Subscriber /\ chan[k].next \in Nat \ {0}
  BY <1>1 DEF ChannelType
<1>3. chan[k].next <= Len(chan[k].log) + 1 /\ Sleeps(chan[k])
  BY DEF TypeOK, Sleeps
<1> QED BY <1>1, <1>2, <1>3

-----------------------------------------------------------------------------
(* Types.                                                                  *)

\* The conjuncts of TypeOK about the channels and the entry.
ChannelsOK ==
  /\ chan \in Seq(ChannelType) /\ entry \in DOMAIN chan \cup {Absent, Starting}
  /\ \A k \in DOMAIN chan : chan[k].next <= Len(chan[k].log) + 1 /\ Sleeps(chan[k])

LEMMA TypeSplit ==
  TypeOK <=>
    /\ at \in [Subscriber -> Places] /\ handlers \in Seq(Subscriber)
    /\ ChannelsOK
    /\ pub \in [Publisher -> [message : 0..count, next : Nat \ {0}, sent : BOOLEAN]]
    /\ count \in 0..MaxMessages /\ from \in Seq(Publisher) /\ Len(from) = count
    /\ calls \in [Subscriber -> Seq(Message)]
    /\ due \in [Message -> SUBSET Subscriber]
    /\ faults \in 0..MaxFaults
BY DEF TypeOK, ChannelsOK, Sleeps

\* A channel that is written stays one.
LEMMA ChannelsStay ==
  ASSUME ChannelsOK, NEW k \in DOMAIN chan, NEW d \in ChannelType,
         d.next <= Len(d.log) + 1, Sleeps(d),
         chan' = [chan EXCEPT ![k] = d], entry' = entry
  PROVE  ChannelsOK'
<1>1. /\ chan' \in Seq(ChannelType) /\ DOMAIN chan' = DOMAIN chan
      /\ chan'[k] = d /\ \A j \in DOMAIN chan : j # k => chan'[j] = chan[j]
  BY ChannelSet DEF ChannelsOK
<1>2. \A j \in DOMAIN chan' : chan'[j].next <= Len(chan'[j].log) + 1 /\ Sleeps(chan'[j])
  BY <1>1 DEF ChannelsOK
<1> QED BY <1>1, <1>2 DEF ChannelsOK, Sleeps

LEMMA FaultType ==
  ASSUME faults \in 0..MaxFaults, Fault
  PROVE  faults' \in 0..MaxFaults
BY BusAssumption DEF Fault

LEMMA PassType ==
  ASSUME NEW n \in Nat, NEW m \in 0..n, NEW k \in Nat \ {0}, NEW sent \in BOOLEAN
  PROVE  /\ Pass(m, k, sent) \in [message : 0..n, next : Nat \ {0}, sent : BOOLEAN]
         /\ Pass(m, k, sent).message = m /\ Pass(m, k, sent).next = k
         /\ Pass(m, k, sent).sent = sent
BY DEF Pass

LEMMA InitType ==
  ASSUME Init
  PROVE  TypeOK
<1>1. Idle \in [message : 0..0, next : Nat \ {0}, sent : BOOLEAN]
  <2>1. 0 \in 0..0 /\ 1 \in Nat \ {0} /\ FALSE \in BOOLEAN /\ 0 \in Nat
    OBVIOUS
  <2> QED BY <2>1, PassType DEF Idle
<1>2. /\ pub \in [Publisher -> [message : 0..count, next : Nat \ {0}, sent : BOOLEAN]]
      /\ count \in 0..MaxMessages /\ faults \in 0..MaxFaults
  BY <1>1, BusAssumption DEF Init
<1>3. ChannelsOK
  BY DEF Init, ChannelsOK
<1>4. /\ at \in [Subscriber -> Places] /\ handlers \in Seq(Subscriber)
      /\ from \in Seq(Publisher) /\ Len(from) = count
      /\ calls \in [Subscriber -> Seq(Message)] /\ due \in [Message -> SUBSET Subscriber]
  BY DEF Init, Places
<1> QED BY <1>2, <1>3, <1>4, TypeSplit

\* subscribe.
LEMMA SubscribeType ==
  ASSUME TypeOK, PassesSound, NEW s \in Subscriber, Subscribe(s) \/ Refuse(s) \/ Abandon(s)
  PROVE  TypeOK'
<1> USE TypeSplit
<1>1. CASE Register(s)
  <2>1. handlers' \in Seq(Subscriber)
    BY <1>1, AppendFacts DEF Register
  <2>2. ChannelsOK'
    BY <1>1 DEF Register, queue, ChannelsOK, Sleeps
  <2> QED BY <1>1, <2>1, <2>2 DEF Register, queue, Places, TypeOK, ChannelsOK, Sleeps
<1>2. CASE Claim(s)
  <2>1. ChannelsOK'
    BY <1>2 DEF Claim, queue, ChannelsOK, Sleeps
  <2>2. at' \in [Subscriber -> Places]
    BY <1>2 DEF Claim, Places
  <2> QED BY <1>2, <2>1, <2>2 DEF Claim, queue, TypeOK, ChannelsOK, Sleeps
<1>3. CASE Attach(s)
  <2>1. NewChannel(s) \in ChannelType /\ NewChannel(s).next <= Len(NewChannel(s).log) + 1
        /\ Sleeps(NewChannel(s))
    BY DEF NewChannel, ChannelType, Sleeps
  <2> DEFINE d == NewChannel(s)
  <2>2. chan' = Append(chan, d) /\ entry' = entry
    BY <1>3 DEF Attach
  <2> HIDE DEF d
  <2>3. chan' \in Seq(ChannelType) /\ DOMAIN chan' = 1..Len(chan) + 1 /\ DOMAIN chan = 1..Len(chan)
        /\ Len(chan) \in Nat /\ chan'[Len(chan) + 1] = d /\ \A i \in 1..Len(chan) : chan'[i] = chan[i]
    BY <2>1, <2>2, AppendFacts DEF d, ChannelsOK
  <2>4. \A k \in DOMAIN chan' : chan'[k].next <= Len(chan'[k].log) + 1 /\ Sleeps(chan'[k])
    <3>1. d.next <= Len(d.log) + 1 /\ Sleeps(d)
      BY <2>1 DEF d
    <3> SUFFICES ASSUME NEW k \in DOMAIN chan'
                 PROVE  chan'[k].next <= Len(chan'[k].log) + 1 /\ Sleeps(chan'[k])
      OBVIOUS
    <3>2. CASE k = Len(chan) + 1
      BY <2>3, <3>1, <3>2
    <3>3. CASE k # Len(chan) + 1
      <4>1. k \in DOMAIN chan /\ chan'[k] = chan[k]
        BY <2>3, <3>3
      <4> QED BY <4>1 DEF ChannelsOK
    <3> QED BY <3>2, <3>3
  <2>5. entry' \in DOMAIN chan' \cup {Absent, Starting}
    BY <2>2, <2>3 DEF ChannelsOK
  <2>6. ChannelsOK'
    BY <2>3, <2>4, <2>5 DEF ChannelsOK, Sleeps
  <2> QED BY <1>3, <2>6 DEF Attach, Places, TypeOK, ChannelsOK, Sleeps
<1>4. CASE Bind(s)
  <2>1. ChannelsOK'
    BY <1>4 DEF Bind, queue, ChannelsOK, Sleeps
  <2> QED BY <1>4, <2>1 DEF Bind, queue, Places, TypeOK, ChannelsOK, Sleeps
<1>5. CASE Refuse(s)
  <2>1. ChannelsOK'
    BY <1>5 DEF Refuse, Rollback, queue, ChannelsOK, Sleeps
  <2> QED BY <1>5, <2>1, FaultType DEF Refuse, queue, Places, TypeOK, ChannelsOK, Sleeps
<1>6. CASE Abandon(s)
  <2>1. ChannelsOK'
    BY <1>6 DEF Abandon, queue, ChannelsOK, Sleeps
  <2> QED BY <1>6, <2>1, FaultType DEF Abandon, queue, Places, TypeOK, ChannelsOK, Sleeps
<1> QED BY <1>1, <1>2, <1>3, <1>4, <1>5, <1>6 DEF Subscribe

\* publish.
LEMMA PublishType ==
  ASSUME TypeOK, PassesSound, NEW p \in Publisher, Begin(p) \/ Publish(p)
  PROVE  TypeOK'
<1> DEFINE P(n) == [message : 0..n, next : Nat \ {0}, sent : BOOLEAN]
<1>0. /\ pub \in [Publisher -> P(count)] /\ count \in Nat /\ ChannelsOK
      /\ Len(from) = count /\ from \in Seq(Publisher) /\ count \in 0..MaxMessages
  BY TypeSplit, BusAssumption
<1>1. CASE Begin(p)
  <2>1. count' = count + 1 /\ count' \in 0..MaxMessages /\ count' \in Nat
    BY <1>0, <1>1, BusAssumption DEF Begin
  <2>2. from' \in Seq(Publisher) /\ Len(from') = count'
    BY <1>0, <1>1, <2>1, AppendFacts DEF Begin
  <2>3. pub' \in [Publisher -> P(count')]
    <3>1. pub \in [Publisher -> P(count')]
      <4>1. P(count) \subseteq P(count')
        BY <1>0, <2>1
      <4> QED BY <1>0, <4>1
    <3>2. Pass(count', 1, FALSE) \in P(count')
      <4>1. count' \in 0..count' /\ 1 \in Nat \ {0} /\ FALSE \in BOOLEAN
        BY <2>1
      <4> QED BY <2>1, <4>1, PassType
    <3>3. pub' = pub \/ pub' = [pub EXCEPT ![p] = Pass(count', 1, FALSE)]
      BY <1>1 DEF Begin
    <3> QED BY <3>1, <3>2, <3>3
  <2>4. due' \in [Message -> SUBSET Subscriber]
    <3>1. due \in [Message -> SUBSET Subscriber]
      BY TypeSplit
    <3> DEFINE D == IF Live = {} THEN {} ELSE {s \in Subscriber : at[s] = "done"}
    <3>2. D \in SUBSET Subscriber
      OBVIOUS
    <3>3. due' = [due EXCEPT ![count'] = D]
      BY <1>1 DEF Begin
    <3> QED BY <3>1, <3>2, <3>3
  <2>5. ChannelsOK'
    BY <1>0, <1>1 DEF Begin, ChannelsOK, Sleeps
  <2> QED BY <1>0, <1>1, <2>1, <2>2, <2>3, <2>4, <2>5 DEF Begin, TypeOK, ChannelsOK, Sleeps
<1> SUFFICES ASSUME Publish(p) PROVE TypeOK'
  BY <1>1
<1> DEFINE k == pub[p].next
<1>2. Publishing(p) /\ k \in DOMAIN chan /\ k \in Nat \ {0}
      /\ pub[p].message \in 0..count /\ pub[p].message \in Message
  <2>1. Publishing(p)
    BY DEF Publish, Send, Notify
  <2>2. pub[p].message \in 1..count /\ k \in DOMAIN chan
    BY <2>1 DEF PassesSound
  <2>3. k \in Nat \ {0}
    BY <2>2, ChannelFacts
  <2> QED BY <1>0, <2>1, <2>2, <2>3, BusAssumption DEF Message
<1>3. chan[k] \in ChannelType /\ Sleeps(chan[k]) /\ chan[k].next <= Len(chan[k].log) + 1
  BY <1>2, ChannelFacts
<1>4. CASE Send(p)
  <2>1. Go(p) \in P(count)
    BY <1>0, <1>2, PassType DEF Go
  <2>2. pub' \in [Publisher -> P(count)]
    BY <1>0, <1>4, <2>1 DEF Send
  <2>3. ChannelsOK'
    <3>1. CASE ~Alive(k)
      BY <1>0, <1>4, <3>1 DEF Send, ChannelsOK, Sleeps
    <3>2. CASE Alive(k)
      <4> DEFINE d == Sent(chan[k], pub[p].message)
      <4>1. chan' = [chan EXCEPT ![k] = d] /\ entry' = entry
        BY <1>4, <3>2 DEF Send
      <4>2. d \in ChannelType /\ d.next = chan[k].next /\ d.log = Append(chan[k].log, pub[p].message)
            /\ d.pc = chan[k].pc /\ d.notified = chan[k].notified
        BY <1>2, <1>3, SentFacts
      <4>3. Len(d.log) = Len(chan[k].log) + 1 /\ Len(chan[k].log) \in Nat /\ chan[k].next \in Nat
        BY <1>2, <1>3, <4>2, AppendFacts DEF ChannelType
      <4>4. d.next <= Len(d.log) + 1 /\ Sleeps(d)
        BY <1>3, <4>2, <4>3 DEF Sleeps
      <4> HIDE DEF d
      <4> QED BY <1>0, <1>2, <4>1, <4>2, <4>4, ChannelsStay
    <3> QED BY <3>1, <3>2
  <2> QED BY <1>0, <1>4, <2>2, <2>3 DEF Send, TypeOK, ChannelsOK, Sleeps
<1>5. CASE Notify(p)
  <2>1. pub' \in [Publisher -> P(count)]
    <3>1. Idle \in P(count)
      <4>1. 0 \in 0..count /\ 1 \in Nat \ {0} /\ FALSE \in BOOLEAN
        BY <1>0
      <4> QED BY <1>0, <4>1, PassType DEF Idle
    <3>2. Pass(pub[p].message, pub[p].next + 1, FALSE) \in P(count)
      <4>1. pub[p].next + 1 \in Nat \ {0} /\ FALSE \in BOOLEAN
        BY <1>2
      <4> QED BY <1>0, <1>2, <4>1, PassType
    <3> QED BY <1>0, <1>5, <3>1, <3>2 DEF Notify, Onward
  <2>2. chan' = [chan EXCEPT ![k] = Woken(chan[k])] /\ entry' = entry
    BY <1>5 DEF Notify
  <2>3. /\ Woken(chan[k]) \in ChannelType /\ Sleeps(Woken(chan[k]))
        /\ Woken(chan[k]).next <= Len(Woken(chan[k]).log) + 1
    BY <1>3, WokenFacts DEF Kept
  <2>4. ChannelsOK'
    BY <1>0, <1>2, <2>2, <2>3, ChannelsStay
  <2> QED BY <1>0, <1>5, <2>1, <2>4 DEF Notify, TypeOK, ChannelsOK, Sleeps
<1> QED BY <1>4, <1>5 DEF Publish

\* The consumer.
LEMMA OldestFacts ==
  ASSUME TypeOK, NEW k \in DOMAIN chan, Lagging(k)
  PROVE  /\ Oldest(k) \in Nat \ {0} /\ Oldest(k) <= Len(chan[k].log) + 1
         /\ chan[k].next <= Oldest(k)
BY ChannelFacts, BusAssumption DEF Lagging, Oldest

LEMMA CallType ==
  ASSUME calls \in [Subscriber -> Seq(Message)], NEW list, NEW m \in Message, Call(list, m)
  PROVE  calls' \in [Subscriber -> Seq(Message)]
<1>1. \A s \in Subscriber :
        (IF s \in ToSet(list) THEN Append(calls[s], m) ELSE calls[s]) \in Seq(Message)
  BY AppendFacts
<1> QED BY <1>1 DEF Call

LEMMA ReadType ==
  ASSUME TypeOK, NEW k \in DOMAIN chan, chan[k].pc \in {"top", "again"},
         NEW i \in Nat \ {0}, i <= Len(chan[k].log) + 1,
         NEW step \in {"top", "empty", "deaf", "finished"},
         chan' = [chan EXCEPT ![k] = Reads(chan[k], i, step)],
         UNCHANGED entry
  PROVE  ChannelsOK'
<1> DEFINE d == Reads(chan[k], i, step)
<1>1. chan[k] \in ChannelType /\ Sleeps(chan[k])
  BY ChannelFacts
<1>2. /\ d \in ChannelType /\ d.next = i /\ d.log = chan[k].log
      /\ d.pc = step /\ d.notified = chan[k].notified
  <2>1. step \in {"top", "empty", "poll", "again", "asleep", "deaf", "finished"}
    OBVIOUS
  <2>2. \A c \in ChannelType :
          /\ Reads(c, i, step) \in ChannelType /\ Reads(c, i, step).next = i
          /\ Reads(c, i, step).log = c.log /\ Reads(c, i, step).pc = step
          /\ Reads(c, i, step).notified = c.notified
    BY <2>1 DEF Reads, ChannelType
  <2> QED BY <1>1, <2>2
<1>3. Sleeps(d) /\ d.next <= Len(d.log) + 1
  BY <1>1, <1>2 DEF Sleeps
<1>4. chan' = [chan EXCEPT ![k] = d] /\ ChannelsOK
  BY TypeSplit
<1> HIDE DEF d
<1> QED BY <1>2, <1>3, <1>4, ChannelsStay

LEMMA TryRecvType ==
  ASSUME TypeOK, NEW k \in DOMAIN chan, chan[k].pc \in {"top", "again"},
         NEW step \in {"empty", "deaf"}, TryRecv(k, step)
  PROVE  TypeOK'
<1>1. /\ UNCHANGED <<at, handlers, entry, pub, count, from>>
      /\ due \in [Message -> SUBSET Subscriber] /\ calls \in [Subscriber -> Seq(Message)]
      /\ faults \in 0..MaxFaults
  BY TypeSplit DEF TryRecv
<1>2. SUFFICES ChannelsOK' /\ due' \in [Message -> SUBSET Subscriber]
               /\ calls' \in [Subscriber -> Seq(Message)] /\ faults' \in 0..MaxFaults
  BY <1>1, TypeSplit DEF TypeOK, ChannelsOK, Sleeps
<1>3. CASE Lagging(k) /\ SkipTo(k, Oldest(k))
  <2>1. ChannelsOK'
    BY <1>1, <1>3, OldestFacts, ReadType DEF SkipTo
  <2> QED BY <1>1, <1>3, <2>1 DEF SkipTo
<1>4. CASE chan[k].next <= Len(chan[k].log) /\ Dispatch(k)
  <2> DEFINE i == chan[k].next + 1
  <2> DEFINE m == chan[k].log[chan[k].next]
  <2>1. i \in Nat \ {0} /\ i <= Len(chan[k].log) + 1 /\ m \in Message
    BY <1>4, ChannelFacts
  <2>2. CASE CallAll(k)
    <3>1. ChannelsOK'
      BY <1>1, <2>1, <2>2, ReadType DEF CallAll
    <3>2. calls' \in [Subscriber -> Seq(Message)]
      BY <1>1, <2>1, <2>2, CallType DEF CallAll
    <3> QED BY <1>1, <2>1, <2>2, <3>1, <3>2 DEF CallAll
  <2>3. CASE Panic(k)
    <3>1. ChannelsOK'
      BY <1>1, <2>1, <2>3, ReadType DEF Panic
    <3>2. PICK n \in 0..Len(handlers) - 1 : Call(SubSeq(handlers, 1, n), m)
      BY <2>3 DEF Panic
    <3>3. calls' \in [Subscriber -> Seq(Message)]
      BY <1>1, <2>1, <3>2, CallType
    <3> QED BY <1>1, <2>3, <3>1, <3>3, FaultType DEF Panic
  <2> QED BY <1>4, <2>2, <2>3 DEF Dispatch
<1>5. CASE /\ chan[k].next > Len(chan[k].log)
           /\ chan' = [chan EXCEPT ![k] = Reads(@, @.next, step)]
           /\ UNCHANGED <<calls, due, faults>>
  <2>1. chan[k].next \in Nat \ {0} /\ chan[k].next <= Len(chan[k].log) + 1
    BY ChannelFacts
  <2>2. ChannelsOK'
    BY <1>1, <1>5, <2>1, ReadType
  <2> QED BY <1>1, <1>5, <2>2
<1> QED BY <1>3, <1>4, <1>5 DEF TryRecv

LEMMA ConsumeType ==
  ASSUME TypeOK, NEW k \in DOMAIN chan, Consume(k)
  PROVE  TypeOK'
<1>1. CASE Top(k)
  BY <1>1, TryRecvType DEF Top
<1>2. CASE Again(k)
  BY <1>2, TryRecvType DEF Again
<1>3. chan[k] \in ChannelType /\ Sleeps(chan[k]) /\ chan[k].next <= Len(chan[k].log) + 1
      /\ chan[k].notified \in {"none", "armed", "waiting", "fired"}
  BY ChannelFacts DEF ChannelType
<1>4. CASE Arm(k)
  <2> DEFINE n == IF chan[k].notified = "none" THEN "armed" ELSE chan[k].notified
  <2> DEFINE d == Waits(chan[k], "poll", n)
  <2>1. /\ d \in ChannelType /\ d.next = chan[k].next /\ d.log = chan[k].log
        /\ d.pc = "poll" /\ d.notified = n
    BY <1>3, WaitsFacts
  <2>2. Sleeps(d) /\ d.next <= Len(d.log) + 1
    BY <1>3, <1>4, <2>1 DEF Arm, Sleeps
  <2>3. chan' = [chan EXCEPT ![k] = d] /\ ChannelsOK /\ entry' = entry
    BY <1>4, TypeSplit DEF Arm
  <2> HIDE DEF d
  <2>4. ChannelsOK'
    BY <2>1, <2>2, <2>3, ChannelsStay
  <2> QED BY <1>4, <2>4 DEF Arm, TypeOK, ChannelsOK, Sleeps
<1>5. CASE Poll(k)
  <2> DEFINE d == IF chan[k].notified = "fired" THEN Waits(chan[k], "again", "none")
                  ELSE Waits(chan[k], "asleep", "waiting")
  <2>1. /\ d \in ChannelType /\ d.next = chan[k].next /\ d.log = chan[k].log /\ Sleeps(d)
    BY <1>3, WaitsFacts DEF Sleeps
  <2>2. chan' = [chan EXCEPT ![k] = d] /\ ChannelsOK /\ entry' = entry
    BY <1>5, TypeSplit DEF Poll
  <2>3. d.next <= Len(d.log) + 1
    BY <1>3, <2>1
  <2> HIDE DEF d
  <2>4. ChannelsOK'
    BY <2>1, <2>2, <2>3, ChannelsStay
  <2> QED BY <1>5, <2>4 DEF Poll, TypeOK, ChannelsOK, Sleeps
<1> QED BY <1>1, <1>2, <1>4, <1>5 DEF Consume

-----------------------------------------------------------------------------
(* Steps that move no message.                                             *)

\* No channel comes, no message moves, no consumer ends.
SameChannels == DOMAIN chan' = DOMAIN chan /\ \A k \in DOMAIN chan : Kept(chan[k], chan'[k])

LEMMA SameLive ==
  ASSUME SameChannels
  PROVE  /\ Live' = Live
         /\ \A k \in DOMAIN chan :
              /\ chan'[k].log = chan[k].log /\ chan'[k].next = chan[k].next
              /\ chan'[k].by = chan[k].by
BY DEF SameChannels, Kept, Live, Alive

LEMMA OneKept ==
  ASSUME TypeOK, NEW k \in DOMAIN chan, NEW d \in ChannelType, Kept(chan[k], d),
         chan' = [chan EXCEPT ![k] = d]
  PROVE  SameChannels
BY ChannelSet DEF TypeOK, SameChannels, Kept

LEMMA QuietLogs ==
  ASSUME IInv, SameChannels, UNCHANGED <<count, from, calls>>
  PROVE  Published' /\ LogsInOrder' /\ CallsBeforeLog' /\ HeardOnceInOrder'
<1>1. /\ Live' = Live /\ Live \subseteq DOMAIN chan /\ DOMAIN chan' = DOMAIN chan
      /\ \A k \in DOMAIN chan : chan'[k].log = chan[k].log /\ chan'[k].next = chan[k].next
  BY SameLive DEF SameChannels, Live
<1>2. Published'
  BY <1>1 DEF IInv, Published
<1>3. LogsInOrder'
  BY <1>1 DEF IInv, LogsInOrder, Follows
<1>4. CallsBeforeLog'
  BY <1>1 DEF IInv, CallsBeforeLog, Follows
<1>5. HeardOnceInOrder'
  BY DEF IInv, HeardOnceInOrder
<1> QED BY <1>2, <1>3, <1>4, <1>5

\* Nothing is said about messages that such a step changes.
LEMMA QuietStep ==
  ASSUME IInv, SameChannels, UNCHANGED <<pub, count, from, calls, due>>
  PROVE  /\ PassesSound' /\ Published' /\ LogsInOrder' /\ CallsBeforeLog' /\ PendingIsLast'
         /\ HeardOnceInOrder' /\ OwedIsComing'
<1>1. /\ Live' = Live /\ Live \subseteq DOMAIN chan /\ DOMAIN chan' = DOMAIN chan
      /\ \A k \in DOMAIN chan : chan'[k].log = chan[k].log /\ chan'[k].next = chan[k].next
  BY SameLive DEF SameChannels, Live
<1>2. PassesSound'
  BY <1>1 DEF IInv, PassesSound, Publishing
<1>3. PendingIsLast'
  BY <1>1 DEF IInv, PendingIsLast, Pending, Publishing, Follows
<1>4. OwedIsComing'
  <2> SUFFICES ASSUME NEW m \in Message, due[m] # {}
               PROVE  \E k \in Live : Coming(m, k)'
    BY <1>1 DEF OwedIsComing
  <2>1. PICK k \in Live : Coming(m, k)
    BY DEF IInv, OwedIsComing
  <2>2. Unread(k)' = Unread(k)
    BY <1>1 DEF Unread
  <2> QED BY <2>1, <2>2 DEF Coming
<1> QED BY <1>2, <1>3, <1>4, QuietLogs

\* The place is what it was: consumers may end, none comes.
LEMMA PlaceStep ==
  ASSUME TypeOK, OnePlace, UNCHANGED <<at, entry>>, DOMAIN chan' = DOMAIN chan, Live' \subseteq Live,
         \A k \in DOMAIN chan : chan'[k].by = chan[k].by
  PROVE  OnePlace'
<1>1. Live \subseteq DOMAIN chan
  BY DEF Live
<1>2. /\ \A s, t \in Subscriber : Starter(s)' /\ Starter(t)' => s = t
      /\ \A s \in Subscriber : Starter(s)' => entry' = Starting
      /\ \A s \in Subscriber : at'[s] = "asking" => Live' = {}
  BY DEF OnePlace, Starter
<1>3. \A k \in Live' : entry' = k \/ at'[chan'[k].by] = "binding"
  BY <1>1 DEF OnePlace
<1>4. /\ \A i, j \in DOMAIN chan' : chan'[i].by = chan'[j].by => i = j
      /\ \A k \in DOMAIN chan' : at'[chan'[k].by] \in {"binding", "done"}
  BY DEF OnePlace
<1> QED BY <1>2, <1>3, <1>4 DEF OnePlace, Live, Alive, Starter

\* There is one consumer at most.
LEMMA OneConsumer ==
  ASSUME TypeOK, OnePlace, NEW i \in Live, NEW j \in Live
  PROVE  i = j
<1>1. /\ i \in DOMAIN chan /\ j \in DOMAIN chan /\ i \in Nat /\ j \in Nat
      /\ chan[i].by \in Subscriber /\ chan[j].by \in Subscriber
  BY ChannelFacts DEF Live
<1>2. \A k \in Live : entry = k \/ at[chan[k].by] = "binding"
  BY DEF OnePlace
<1>3. \A k \in DOMAIN chan : chan[k].by \in Subscriber /\ at[chan[k].by] = "binding" => entry = Starting
  BY DEF OnePlace, Starter
<1>4. Starting \notin Nat
  BY BusAssumption
<1>5. CASE entry = Starting
  <2>1. at[chan[i].by] = "binding" /\ at[chan[j].by] = "binding"
    BY <1>1, <1>2, <1>4, <1>5
  <2>2. chan[i].by = chan[j].by
    BY <1>1, <2>1 DEF OnePlace, Starter
  <2> QED BY <1>1, <2>2 DEF OnePlace
<1>6. CASE entry # Starting
  BY <1>1, <1>2, <1>3, <1>6
<1> QED BY <1>5, <1>6

-----------------------------------------------------------------------------
(* subscribe.                                                              *)

LEMMA SubscribePlace ==
  ASSUME IInv, NEW s \in Subscriber, Subscribe(s) \/ Refuse(s) \/ Abandon(s)
  PROVE  OnePlace' /\ PlaceHasOwner'
<1>1. TypeOK /\ OnePlace /\ PlaceHasOwner
  BY DEF IInv
<1>2. /\ at \in [Subscriber -> Places] /\ entry \in DOMAIN chan \cup {Absent, Starting}
      /\ Starting \notin Nat /\ Absent # Starting
      /\ DOMAIN chan \subseteq Nat /\ Live \subseteq DOMAIN chan
      /\ \A k \in DOMAIN chan : chan[k].by \in Subscriber
  BY <1>1, ChannelFacts, BusAssumption DEF TypeOK, Live
<1>a. /\ \A t, u \in Subscriber : Starter(t) /\ Starter(u) => t = u
      /\ \A t \in Subscriber : Starter(t) => entry = Starting
      /\ \A t \in Subscriber : at[t] = "asking" => Live = {}
      /\ \A k \in Live : entry = k \/ at[chan[k].by] = "binding"
      /\ \A i, j \in DOMAIN chan : chan[i].by = chan[j].by => i = j
      /\ \A k \in DOMAIN chan : at[chan[k].by] \in {"binding", "done"}
  BY <1>1 DEF OnePlace
<1>3. CASE Register(s) \/ (Claim(s) /\ Running(entry))
  <2>1. /\ at[s] \in {"new", "claim"} /\ UNCHANGED <<entry, chan>>
        /\ at' = [at EXCEPT ![s] = "claim"] \/ at' = [at EXCEPT ![s] = "done"]
    BY <1>3 DEF Register, Claim, queue
  <2>2. /\ \A t \in Subscriber : (Starter(t)' <=> Starter(t)) /\ (at'[t] = "asking" <=> at[t] = "asking")
        /\ \A k \in DOMAIN chan : at'[chan[k].by] = at[chan[k].by]
        /\ Live' = Live
    BY <1>2, <1>a, <2>1 DEF Starter, Live, Alive
  <2>3. OnePlace'
    BY <1>a, <1>2, <2>1, <2>2 DEF OnePlace, Live, Alive, Starter
  <2>4. PlaceHasOwner'
    <3>1. \A t \in Subscriber : at[t] \in {"asking", "binding", "abandoned"} => at'[t] = at[t]
      BY <1>2, <2>1
    <3> QED BY <1>1, <2>1, <3>1 DEF PlaceHasOwner
  <2> QED BY <2>3, <2>4
<1>4. CASE Claim(s) /\ ~Running(entry)
  <2>1. /\ at[s] = "claim" /\ at' = [at EXCEPT ![s] = "asking"]
        /\ entry' = Starting /\ UNCHANGED chan
    BY <1>4 DEF Claim, queue
  <2>2. entry # Starting /\ (entry \in Nat => ~Alive(entry))
    BY <1>4 DEF Running
  <2>3. Live = {}
    BY <1>2, <1>a, <2>2 DEF Starter, Live
  <2>4. \A t \in Subscriber : ~Starter(t)
    BY <1>a, <2>2
  <2>5. /\ \A t \in Subscriber : Starter(t)' => t = s
        /\ \A k \in DOMAIN chan : at'[chan[k].by] = at[chan[k].by]
        /\ Live' = {}
    BY <1>2, <1>a, <2>1, <2>3, <2>4 DEF Starter, Live, Alive
  <2>6. OnePlace'
    BY <1>a, <1>2, <2>1, <2>5 DEF OnePlace
  <2>7. PlaceHasOwner'
    BY <1>2, <2>1 DEF PlaceHasOwner
  <2> QED BY <2>6, <2>7
<1>5. CASE Attach(s)
  <2>1. /\ at[s] = "asking" /\ at' = [at EXCEPT ![s] = "binding"]
        /\ entry' = entry /\ entry = Starting /\ Live = {}
        /\ chan' = Append(chan, NewChannel(s))
    BY <1>5, <1>a DEF Attach, Starter
  <2>2. NewChannel(s) \in ChannelType /\ NewChannel(s).by = s
    BY DEF NewChannel, ChannelType
  <2> DEFINE d == NewChannel(s)
  <2> DEFINE n == Len(chan)
  <2>b. chan' = Append(chan, d) /\ d \in ChannelType /\ d.by = s /\ chan \in Seq(ChannelType)
    BY <1>1, <2>1, <2>2 DEF TypeOK
  <2> HIDE DEF d
  <2>3. /\ n \in Nat /\ DOMAIN chan = 1..n /\ DOMAIN chan' = 1..n + 1
        /\ chan'[n + 1] = d /\ \A i \in 1..n : chan'[i] = chan[i]
    BY <2>b, AppendFacts
  <2> HIDE DEF n
  <2>4. \A t \in Subscriber : Starter(t)' => t = s
    BY <1>2, <1>a, <2>1 DEF Starter
  <2>5. \A k \in DOMAIN chan : chan[k].by # s /\ at'[chan[k].by] = at[chan[k].by]
    BY <1>2, <1>a, <2>1
  <2>6. \A k \in Live' : k = n + 1
    BY <2>1, <2>3 DEF Live, Alive
  <2>7. \A k \in Live' : at'[chan'[k].by] = "binding"
    BY <1>2, <2>1, <2>b, <2>3, <2>6
  <2>8. \A i, j \in DOMAIN chan' : chan'[i].by = chan'[j].by => i = j
    <3> SUFFICES ASSUME NEW i \in DOMAIN chan', NEW j \in DOMAIN chan', chan'[i].by = chan'[j].by
                 PROVE  i = j
      OBVIOUS
    <3>1. \A k \in DOMAIN chan' : \/ k = n + 1 /\ chan'[k].by = s
                                  \/ k \in DOMAIN chan /\ chan'[k].by = chan[k].by
      BY <2>b, <2>3
    <3> QED BY <1>a, <2>5, <3>1
  <2>9. \A k \in DOMAIN chan' : at'[chan'[k].by] \in {"binding", "done"}
    <3> SUFFICES ASSUME NEW k \in DOMAIN chan' PROVE at'[chan'[k].by] \in {"binding", "done"}
      OBVIOUS
    <3>1. CASE k = n + 1
      BY <1>2, <2>1, <2>b, <2>3, <3>1
    <3>2. CASE k # n + 1
      <4>1. k \in DOMAIN chan /\ chan'[k] = chan[k]
        BY <2>3, <3>2
      <4> QED BY <1>a, <2>5, <4>1
    <3> QED BY <3>1, <3>2
  <2>10. \A t \in Subscriber : at'[t] # "asking"
    BY <1>2, <1>a, <2>1 DEF Starter
  <2>11. OnePlace'
    BY <2>1, <2>4, <2>7, <2>8, <2>9, <2>10 DEF OnePlace
  <2>12. PlaceHasOwner'
    BY <1>2, <2>1 DEF PlaceHasOwner
  <2> QED BY <2>11, <2>12
<1>6. CASE Bind(s)
  <2>1. PICK k \in DOMAIN chan : chan[k].by = s /\ entry' = k
    BY <1>6 DEF Bind
  <2>2. /\ at[s] = "binding" /\ at' = [at EXCEPT ![s] = "done"] /\ UNCHANGED chan
        /\ entry = Starting
    BY <1>6, <1>a DEF Bind, queue, Starter
  <2>3. \A t \in Subscriber : ~Starter(t)'
    BY <1>2, <1>a, <2>2 DEF Starter
  <2>4. Live' = Live
    BY <2>2 DEF Live, Alive
  <2>5. \A j \in Live : j = k
    <3> SUFFICES ASSUME NEW j \in Live PROVE j = k
      OBVIOUS
    <3>1. at[chan[j].by] = "binding"
      BY <1>2, <1>a, <2>2
    <3>2. chan[j].by = s
      BY <1>2, <1>a, <2>2, <3>1 DEF Starter
    <3> QED BY <1>2, <1>a, <2>1, <3>2
  <2>6. \A j \in DOMAIN chan : at'[chan[j].by] \in {"binding", "done"}
    BY <1>2, <1>a, <2>2
  <2>7. OnePlace'
    <3>1. \A t \in Subscriber : at'[t] # "asking"
      BY <2>3 DEF Starter
    <3> QED BY <1>a, <2>1, <2>2, <2>3, <2>4, <2>5, <2>6, <3>1 DEF OnePlace
  <2>8. PlaceHasOwner'
    BY <1>2, <2>1 DEF PlaceHasOwner
  <2> QED BY <2>7, <2>8
<1>7. CASE Refuse(s) \/ Abandon(s)
  <2>1. /\ at[s] = "asking" /\ UNCHANGED chan /\ Live = {}
        /\ \/ at' = [at EXCEPT ![s] = "failed"] /\ entry' = Absent
           \/ at' = [at EXCEPT ![s] = "abandoned"] /\ entry' = entry
    BY <1>7, <1>a DEF Refuse, Rollback, Abandon, queue
  <2>2. \A t \in Subscriber : ~Starter(t)'
    BY <1>2, <1>a, <2>1 DEF Starter
  <2>3. Live' = {}
    BY <2>1 DEF Live, Alive
  <2>4. \A j \in DOMAIN chan : at'[chan[j].by] \in {"binding", "done"}
    BY <1>2, <1>a, <2>1
  <2>5. OnePlace'
    BY <1>a, <2>1, <2>2, <2>3, <2>4 DEF OnePlace
  <2>6. PlaceHasOwner'
    BY <1>2, <2>1 DEF PlaceHasOwner
  <2> QED BY <2>5, <2>6
<1> QED BY <1>3, <1>4, <1>5, <1>6, <1>7 DEF Subscribe

LEMMA SubscribeRest ==
  ASSUME IInv, NEW s \in Subscriber, Subscribe(s) \/ Refuse(s) \/ Abandon(s)
  PROVE  /\ PassesSound' /\ Published' /\ LogsInOrder' /\ CallsBeforeLog' /\ PendingIsLast'
         /\ HeardOnceInOrder' /\ OwedToHandlers' /\ OwedIsComing'
<1>1. /\ UNCHANGED <<pub, count, from, calls, due>>
      /\ at[s] = "new" => Register(s)
      /\ Register(s) \/ handlers' = handlers
  BY DEF Subscribe, Register, Claim, Attach, Bind, Refuse, Abandon, queue
<1>2. OwedToHandlers'
  <2>1. handlers \in Seq(Subscriber)
    BY DEF IInv, TypeOK
  <2>2. ToSet(handlers) \subseteq ToSet(handlers') /\ (Register(s) => s \in ToSet(handlers'))
    <3>1. CASE Register(s)
      <4>1. /\ Len(handlers) \in Nat /\ DOMAIN handlers = 1..Len(handlers)
            /\ DOMAIN handlers' = 1..Len(handlers) + 1 /\ handlers'[Len(handlers) + 1] = s
            /\ \A i \in 1..Len(handlers) : handlers'[i] = handlers[i]
        BY <2>1, <3>1, AppendFacts DEF Register
      <4> QED BY <4>1 DEF ToSet
    <3>2. CASE ~Register(s)
      BY <1>1, <3>2
    <3> QED BY <3>1, <3>2
  <2>3. \A t \in Subscriber : t # s => at'[t] = at[t]
    <3>1. at \in [Subscriber -> Places]
      BY DEF IInv, TypeOK
    <3> QED BY <3>1 DEF Subscribe, Register, Claim, Attach, Bind, Refuse, Abandon
  <2>4. s \in ToSet(handlers')
    BY <1>1, <2>2 DEF IInv, OwedToHandlers
  <2>5. (\A t \in Subscriber : at'[t] # "new" => t \in ToSet(handlers'))
    BY <2>2, <2>3, <2>4 DEF IInv, OwedToHandlers
  <2>6. \A m \in Message : due'[m] \subseteq ToSet(handlers')
    BY <1>1, <2>2 DEF IInv, OwedToHandlers
  <2> QED BY <2>5, <2>6 DEF OwedToHandlers
<1>3. CASE ~Attach(s)
  <2>1. chan' = chan
    BY <1>3 DEF Subscribe, Register, Claim, Bind, Refuse, Abandon, queue
  <2>2. SameChannels
    BY <2>1 DEF SameChannels, Kept
  <2> QED BY <1>1, <1>2, <2>2, QuietStep
<1>4. CASE Attach(s)
  <2> DEFINE n == Len(chan)
  <2> DEFINE d == NewChannel(s)
  <2>1. at[s] = "asking" /\ chan' = Append(chan, d) /\ chan \in Seq(ChannelType)
    BY <1>4 DEF Attach, IInv, TypeOK
  <2>2. d \in ChannelType /\ d.log = <<>>
    BY DEF NewChannel, ChannelType
  <2> HIDE DEF d
  <2>3. /\ n \in Nat /\ DOMAIN chan = 1..n /\ DOMAIN chan' = 1..n + 1
        /\ chan'[n + 1] = d /\ \A i \in 1..n : chan'[i] = chan[i]
    BY <2>1, <2>2, AppendFacts
  <2> HIDE DEF n
  <2>4. \A k \in DOMAIN chan' : chan'[k].log = <<>> \/ (k \in DOMAIN chan /\ chan'[k] = chan[k])
    BY <2>2, <2>3
  <2>5. Live = {} /\ \A p \in Publisher : ~Publishing(p)
    BY <1>4, <2>1 DEF IInv, OnePlace, Attach, Publishing
  <2>6. \A k \in Live' : chan'[k].log = <<>>
    BY <2>2, <2>3, <2>5 DEF Live, Alive
  <2>7. PassesSound' /\ PendingIsLast'
    BY <1>1, <2>5 DEF PassesSound, PendingIsLast, Publishing
  <2>8. Published'
    <3>1. \A k \in DOMAIN chan' : \A i \in DOMAIN chan'[k].log : chan'[k].log[i] <= count
      BY <2>4 DEF IInv, Published
    <3> QED BY <1>1, <3>1 DEF IInv, Published
  <2>9. LogsInOrder'
    <3> SUFFICES ASSUME NEW k \in DOMAIN chan', NEW i \in DOMAIN chan'[k].log, NEW j \in DOMAIN chan'[k].log,
                        i < j
                 PROVE  from'[chan'[k].log[i]] = from'[chan'[k].log[j]]
                        => chan'[k].log[i] < chan'[k].log[j]
      BY DEF LogsInOrder, Follows
    <3>1. k \in DOMAIN chan /\ chan'[k] = chan[k]
      BY <2>4
    <3>2. Follows(chan[k].log[i], chan[k].log[j])
      BY <3>1 DEF IInv, LogsInOrder
    <3> QED BY <1>1, <3>1, <3>2 DEF Follows
  <2>10. CallsBeforeLog'
    <3> SUFFICES ASSUME NEW k \in Live', NEW j \in chan'[k].next..Len(chan'[k].log)
                 PROVE  FALSE
      BY DEF CallsBeforeLog
    <3>1. k \in DOMAIN chan' /\ Len(chan'[k].log) = 0
      BY <2>6 DEF Live
    <3>2. chan'[k].next = 1
      <4>1. d.next = 1
        BY DEF d, NewChannel
      <4>2. k = n + 1
        BY <2>3, <2>5, <3>1 DEF Live, Alive
      <4> QED BY <2>3, <4>1, <4>2
    <3> QED BY <3>1, <3>2
  <2>11. HeardOnceInOrder'
    BY <1>1 DEF IInv, HeardOnceInOrder
  <2>12. OwedIsComing'
    <3>1. \A m \in Message : due[m] = {}
      BY <2>5 DEF IInv, OwedIsComing
    <3> QED BY <1>1, <3>1 DEF OwedIsComing
  <2> QED BY <1>2, <2>7, <2>8, <2>9, <2>10, <2>11, <2>12
<1> QED BY <1>3, <1>4

-----------------------------------------------------------------------------
(* publish.                                                                *)

LEMMA MessageFacts ==
  ASSUME IInv
  PROVE  /\ count \in Nat /\ Len(from) = count /\ from \in Seq(Publisher)
         /\ \A p \in Publisher : Publishing(p) =>
              /\ pub[p].message \in 1..count /\ pub[p].message \in Message
              /\ from[pub[p].message] = p /\ pub[p].next \in DOMAIN chan
         /\ \A k \in DOMAIN chan : \A i \in DOMAIN chan[k].log : chan[k].log[i] \in 1..count
         /\ \A s \in Subscriber : \A i \in DOMAIN calls[s] : calls[s][i] \in 1..count
<1>1. /\ TypeOK /\ count \in 0..MaxMessages /\ Len(from) = count /\ from \in Seq(Publisher)
      /\ calls \in [Subscriber -> Seq(Message)] /\ MaxMessages \in Nat
  BY BusAssumption DEF IInv, TypeOK
<1>2. \A p \in Publisher : Publishing(p) =>
        /\ pub[p].message \in 1..count /\ pub[p].message \in Message
        /\ from[pub[p].message] = p /\ pub[p].next \in DOMAIN chan
  BY <1>1 DEF IInv, PassesSound, Message
<1>3. \A k \in DOMAIN chan : \A i \in DOMAIN chan[k].log : chan[k].log[i] \in 1..count
  <2> SUFFICES ASSUME NEW k \in DOMAIN chan, NEW i \in DOMAIN chan[k].log
               PROVE  chan[k].log[i] \in 1..count
    OBVIOUS
  <2>1. chan[k].log[i] \in Message /\ chan[k].log[i] <= count
    BY <1>1, ChannelFacts DEF IInv, Published
  <2> QED BY <1>1, <2>1 DEF Message
<1>4. \A s \in Subscriber : \A i \in DOMAIN calls[s] : calls[s][i] \in 1..count
  <2> SUFFICES ASSUME NEW s \in Subscriber, NEW i \in DOMAIN calls[s]
               PROVE  calls[s][i] \in 1..count
    OBVIOUS
  <2>1. calls[s] \in Seq(Message) /\ calls[s][i] <= count
    BY <1>1 DEF IInv, Published
  <2>2. calls[s][i] \in Message
    BY <2>1
  <2> QED BY <1>1, <2>1, <2>2 DEF Message
<1> QED BY <1>1, <1>2, <1>3, <1>4

LEMMA BeginInv ==
  ASSUME IInv, NEW p \in Publisher, Begin(p)
  PROVE  /\ OnePlace' /\ PlaceHasOwner' /\ OwedToHandlers' /\ PassesSound' /\ Published'
         /\ LogsInOrder' /\ CallsBeforeLog' /\ PendingIsLast' /\ HeardOnceInOrder' /\ OwedIsComing'
<1>1. /\ TypeOK /\ pub[p] = Idle /\ count' = count + 1 /\ from' = Append(from, p)
      /\ UNCHANGED <<at, handlers, entry, chan, calls, faults>>
      /\ count' \in Message
      /\ pub \in [Publisher -> [message : 0..count, next : Nat \ {0}, sent : BOOLEAN]]
      /\ due \in [Message -> SUBSET Subscriber]
  BY MessageFacts, BusAssumption DEF Begin, IInv, TypeOK, Message
<1>2. /\ count \in Nat /\ \A x \in 1..count : from'[x] = from[x]
      /\ from'[count'] = p /\ Len(from) = count
  BY <1>1, MessageFacts, AppendFacts
<1>3. /\ \A k \in DOMAIN chan : \A i \in DOMAIN chan[k].log : chan[k].log[i] \in 1..count
      /\ \A s \in Subscriber : \A i \in DOMAIN calls[s] : calls[s][i] \in 1..count
  BY MessageFacts
<1>4. \A x, y \in 1..count : Follows(x, y)' <=> Follows(x, y)
  BY <1>2 DEF Follows
<1>5. \A q \in Publisher : q # p => pub'[q] = pub[q]
  BY <1>1 DEF Begin
<1>6. /\ Live' = Live /\ Live \subseteq DOMAIN chan
      /\ \A k \in DOMAIN chan : k \in Nat \ {0} /\ chan[k].next \in Nat \ {0}
                                /\ DOMAIN chan[k].log = 1..Len(chan[k].log)
  BY <1>1, ChannelFacts DEF Live, Alive
<1>b. HeardOnceInOrder' /\ LogsInOrder' /\ CallsBeforeLog'
  <2>1. HeardOnceInOrder'
    <3> SUFFICES ASSUME NEW s \in Subscriber, NEW i \in DOMAIN calls[s], NEW j \in DOMAIN calls[s],
                        i < j, from'[calls[s][i]] = from'[calls[s][j]]
                 PROVE  calls[s][i] < calls[s][j]
      BY <1>1 DEF HeardOnceInOrder
    <3>1. from[calls[s][i]] = from[calls[s][j]]
      BY <1>2, <1>3
    <3> QED BY <3>1 DEF IInv, HeardOnceInOrder
  <2>2. LogsInOrder'
    <3> SUFFICES ASSUME NEW k \in DOMAIN chan, NEW i \in DOMAIN chan[k].log, NEW j \in DOMAIN chan[k].log,
                        i < j
                 PROVE  Follows(chan[k].log[i], chan[k].log[j])'
      BY <1>1 DEF LogsInOrder
    <3>1. Follows(chan[k].log[i], chan[k].log[j])
      BY DEF IInv, LogsInOrder
    <3> QED BY <1>1, <1>2, <1>3, <3>1 DEF Follows
  <2>3. CallsBeforeLog'
    <3> SUFFICES ASSUME NEW k \in Live, NEW s \in Subscriber, NEW i \in DOMAIN calls[s],
                        NEW j \in chan[k].next..Len(chan[k].log)
                 PROVE  Follows(calls[s][i], chan[k].log[j])'
      BY <1>1, <1>6 DEF CallsBeforeLog
    <3>1. Follows(calls[s][i], chan[k].log[j])
      BY DEF IInv, CallsBeforeLog
    <3>2. j \in DOMAIN chan[k].log
      <4>1. k \in DOMAIN chan /\ chan[k].next \in Nat \ {0} /\ DOMAIN chan[k].log = 1..Len(chan[k].log)
        BY <1>6
      <4> QED BY <4>1
    <3> QED BY <1>1, <1>2, <1>3, <1>6, <3>1, <3>2 DEF Follows
  <2> QED BY <2>1, <2>2, <2>3
<1>7. CASE chan = <<>>
  <2>1. DOMAIN chan = {} /\ Live = {} /\ pub' = pub
    BY <1>1, <1>6, <1>7 DEF Begin
  <2>2. \A q \in Publisher : ~Publishing(q)
    BY <2>1, MessageFacts
  <2>3. \A q \in Publisher : ~Publishing(q)'
    BY <2>1, <2>2 DEF Publishing
  <2> QED
    <3>1. PassesSound' /\ PendingIsLast'
      BY <2>3 DEF PassesSound, PendingIsLast
    <3>2. LogsInOrder' /\ CallsBeforeLog'
      BY <1>1, <1>6, <2>1 DEF LogsInOrder, CallsBeforeLog
    <3>3. \A m \in Message : due'[m] = {}
      <4>1. \A m \in Message : due[m] = {}
        BY <2>1 DEF IInv, OwedIsComing
      <4>2. due' = [due EXCEPT ![count'] = {}]
        BY <2>1 DEF Begin
      <4> QED BY <1>1, <4>1, <4>2
    <3>4. OwedIsComing' /\ OwedToHandlers'
      BY <1>1, <3>3 DEF OwedIsComing, OwedToHandlers, IInv
    <3>5. OnePlace' /\ PlaceHasOwner'
      BY <1>1, <1>6, PlaceStep DEF IInv, PlaceHasOwner
    <3>6. Published'
      BY <1>1, <1>2, <1>3 DEF Published
    <3> QED BY <1>b, <3>1, <3>2, <3>4, <3>5, <3>6
<1>8. CASE chan # <<>>
  <2>1. pub' = [pub EXCEPT ![p] = Pass(count', 1, FALSE)]
    BY <1>8 DEF Begin
  <2>2. /\ pub'[p].message = count' /\ pub'[p].next = 1 /\ pub'[p].sent = FALSE
    BY <1>1, <2>1 DEF Pass
  <2>3. 1 \in DOMAIN chan
    BY <1>1, <1>8 DEF TypeOK
  <2>4. \A q \in Publisher : q # p => (Publishing(q)' <=> Publishing(q))
    BY <1>5 DEF Publishing
  <2>5. PassesSound'
    <3> SUFFICES ASSUME NEW q \in Publisher, Publishing(q)'
                 PROVE  /\ pub'[q].message \in 1..count' /\ from'[pub'[q].message] = q
                        /\ pub'[q].next \in DOMAIN chan
      BY <1>1 DEF PassesSound
    <3>1. CASE q = p
      BY <1>1, <1>2, <2>2, <2>3, <3>1
    <3>2. CASE q # p
      <4>1. pub'[q] = pub[q] /\ Publishing(q)
        BY <1>5, <2>4, <3>2
      <4>2. pub[q].message \in 1..count /\ from[pub[q].message] = q /\ pub[q].next \in DOMAIN chan
        BY <4>1, MessageFacts
      <4> QED BY <1>1, <1>2, <4>1, <4>2
    <3> QED BY <3>1, <3>2
  <2>6. PendingIsLast'
    <3> SUFFICES ASSUME NEW q \in Publisher, NEW k \in Live, Publishing(q)', Pending(q, k)'
                 PROVE  /\ \A i \in DOMAIN chan[k].log : Follows(chan[k].log[i], pub[q].message)'
                        /\ \A s \in Subscriber : \A i \in DOMAIN calls[s] :
                             Follows(calls[s][i], pub[q].message)'
      BY <1>1, <1>6 DEF PendingIsLast
    <3>1. CASE q = p
      BY <1>1, <1>2, <1>3, <1>6, <2>2, <3>1 DEF Follows
    <3>2. CASE q # p
      <4>1. pub'[q] = pub[q] /\ Publishing(q) /\ Pending(q, k)
        BY <1>5, <2>4, <3>2 DEF Pending
      <4>2. /\ \A i \in DOMAIN chan[k].log : Follows(chan[k].log[i], pub[q].message)
            /\ \A s \in Subscriber : \A i \in DOMAIN calls[s] : Follows(calls[s][i], pub[q].message)
            /\ pub[q].message \in 1..count
        BY <4>1, MessageFacts DEF IInv, PendingIsLast
      <4> QED BY <1>1, <1>2, <1>3, <1>6, <4>1, <4>2 DEF Follows
    <3> QED BY <3>1, <3>2
  <2>7. OwedIsComing'
    <3> SUFFICES ASSUME NEW m \in Message, due'[m] # {}
                 PROVE  \E k \in Live : Coming(m, k)'
      BY <1>6 DEF OwedIsComing
    <3>1. CASE m = count'
      <4>1. Live # {}
        BY <1>1, <3>1 DEF Begin
      <4>2. PICK k \in Live : TRUE
        BY <4>1
      <4>3. pub'[p].next < k \/ (pub'[p].next = k /\ ~pub'[p].sent)
        BY <1>6, <2>2, <4>2
      <4> QED BY <2>2, <3>1, <4>2, <4>3 DEF Coming
    <3>2. CASE m # count'
      <4>1. due[m] # {}
        BY <1>1, <3>2 DEF Begin
      <4>2. PICK k \in Live : Coming(m, k)
        BY <4>1 DEF IInv, OwedIsComing
      <4>3. Unread(k)' = Unread(k)
        BY <1>1 DEF Unread
      <4>4. CASE m \in Unread(k)
        BY <4>2, <4>3, <4>4 DEF Coming
      <4>5. CASE m \notin Unread(k)
        <5>1. PICK q \in Publisher : /\ pub[q].message = m
                                     /\ pub[q].next < k \/ (pub[q].next = k /\ ~pub[q].sent)
          BY <4>2, <4>5 DEF Coming
        <5>2. pub[p].message = 0 /\ m # 0
          BY <1>1 DEF Idle, Pass, Message
        <5>3. pub'[q] = pub[q]
          BY <1>5, <5>1, <5>2
        <5> QED BY <4>2, <5>1, <5>3 DEF Coming
      <4> QED BY <4>4, <4>5
    <3> QED BY <3>1, <3>2
  <2>8. OwedToHandlers'
    <3>1. \A s \in Subscriber : at[s] = "done" => s \in ToSet(handlers)
      BY DEF IInv, OwedToHandlers
    <3> DEFINE D == IF Live = {} THEN {} ELSE {s \in Subscriber : at[s] = "done"}
    <3>2. D \subseteq ToSet(handlers) /\ due' = [due EXCEPT ![count'] = D]
      BY <3>1 DEF Begin
    <3> HIDE DEF D
    <3>3. \A m \in Message : due'[m] \subseteq ToSet(handlers)
      BY <1>1, <3>2 DEF IInv, OwedToHandlers
    <3> QED BY <1>1, <3>3 DEF IInv, OwedToHandlers
  <2>9. OnePlace' /\ PlaceHasOwner'
    BY <1>1, <1>6, PlaceStep DEF IInv, PlaceHasOwner
  <2>10. Published'
    BY <1>1, <1>2, <1>3 DEF Published
  <2> QED BY <1>b, <2>5, <2>6, <2>7, <2>8, <2>9, <2>10
<1> QED BY <1>7, <1>8

LEMMA SendInv ==
  ASSUME IInv, NEW p \in Publisher, Send(p)
  PROVE  /\ OnePlace' /\ PlaceHasOwner' /\ OwedToHandlers' /\ PassesSound' /\ Published'
         /\ LogsInOrder' /\ CallsBeforeLog' /\ PendingIsLast' /\ HeardOnceInOrder' /\ OwedIsComing'
<1> DEFINE k == pub[p].next
<1> DEFINE m == pub[p].message
<1>1. /\ TypeOK /\ Publishing(p) /\ ~pub[p].sent /\ pub' = [pub EXCEPT ![p] = Go(p)]
      /\ UNCHANGED <<at, handlers, entry, count, from, calls, due, faults>>
      /\ chan' = IF Alive(k) THEN [chan EXCEPT ![k] = Sent(chan[k], m)] ELSE chan
  BY DEF Send, IInv
<1>2. /\ count \in Nat /\ m \in 1..count /\ m \in Message /\ from[m] = p
      /\ k \in DOMAIN chan /\ k \in Nat \ {0}
      /\ pub \in [Publisher -> [message : 0..count, next : Nat \ {0}, sent : BOOLEAN]]
      /\ \A j \in DOMAIN chan : j \in Nat \ {0} /\ Len(chan[j].log) \in Nat
           /\ DOMAIN chan[j].log = 1..Len(chan[j].log) /\ chan[j].log \in Seq(Message)
           /\ chan[j].next \in Nat \ {0} /\ chan[j].next <= Len(chan[j].log) + 1
      /\ Live \subseteq DOMAIN chan
  BY <1>1, MessageFacts, ChannelFacts DEF TypeOK, Live
<1>3. /\ pub'[p].message = m /\ pub'[p].next = k /\ pub'[p].sent = TRUE
      /\ \A q \in Publisher : q # p => pub'[q] = pub[q]
  <2>1. Go(p).message = m /\ Go(p).next = k /\ Go(p).sent = TRUE
    BY DEF Go, Pass
  <2> QED BY <1>1, <1>2, <2>1
<1>4. /\ DOMAIN chan' = DOMAIN chan
      /\ \A j \in DOMAIN chan :
           /\ chan'[j].by = chan[j].by /\ chan'[j].next = chan[j].next /\ chan'[j].pc = chan[j].pc
           /\ \/ chan'[j].log = chan[j].log /\ ~(j = k /\ j \in Live)
              \/ j = k /\ j \in Live /\ chan'[j].log = Append(chan[j].log, m)
  <2>1. CASE ~Alive(k)
    BY <1>1, <2>1 DEF Live
  <2>2. CASE Alive(k)
    <3> DEFINE d == Sent(chan[k], m)
    <3>1. /\ d \in ChannelType /\ d.by = chan[k].by /\ d.log = Append(chan[k].log, m)
          /\ d.next = chan[k].next /\ d.pc = chan[k].pc
      <4>1. chan[k] \in ChannelType /\ m \in Message
        BY <1>1, <1>2, ChannelFacts
      <4> HIDE DEF k, m
      <4> QED BY <4>1, SentFacts
    <3>2. chan' = [chan EXCEPT ![k] = d] /\ k \in Live
      BY <1>1, <1>2, <2>2 DEF Live
    <3> HIDE DEF d, k
    <3>3. k \in DOMAIN chan /\ chan \in Seq(ChannelType)
      BY <1>1, <1>2 DEF TypeOK
    <3>4. DOMAIN chan' = DOMAIN chan /\ chan'[k] = d /\ \A j \in DOMAIN chan : j # k => chan'[j] = chan[j]
      BY <3>1, <3>2, <3>3, ChannelSet
    <3> QED BY <3>1, <3>2, <3>4
  <2> QED BY <2>1, <2>2
<1>5. Live' = Live
  BY <1>4 DEF Live, Alive
<1>6. \A j \in DOMAIN chan :
        /\ Len(chan'[j].log) \in Nat /\ DOMAIN chan'[j].log = 1..Len(chan'[j].log)
        /\ Len(chan[j].log) <= Len(chan'[j].log)
        /\ \A i \in 1..Len(chan[j].log) : chan'[j].log[i] = chan[j].log[i]
        /\ \A i \in DOMAIN chan'[j].log :
             \/ i \in DOMAIN chan[j].log
             \/ j = k /\ k \in Live /\ i = Len(chan[j].log) + 1 /\ chan'[j].log[i] = m
        /\ j = k /\ k \in Live =>
             /\ Len(chan'[j].log) = Len(chan[j].log) + 1 /\ chan'[j].log[Len(chan'[j].log)] = m
  <2> SUFFICES ASSUME NEW j \in DOMAIN chan
               PROVE
        /\ Len(chan'[j].log) \in Nat /\ DOMAIN chan'[j].log = 1..Len(chan'[j].log)
        /\ Len(chan[j].log) <= Len(chan'[j].log)
        /\ \A i \in 1..Len(chan[j].log) : chan'[j].log[i] = chan[j].log[i]
        /\ \A i \in DOMAIN chan'[j].log :
             \/ i \in DOMAIN chan[j].log
             \/ j = k /\ k \in Live /\ i = Len(chan[j].log) + 1 /\ chan'[j].log[i] = m
        /\ j = k /\ k \in Live =>
             /\ Len(chan'[j].log) = Len(chan[j].log) + 1 /\ chan'[j].log[Len(chan'[j].log)] = m
    OBVIOUS
  <2>1. CASE chan'[j].log = chan[j].log /\ ~(j = k /\ j \in Live)
    BY <1>2, <2>1
  <2>2. CASE j = k /\ j \in Live /\ chan'[j].log = Append(chan[j].log, m)
    <3> HIDE DEF m, k
    <3> DEFINE q == chan[j].log
    <3>1. q \in Seq(Message) /\ m \in Message /\ chan'[j].log = Append(q, m)
      BY <1>2, <2>2
    <3>2. /\ Len(q) \in Nat /\ DOMAIN q = 1..Len(q) /\ DOMAIN chan'[j].log = 1..Len(q) + 1
          /\ Len(chan'[j].log) = Len(q) + 1 /\ chan'[j].log[Len(q) + 1] = m
          /\ \A i \in 1..Len(q) : chan'[j].log[i] = q[i]
      BY <3>1, AppendFacts
    <3> QED BY <2>2, <3>2
  <2> QED BY <1>4, <2>1, <2>2
<1> HIDE DEF k, m
<1>7. Publishing(p) /\ Pending(p, k)
  BY <1>1 DEF Pending, k
<1>8. \A q \in Publisher : q # p => (Publishing(q)' <=> Publishing(q))
                                    /\ \A j \in DOMAIN chan : Pending(q, j)' <=> Pending(q, j)
  BY <1>3 DEF Publishing, Pending
<1>9. OnePlace' /\ PlaceHasOwner'
  BY <1>1, <1>4, <1>5, PlaceStep DEF IInv, PlaceHasOwner
<1>10. PassesSound'
  <2> SUFFICES ASSUME NEW q \in Publisher, Publishing(q)'
               PROVE  /\ pub'[q].message \in 1..count /\ from[pub'[q].message] = q
                      /\ pub'[q].next \in DOMAIN chan
    BY <1>1, <1>4 DEF PassesSound
  <2>1. CASE q = p
    BY <1>2, <1>3, <2>1
  <2>2. CASE q # p
    BY <1>3, <1>8, <2>2, MessageFacts
  <2> QED BY <2>1, <2>2
<1>11. Published'
  <2> SUFFICES ASSUME NEW j \in DOMAIN chan, NEW i \in DOMAIN chan'[j].log
               PROVE  chan'[j].log[i] <= count
    BY <1>1, <1>4 DEF IInv, Published
  <2>1. CASE i \in DOMAIN chan[j].log
    BY <1>2, <1>6, <2>1 DEF IInv, Published
  <2>2. CASE i \notin DOMAIN chan[j].log
    BY <1>2, <1>6, <2>2
  <2> QED BY <2>1, <2>2
<1>12. LogsInOrder'
  <2> SUFFICES ASSUME NEW j \in DOMAIN chan, NEW a \in DOMAIN chan'[j].log, NEW b \in DOMAIN chan'[j].log,
                      a < b
               PROVE  from[chan'[j].log[a]] = from[chan'[j].log[b]] => chan'[j].log[a] < chan'[j].log[b]
    BY <1>1, <1>4 DEF LogsInOrder, Follows
  <2>1. a \in DOMAIN chan[j].log /\ chan'[j].log[a] = chan[j].log[a]
    <3>1. /\ DOMAIN chan'[j].log = 1..Len(chan'[j].log) /\ Len(chan'[j].log) \in Nat
          /\ DOMAIN chan[j].log = 1..Len(chan[j].log) /\ Len(chan[j].log) \in Nat
      BY <1>2, <1>6
    <3>2. a \in Nat /\ b \in Nat /\ a >= 1
      BY <3>1
    <3>3. b <= Len(chan[j].log) + 1
      <4>1. b \in DOMAIN chan[j].log \/ b = Len(chan[j].log) + 1
        BY <1>6
      <4> QED BY <3>1, <4>1
    <3>4. a \in 1..Len(chan[j].log)
      BY <3>1, <3>2, <3>3
    <3> QED BY <1>6, <3>1, <3>4
  <2>2. CASE b \in DOMAIN chan[j].log
    <3>1. chan'[j].log[b] = chan[j].log[b]
      BY <1>2, <1>6, <2>2
    <3> QED BY <2>1, <2>2, <3>1 DEF IInv, LogsInOrder, Follows
  <2>3. CASE b \notin DOMAIN chan[j].log
    <3>1. j = k /\ k \in Live /\ chan'[j].log[b] = m
      BY <1>6, <2>3
    <3>2. Follows(chan[j].log[a], m)
      BY <1>7, <2>1, <3>1 DEF IInv, PendingIsLast, m
    <3> QED BY <2>1, <3>1, <3>2 DEF Follows
  <2> QED BY <2>2, <2>3
<1>13. CallsBeforeLog'
  <2> SUFFICES ASSUME NEW j \in Live, NEW s \in Subscriber, NEW a \in DOMAIN calls[s],
                      NEW b \in chan'[j].next..Len(chan'[j].log)
               PROVE  from[calls[s][a]] = from[chan'[j].log[b]] => calls[s][a] < chan'[j].log[b]
    BY <1>1, <1>5 DEF CallsBeforeLog, Follows
  <2>1. j \in DOMAIN chan /\ chan'[j].next = chan[j].next /\ b \in DOMAIN chan'[j].log
    <3>1. j \in DOMAIN chan
      BY <1>2
    <3> QED BY <1>2, <1>4, <1>6, <3>1
  <2>2. CASE b \in DOMAIN chan[j].log
    <3>1. chan'[j].log[b] = chan[j].log[b] /\ b \in chan[j].next..Len(chan[j].log)
      BY <1>2, <1>6, <2>1, <2>2
    <3> QED BY <3>1 DEF IInv, CallsBeforeLog, Follows
  <2>3. CASE b \notin DOMAIN chan[j].log
    <3>1. j = k /\ k \in Live /\ chan'[j].log[b] = m
      BY <1>6, <2>1, <2>3
    <3>2. Follows(calls[s][a], m)
      BY <1>7, <3>1 DEF IInv, PendingIsLast, m
    <3> QED BY <3>1, <3>2 DEF Follows
  <2> QED BY <2>2, <2>3
<1>14. PendingIsLast'
  <2> SUFFICES ASSUME NEW q \in Publisher, NEW j \in Live, Publishing(q)', Pending(q, j)'
               PROVE  /\ \A i \in DOMAIN chan'[j].log :
                           from[chan'[j].log[i]] = from[pub'[q].message] => chan'[j].log[i] < pub'[q].message
                      /\ \A s \in Subscriber : \A i \in DOMAIN calls[s] :
                           from[calls[s][i]] = from[pub'[q].message] => calls[s][i] < pub'[q].message
    BY <1>1, <1>5 DEF PendingIsLast, Follows
  <2>1. j \in DOMAIN chan
    BY <1>2
  <2>2. CASE q = p
    <3>1. Pending(p, j) /\ j # k /\ pub'[q].message = pub[p].message
      BY <1>2, <1>3, <2>1, <2>2 DEF Pending, k, m
    <3>2. chan'[j].log = chan[j].log
      BY <1>4, <2>1, <3>1
    <3> QED BY <1>7, <3>1, <3>2 DEF IInv, PendingIsLast, Follows
  <2>3. CASE q # p
    <3>1. pub'[q] = pub[q] /\ Publishing(q) /\ Pending(q, j) /\ from[pub[q].message] = q
      BY <1>3, <1>8, <2>1, <2>3, MessageFacts
    <3>2. /\ \A i \in DOMAIN chan[j].log : Follows(chan[j].log[i], pub[q].message)
          /\ \A s \in Subscriber : \A i \in DOMAIN calls[s] : Follows(calls[s][i], pub[q].message)
      BY <3>1 DEF IInv, PendingIsLast
    <3>3. \A i \in DOMAIN chan'[j].log :
            from[chan'[j].log[i]] = from[pub[q].message] => chan'[j].log[i] < pub[q].message
      <4> SUFFICES ASSUME NEW i \in DOMAIN chan'[j].log
                   PROVE  from[chan'[j].log[i]] = from[pub[q].message] => chan'[j].log[i] < pub[q].message
        OBVIOUS
      <4>1. CASE i \in DOMAIN chan[j].log
        BY <1>2, <1>6, <2>1, <3>2, <4>1 DEF Follows
      <4>2. CASE i \notin DOMAIN chan[j].log
        BY <1>2, <1>6, <2>1, <2>3, <3>1, <4>2
      <4> QED BY <4>1, <4>2
    <3> QED BY <3>1, <3>2, <3>3 DEF Follows
  <2> QED BY <2>2, <2>3
<1>15. HeardOnceInOrder'
  BY <1>1 DEF IInv, HeardOnceInOrder
<1>16. OwedIsComing'
  <2> SUFFICES ASSUME NEW n \in Message, due[n] # {}
               PROVE  \E j \in Live : Coming(n, j)'
    BY <1>1, <1>5 DEF OwedIsComing
  <2>1. PICK j \in Live : Coming(n, j)
    BY DEF IInv, OwedIsComing
  <2>2. j \in DOMAIN chan
    BY <1>2
  <2>3. CASE n \in Unread(j)
    <3>1. n \in Unread(j)'
      <4>1. PICK i \in chan[j].next..Len(chan[j].log) : n = chan[j].log[i]
        BY <2>3 DEF Unread
      <4>2. i \in 1..Len(chan[j].log) /\ i \in chan'[j].next..Len(chan'[j].log)
        BY <1>2, <1>4, <1>6, <2>2
      <4>3. chan'[j].log[i] = n
        BY <1>6, <2>2, <4>1, <4>2
      <4> QED BY <4>2, <4>3 DEF Unread
    <3> QED BY <3>1 DEF Coming
  <2>4. CASE n \notin Unread(j)
    <3>1. PICK q \in Publisher : pub[q].message = n /\ Pending(q, j)
      BY <2>1, <2>4 DEF Coming, Pending
    <3>2. CASE q # p
      <4>1. pub'[q] = pub[q]
        BY <1>3, <3>2
      <4> QED BY <3>1, <4>1 DEF Coming, Pending
    <3>3. CASE q = p /\ k < j
      BY <1>3, <3>1, <3>3 DEF Coming, m
    <3>4. CASE q = p /\ k = j
      <4> DEFINE l == Len(chan'[j].log)
      <4>1. l \in chan'[j].next..Len(chan'[j].log) /\ chan'[j].log[l] = n
        BY <1>2, <1>4, <1>6, <2>2, <3>1, <3>4 DEF m
      <4> QED BY <4>1 DEF Coming, Unread
    <3> QED BY <3>1, <3>2, <3>3, <3>4 DEF Pending, k
  <2> QED BY <2>3, <2>4
<1>17. OwedToHandlers'
  BY <1>1 DEF IInv, OwedToHandlers
<1> QED BY <1>9, <1>10, <1>11, <1>12, <1>13, <1>14, <1>15, <1>16, <1>17

LEMMA NotifyInv ==
  ASSUME IInv, NEW p \in Publisher, Notify(p)
  PROVE  /\ OnePlace' /\ PlaceHasOwner' /\ OwedToHandlers' /\ PassesSound' /\ Published'
         /\ LogsInOrder' /\ CallsBeforeLog' /\ PendingIsLast' /\ HeardOnceInOrder' /\ OwedIsComing'
<1> DEFINE k == pub[p].next
<1> DEFINE m == pub[p].message
<1>1. /\ TypeOK /\ Publishing(p) /\ pub[p].sent
      /\ UNCHANGED <<at, handlers, entry, count, from, calls, due, faults>>
      /\ chan' = [chan EXCEPT ![k] = Woken(chan[k])]
      /\ pub' = [pub EXCEPT ![p] = IF k = Len(chan) THEN Idle ELSE Pass(m, k + 1, FALSE)]
  BY DEF Notify, Onward, IInv
<1>2. /\ m \in 1..count /\ m \in Message /\ from[m] = p
      /\ k \in DOMAIN chan /\ k \in Nat \ {0}
      /\ chan \in Seq(ChannelType) /\ chan[k] \in ChannelType /\ Sleeps(chan[k])
      /\ pub \in [Publisher -> [message : 0..count, next : Nat \ {0}, sent : BOOLEAN]]
  BY <1>1, MessageFacts, ChannelFacts DEF TypeOK
<1>3. /\ k # Len(chan) => /\ pub'[p].message = m /\ pub'[p].next = k + 1 /\ pub'[p].sent = FALSE
      /\ k = Len(chan) => ~Publishing(p)'
      /\ \A q \in Publisher : q # p => pub'[q] = pub[q]
  <2>1. Pass(m, k + 1, FALSE).message = m /\ Pass(m, k + 1, FALSE).next = k + 1
        /\ Pass(m, k + 1, FALSE).sent = FALSE
    BY DEF Pass
  <2> QED BY <1>1, <1>2, <2>1 DEF Publishing
<1>4. SameChannels
  <2>1. Woken(chan[k]) \in ChannelType /\ Kept(chan[k], Woken(chan[k]))
    BY <1>2, WokenFacts
  <2> QED BY <1>1, <1>2, <2>1, OneKept
<1>5. /\ DOMAIN chan' = DOMAIN chan /\ Live' = Live /\ Live \subseteq DOMAIN chan
      /\ DOMAIN chan = 1..Len(chan) /\ Len(chan) \in Nat
      /\ \A j \in DOMAIN chan : /\ chan'[j].log = chan[j].log /\ chan'[j].next = chan[j].next
                                /\ chan'[j].by = chan[j].by
  BY <1>2, <1>4, SameLive DEF SameChannels, Live
<1> HIDE DEF k, m
<1>6. \A q \in Publisher : \A j \in DOMAIN chan :
        Publishing(q)' /\ Pending(q, j)' =>
          Publishing(q) /\ Pending(q, j) /\ pub'[q].message = pub[q].message
  <2> SUFFICES ASSUME NEW q \in Publisher, NEW j \in DOMAIN chan, Publishing(q)', Pending(q, j)'
               PROVE  Publishing(q) /\ Pending(q, j) /\ pub'[q].message = pub[q].message
    OBVIOUS
  <2>1. CASE q = p
    <3>1. pub'[p].next = k + 1 /\ pub'[p].message = m
      BY <1>3, <2>1
    <3>2. k < j
      BY <1>2, <1>5, <2>1, <3>1 DEF Pending
    <3> QED BY <1>1, <2>1, <3>1, <3>2 DEF Pending, k, m
  <2>2. CASE q # p
    BY <1>3, <2>2 DEF Publishing, Pending
  <2> QED BY <2>1, <2>2
<1>7. OnePlace' /\ PlaceHasOwner'
  BY <1>1, <1>5, PlaceStep DEF IInv, PlaceHasOwner
<1>8. Published' /\ LogsInOrder' /\ CallsBeforeLog' /\ HeardOnceInOrder'
  BY <1>1, <1>4, QuietLogs
<1>9. OwedToHandlers'
  BY <1>1 DEF IInv, OwedToHandlers
<1>10. PassesSound'
  <2> SUFFICES ASSUME NEW q \in Publisher, Publishing(q)'
               PROVE  /\ pub'[q].message \in 1..count /\ from[pub'[q].message] = q
                      /\ pub'[q].next \in DOMAIN chan
    BY <1>1, <1>5 DEF PassesSound
  <2>1. CASE q = p
    <3>1. k # Len(chan)
      BY <1>3, <2>1
    <3>2. k + 1 \in DOMAIN chan
      BY <1>2, <1>5, <3>1
    <3> QED BY <1>2, <1>3, <2>1, <3>1, <3>2
  <2>2. CASE q # p
    <3>1. pub'[q] = pub[q] /\ Publishing(q)
      BY <1>3, <2>2 DEF Publishing
    <3> QED BY <3>1, MessageFacts
  <2> QED BY <2>1, <2>2
<1>11. PendingIsLast'
  <2> SUFFICES ASSUME NEW q \in Publisher, NEW j \in Live, Publishing(q)', Pending(q, j)'
               PROVE  /\ \A i \in DOMAIN chan'[j].log :
                           from'[chan'[j].log[i]] = from'[pub'[q].message] => chan'[j].log[i] < pub'[q].message
                      /\ \A s \in Subscriber : \A i \in DOMAIN calls'[s] :
                           from'[calls'[s][i]] = from'[pub'[q].message] => calls'[s][i] < pub'[q].message
    BY <1>5 DEF PendingIsLast, Follows
  <2>1. Publishing(q) /\ Pending(q, j) /\ pub'[q].message = pub[q].message /\ chan'[j].log = chan[j].log
    BY <1>5, <1>6
  <2>2. /\ \A i \in DOMAIN chan[j].log : Follows(chan[j].log[i], pub[q].message)
        /\ \A s \in Subscriber : \A i \in DOMAIN calls[s] : Follows(calls[s][i], pub[q].message)
    BY <2>1 DEF IInv, PendingIsLast
  <2> QED BY <1>1, <2>1, <2>2 DEF Follows
<1>12. OwedIsComing'
  <2> SUFFICES ASSUME NEW n \in Message, due[n] # {}
               PROVE  \E j \in Live : Coming(n, j)'
    BY <1>1, <1>5 DEF OwedIsComing
  <2>1. PICK j \in Live : Coming(n, j)
    BY DEF IInv, OwedIsComing
  <2>2. Unread(j)' = Unread(j)
    BY <1>5 DEF Unread
  <2>3. CASE n \in Unread(j)
    BY <2>2, <2>3 DEF Coming
  <2>4. CASE n \notin Unread(j)
    <3>1. PICK q \in Publisher : pub[q].message = n /\ Pending(q, j)
      BY <2>1, <2>4 DEF Coming, Pending
    <3>2. CASE q # p
      BY <1>3, <3>1, <3>2 DEF Coming, Pending
    <3>3. CASE q = p
      <4>1. k < j /\ j \in 1..Len(chan)
        BY <1>1, <1>5, <3>1, <3>3 DEF Pending, k
      <4>2. k # Len(chan)
        BY <1>2, <1>5, <4>1
      <4>3. pub'[p].message = n /\ pub'[p].next = k + 1 /\ ~pub'[p].sent
        BY <1>3, <3>1, <3>3, <4>2 DEF m
      <4>4. k + 1 < j \/ k + 1 = j
        BY <1>2, <4>1
      <4> QED BY <4>3, <4>4 DEF Coming
    <3> QED BY <3>2, <3>3
  <2> QED BY <2>3, <2>4
<1> QED BY <1>7, <1>8, <1>9, <1>10, <1>11, <1>12

-----------------------------------------------------------------------------
(* The consumer.                                                           *)

\* Whoever reads on from channel k leaves publishers, places and logs alone.
ReadsOn(k, i, step) ==
  /\ chan' = [chan EXCEPT ![k] = Reads(chan[k], i, step)]
  /\ UNCHANGED <<at, handlers, entry, pub, count, from>>

LEMMA ReadsOnFacts ==
  ASSUME IInv, NEW k \in DOMAIN chan, chan[k].pc \in {"top", "again"},
         NEW i \in Nat \ {0}, NEW step \in {"top", "empty", "deaf", "finished"},
         ReadsOn(k, i, step)
  PROVE  /\ DOMAIN chan' = DOMAIN chan /\ k \in Live /\ Live' \subseteq Live
         /\ (step # "finished" => Live' = Live) /\ Live \subseteq DOMAIN chan
         /\ chan'[k].next = i
         /\ \A j \in DOMAIN chan : /\ chan'[j].log = chan[j].log /\ chan'[j].by = chan[j].by
                                   /\ j # k => chan'[j] = chan[j]
<1>1. chan \in Seq(ChannelType) /\ chan[k] \in ChannelType
  BY ChannelFacts DEF IInv, TypeOK
<1> DEFINE d == Reads(chan[k], i, step)
<1>2. d \in ChannelType /\ d.by = chan[k].by /\ d.log = chan[k].log /\ d.next = i /\ d.pc = step
  <2>1. \A c \in ChannelType : LET e == Reads(c, i, step) IN
          e \in ChannelType /\ e.by = c.by /\ e.log = c.log /\ e.next = i /\ e.pc = step
    BY DEF Reads, ChannelType
  <2> QED BY <1>1, <2>1
<1>3. chan' = [chan EXCEPT ![k] = d]
  BY DEF ReadsOn
<1> HIDE DEF d
<1>4. DOMAIN chan' = DOMAIN chan /\ chan'[k] = d /\ \A j \in DOMAIN chan : j # k => chan'[j] = chan[j]
  BY <1>1, <1>2, <1>3, ChannelSet
<1>5. k \in Live /\ Live \subseteq DOMAIN chan
  BY DEF Live, Alive
<1>6. Live' \subseteq Live
  BY <1>4, <1>5 DEF Live, Alive
<1>7. step # "finished" => Live' = Live
  BY <1>2, <1>4, <1>5 DEF Live, Alive
<1> QED BY <1>2, <1>4, <1>5, <1>6, <1>7

LEMMA ReadsOnInv ==
  ASSUME IInv, NEW k \in DOMAIN chan, chan[k].pc \in {"top", "again"},
         NEW i \in Nat \ {0}, NEW step \in {"top", "empty", "deaf", "finished"},
         ReadsOn(k, i, step)
  PROVE  OnePlace' /\ PlaceHasOwner' /\ PassesSound' /\ LogsInOrder'
<1>1. /\ DOMAIN chan' = DOMAIN chan /\ Live' \subseteq Live
      /\ \A j \in DOMAIN chan : chan'[j].log = chan[j].log /\ chan'[j].by = chan[j].by
      /\ UNCHANGED <<at, handlers, entry, pub, count, from>>
  BY ReadsOnFacts DEF ReadsOn
<1>2. OnePlace' /\ PlaceHasOwner'
  BY <1>1, PlaceStep DEF IInv, PlaceHasOwner
<1>3. PassesSound'
  BY <1>1 DEF IInv, PassesSound, Publishing
<1>4. LogsInOrder'
  BY <1>1 DEF IInv, LogsInOrder, Follows
<1> QED BY <1>2, <1>3, <1>4

LEMMA SkipInv ==
  ASSUME IInv, NEW k \in DOMAIN chan, chan[k].pc \in {"top", "again"}, Lagging(k),
         SkipTo(k, Oldest(k)), UNCHANGED <<at, handlers, entry, pub, count, from>>
  PROVE  /\ OnePlace' /\ PlaceHasOwner' /\ OwedToHandlers' /\ PassesSound' /\ Published'
         /\ LogsInOrder' /\ CallsBeforeLog' /\ PendingIsLast' /\ HeardOnceInOrder' /\ OwedIsComing'
<1> DEFINE o == Oldest(k)
<1>1. /\ o \in Nat \ {0} /\ chan[k].next <= o /\ TypeOK
      /\ due \in [Message -> SUBSET Subscriber]
  BY OldestFacts DEF IInv, TypeOK
<1>2. ReadsOn(k, o, "top") /\ calls' = calls
      /\ due' = [m \in Message |->
                   IF \E j \in chan[k].next..o - 1 : chan[k].log[j] = m THEN {} ELSE due[m]]
  BY DEF SkipTo, ReadsOn
<1> HIDE DEF o
<1>3. /\ DOMAIN chan' = DOMAIN chan /\ k \in Live /\ Live' = Live /\ Live \subseteq DOMAIN chan
      /\ chan'[k].next = o
      /\ \A j \in DOMAIN chan : chan'[j].log = chan[j].log /\ (j # k => chan'[j] = chan[j])
  BY <1>1, <1>2, ReadsOnFacts
<1>4. OnePlace' /\ PlaceHasOwner' /\ PassesSound' /\ LogsInOrder'
  BY <1>1, <1>2, ReadsOnInv
<1>5. Published' /\ HeardOnceInOrder'
  BY <1>2, <1>3 DEF IInv, Published, HeardOnceInOrder
<1>6. CallsBeforeLog'
  <2> SUFFICES ASSUME NEW j \in Live, NEW s \in Subscriber, NEW a \in DOMAIN calls[s],
                      NEW b \in chan'[j].next..Len(chan[j].log)
               PROVE  Follows(calls[s][a], chan[j].log[b])
    BY <1>2, <1>3 DEF CallsBeforeLog, Follows
  <2>1. b \in chan[j].next..Len(chan[j].log)
    <3>1. j \in DOMAIN chan
      BY <1>3
    <3>2. chan[j].next \in Nat /\ Len(chan[j].log) \in Nat /\ chan[k].next \in Nat
      BY <1>1, <3>1, ChannelFacts
    <3> QED BY <1>1, <1>3, <3>1, <3>2
  <2> QED BY <2>1 DEF IInv, CallsBeforeLog
<1>7. PendingIsLast'
  BY <1>2, <1>3 DEF IInv, PendingIsLast, Publishing, Pending, Follows
<1>8. OwedToHandlers'
  BY <1>1, <1>2 DEF IInv, OwedToHandlers
<1>9. OwedIsComing'
  <2> SUFFICES ASSUME NEW n \in Message, due'[n] # {}
               PROVE  \E j \in Live : Coming(n, j)'
    BY <1>3 DEF OwedIsComing
  <2>1. due[n] # {} /\ ~\E j \in chan[k].next..o - 1 : chan[k].log[j] = n
    BY <1>1, <1>2
  <2>2. PICK j \in Live : Coming(n, j)
    BY <2>1 DEF IInv, OwedIsComing
  <2>3. CASE n \in Unread(j)
    <3>1. PICK i \in chan[j].next..Len(chan[j].log) : chan[j].log[i] = n
      BY <2>3 DEF Unread
    <3>2. j \in DOMAIN chan /\ chan[j].next \in Nat /\ Len(chan[j].log) \in Nat
      BY <1>1, <1>3, ChannelFacts
    <3>3. CASE j = k
      <4>1. i \in o..Len(chan[k].log)
        BY <1>1, <2>1, <3>1, <3>2, <3>3
      <4> QED BY <1>3, <3>1, <3>3, <4>1 DEF Coming, Unread
    <3>4. CASE j # k
      BY <1>3, <3>1, <3>2, <3>4 DEF Coming, Unread
    <3> QED BY <3>3, <3>4
  <2>4. CASE n \notin Unread(j)
    <3>1. PICK q \in Publisher : pub[q].message = n /\ Pending(q, j)
      BY <2>2, <2>4 DEF Coming, Pending
    <3> QED BY <3>1 DEF Coming, Pending
  <2> QED BY <2>3, <2>4
<1> QED BY <1>4, <1>5, <1>6, <1>7, <1>8, <1>9

\* Some of the handlers are called with the message that channel k has next.
LEMMA CallInv ==
  ASSUME IInv, NEW k \in DOMAIN chan, chan[k].pc \in {"top", "again"},
         chan[k].next <= Len(chan[k].log), NEW step \in {"top", "finished"},
         ReadsOn(k, chan[k].next + 1, step),
         NEW list, Call(list, chan[k].log[chan[k].next])
  PROVE  Published' /\ HeardOnceInOrder' /\ CallsBeforeLog' /\ PendingIsLast'
<1> DEFINE i == chan[k].next
<1> DEFINE m == chan[k].log[i]
<1>1. /\ i \in Nat \ {0} /\ i + 1 \in Nat \ {0} /\ i \in DOMAIN chan[k].log
      /\ Len(chan[k].log) \in Nat /\ DOMAIN chan[k].log = 1..Len(chan[k].log)
      /\ m \in Message /\ m \in 1..count /\ count \in Nat /\ TypeOK /\ OnePlace
      /\ calls \in [Subscriber -> Seq(Message)]
  <2>1. TypeOK /\ OnePlace /\ calls \in [Subscriber -> Seq(Message)]
    BY DEF IInv, TypeOK
  <2>2. /\ i \in Nat \ {0} /\ Len(chan[k].log) \in Nat /\ DOMAIN chan[k].log = 1..Len(chan[k].log)
        /\ \A a \in DOMAIN chan[k].log : chan[k].log[a] \in Message
    BY <2>1, ChannelFacts
  <2>3. i \in DOMAIN chan[k].log /\ i + 1 \in Nat \ {0}
    BY <2>2
  <2>4. m \in 1..count /\ count \in Nat
    BY <2>3, MessageFacts
  <2> QED BY <2>1, <2>2, <2>3, <2>4
<1>2. /\ DOMAIN chan' = DOMAIN chan /\ k \in Live /\ Live' \subseteq Live
      /\ Live \subseteq DOMAIN chan /\ chan'[k].next = i + 1
      /\ \A j \in DOMAIN chan : chan'[j].log = chan[j].log
      /\ UNCHANGED <<pub, count, from>>
  <2>1. step \in {"top", "empty", "deaf", "finished"}
    OBVIOUS
  <2> QED BY <1>1, <2>1, ReadsOnFacts DEF ReadsOn
<1>3. \A j \in Live' : j = k
  BY <1>1, <1>2, OneConsumer
<1> HIDE DEF m, i
<1>4. \A s \in Subscriber :
        /\ DOMAIN calls[s] = 1..Len(calls[s]) /\ Len(calls[s]) \in Nat
        /\ \A a \in DOMAIN calls'[s] :
             \/ a \in DOMAIN calls[s] /\ calls'[s][a] = calls[s][a]
             \/ a = Len(calls[s]) + 1 /\ calls'[s][a] = m
  <2> SUFFICES ASSUME NEW s \in Subscriber
               PROVE  /\ DOMAIN calls[s] = 1..Len(calls[s]) /\ Len(calls[s]) \in Nat
                      /\ \A a \in DOMAIN calls'[s] :
                           \/ a \in DOMAIN calls[s] /\ calls'[s][a] = calls[s][a]
                           \/ a = Len(calls[s]) + 1 /\ calls'[s][a] = m
    OBVIOUS
  <2>1. calls'[s] = calls[s] \/ calls'[s] = Append(calls[s], m)
    BY DEF Call, m, i
  <2>2. calls[s] \in Seq(Message)
    BY <1>1
  <2>3. DOMAIN calls[s] = 1..Len(calls[s]) /\ Len(calls[s]) \in Nat
    BY <2>2
  <2>4. CASE calls'[s] = calls[s]
    BY <2>3, <2>4
  <2>5. CASE calls'[s] = Append(calls[s], m)
    <3>1. /\ DOMAIN calls'[s] = 1..Len(calls[s]) + 1 /\ calls'[s][Len(calls[s]) + 1] = m
          /\ \A a \in 1..Len(calls[s]) : calls'[s][a] = calls[s][a]
      BY <1>1, <2>2, <2>5, AppendFacts
    <3> QED BY <2>3, <3>1
  <2> QED BY <2>1, <2>4, <2>5
<1>5. Published'
  <2>1. \A j \in DOMAIN chan' : \A a \in DOMAIN chan'[j].log : chan'[j].log[a] <= count
    BY <1>2 DEF IInv, Published
  <2>2. \A s \in Subscriber : \A a \in DOMAIN calls'[s] : calls'[s][a] <= count
    BY <1>1, <1>4 DEF IInv, Published
  <2> QED BY <1>2, <2>1, <2>2 DEF Published
<1>6. \A s \in Subscriber : \A a \in DOMAIN calls[s] : Follows(calls[s][a], m)
  BY <1>1, <1>2 DEF IInv, CallsBeforeLog, i, m
<1>7. HeardOnceInOrder'
  <2> SUFFICES ASSUME NEW s \in Subscriber, NEW a \in DOMAIN calls'[s], NEW b \in DOMAIN calls'[s],
                      a < b, from[calls'[s][a]] = from[calls'[s][b]]
               PROVE  calls'[s][a] < calls'[s][b]
    BY <1>2 DEF HeardOnceInOrder
  <2>1. a \in DOMAIN calls[s] /\ calls'[s][a] = calls[s][a]
    <3>1. a \in 1..Len(calls[s]) + 1 /\ b \in 1..Len(calls[s]) + 1
      BY <1>4
    <3>2. a # Len(calls[s]) + 1
      BY <1>4, <3>1
    <3> QED BY <1>4, <3>2
  <2>2. CASE b \in DOMAIN calls[s] /\ calls'[s][b] = calls[s][b]
    BY <2>1, <2>2 DEF IInv, HeardOnceInOrder
  <2>3. CASE calls'[s][b] = m
    BY <1>6, <2>1, <2>3 DEF Follows
  <2> QED BY <1>4, <2>2, <2>3
<1>8. CallsBeforeLog'
  <2> SUFFICES ASSUME NEW s \in Subscriber, NEW a \in DOMAIN calls'[s],
                      NEW b \in i + 1..Len(chan[k].log)
               PROVE  Follows(calls'[s][a], chan[k].log[b])
    BY <1>2, <1>3 DEF CallsBeforeLog, Follows
  <2>1. b \in i..Len(chan[k].log) /\ b \in DOMAIN chan[k].log /\ i < b
    BY <1>1
  <2>2. CASE a \in DOMAIN calls[s] /\ calls'[s][a] = calls[s][a]
    BY <1>2, <2>1, <2>2 DEF IInv, CallsBeforeLog, i
  <2>3. CASE calls'[s][a] = m
    BY <1>1, <2>1, <2>3 DEF IInv, LogsInOrder, m
  <2> QED BY <1>4, <2>2, <2>3
<1>9. PendingIsLast'
  <2> SUFFICES ASSUME NEW q \in Publisher, Publishing(q), Pending(q, k)
               PROVE  /\ \A a \in DOMAIN chan[k].log : Follows(chan[k].log[a], pub[q].message)
                      /\ \A s \in Subscriber : \A a \in DOMAIN calls'[s] :
                           Follows(calls'[s][a], pub[q].message)
    BY <1>2, <1>3 DEF PendingIsLast, Publishing, Pending, Follows
  <2>1. /\ \A a \in DOMAIN chan[k].log : Follows(chan[k].log[a], pub[q].message)
        /\ \A s \in Subscriber : \A a \in DOMAIN calls[s] : Follows(calls[s][a], pub[q].message)
    BY <1>2 DEF IInv, PendingIsLast
  <2>2. Follows(m, pub[q].message)
    BY <1>1, <2>1 DEF m
  <2> QED BY <1>4, <2>1, <2>2
<1> QED BY <1>5, <1>7, <1>8, <1>9

LEMMA CallAllInv ==
  ASSUME IInv, NEW k \in DOMAIN chan, chan[k].pc \in {"top", "again"},
         chan[k].next <= Len(chan[k].log), CallAll(k),
         UNCHANGED <<at, handlers, entry, pub, count, from>>
  PROVE  /\ OnePlace' /\ PlaceHasOwner' /\ OwedToHandlers' /\ PassesSound' /\ Published'
         /\ LogsInOrder' /\ CallsBeforeLog' /\ PendingIsLast' /\ HeardOnceInOrder' /\ OwedIsComing'
<1> DEFINE i == chan[k].next
<1> DEFINE m == chan[k].log[i]
<1>1. /\ i \in Nat \ {0} /\ i + 1 \in Nat \ {0} /\ m \in Message
      /\ due \in [Message -> SUBSET Subscriber] /\ TypeOK
      /\ \A j \in DOMAIN chan : chan[j].next \in Nat \ {0} /\ Len(chan[j].log) \in Nat
  <2>1. TypeOK /\ due \in [Message -> SUBSET Subscriber]
    BY DEF IInv, TypeOK
  <2>2. \A j \in DOMAIN chan : chan[j].next \in Nat \ {0} /\ Len(chan[j].log) \in Nat
    BY <2>1, ChannelFacts
  <2>3. i \in 1..Len(chan[k].log) /\ i \in Nat \ {0}
    BY <2>2
  <2>4. m \in Message
    BY <2>1, <2>3, ChannelFacts
  <2> QED BY <2>1, <2>2, <2>3, <2>4
<1>2. /\ ReadsOn(k, i + 1, "top") /\ Call(handlers, m)
      /\ due' = [due EXCEPT ![m] = due[m] \ ToSet(handlers)]
  BY DEF CallAll, ReadsOn
<1>3. /\ DOMAIN chan' = DOMAIN chan /\ Live' = Live /\ Live \subseteq DOMAIN chan
      /\ chan'[k].next = i + 1
      /\ \A j \in DOMAIN chan : chan'[j].log = chan[j].log /\ (j # k => chan'[j] = chan[j])
  BY <1>1, <1>2, ReadsOnFacts
<1>4. OnePlace' /\ PlaceHasOwner' /\ PassesSound' /\ LogsInOrder'
  BY <1>1, <1>2, ReadsOnInv
<1>5. Published' /\ HeardOnceInOrder' /\ CallsBeforeLog' /\ PendingIsLast'
  BY <1>2, CallInv
<1>6. \A n \in Message : due'[n] \subseteq due[n]
  BY <1>1, <1>2
<1>7. OwedToHandlers'
  BY <1>6 DEF IInv, OwedToHandlers
<1>8. due'[m] = {}
  BY <1>1, <1>2 DEF IInv, OwedToHandlers
<1> HIDE DEF i, m
<1>9. OwedIsComing'
  <2> SUFFICES ASSUME NEW n \in Message, due'[n] # {}
               PROVE  \E j \in Live : Coming(n, j)'
    BY <1>3 DEF OwedIsComing
  <2>1. due[n] # {} /\ n # m
    BY <1>6, <1>8
  <2>2. PICK j \in Live : Coming(n, j)
    BY <2>1 DEF IInv, OwedIsComing
  <2>3. CASE n \in Unread(j)
    <3>1. PICK a \in chan[j].next..Len(chan[j].log) : chan[j].log[a] = n
      BY <2>3 DEF Unread
    <3>2. j \in DOMAIN chan
      BY <1>3
    <3>3. CASE j = k
      <4>1. a # i
        BY <2>1, <3>1, <3>3 DEF m
      <4>2. a \in i + 1..Len(chan[k].log)
        BY <1>1, <3>1, <3>2, <3>3, <4>1 DEF i
      <4> QED BY <1>3, <3>1, <3>3, <4>2 DEF Coming, Unread
    <3>4. CASE j # k
      BY <1>3, <3>1, <3>2, <3>4 DEF Coming, Unread
    <3> QED BY <3>3, <3>4
  <2>4. CASE n \notin Unread(j)
    <3>1. PICK q \in Publisher : pub[q].message = n /\ Pending(q, j)
      BY <2>2, <2>4 DEF Coming, Pending
    <3> QED BY <3>1 DEF Coming, Pending
  <2> QED BY <2>3, <2>4
<1> QED BY <1>4, <1>5, <1>7, <1>9

LEMMA PanicInv ==
  ASSUME IInv, NEW k \in DOMAIN chan, chan[k].pc \in {"top", "again"},
         chan[k].next <= Len(chan[k].log), Panic(k),
         UNCHANGED <<at, handlers, entry, pub, count, from>>
  PROVE  /\ OnePlace' /\ PlaceHasOwner' /\ OwedToHandlers' /\ PassesSound' /\ Published'
         /\ LogsInOrder' /\ CallsBeforeLog' /\ PendingIsLast' /\ HeardOnceInOrder' /\ OwedIsComing'
<1>1. chan[k].next + 1 \in Nat \ {0}
  BY ChannelFacts DEF IInv
<1>2. /\ ReadsOn(k, chan[k].next + 1, "finished") /\ due' = [m \in Message |-> {}]
  BY DEF Panic, ReadsOn
<1>3. PICK n \in 0..Len(handlers) - 1 : Call(SubSeq(handlers, 1, n), chan[k].log[chan[k].next])
  BY DEF Panic
<1>4. OnePlace' /\ PlaceHasOwner' /\ PassesSound' /\ LogsInOrder'
  BY <1>1, <1>2, ReadsOnInv
<1>5. Published' /\ HeardOnceInOrder' /\ CallsBeforeLog' /\ PendingIsLast'
  BY <1>2, <1>3, CallInv
<1>6. OwedIsComing' /\ OwedToHandlers'
  BY <1>2 DEF OwedIsComing, OwedToHandlers, IInv
<1> QED BY <1>4, <1>5, <1>6

LEMMA TryRecvInv ==
  ASSUME IInv, NEW k \in DOMAIN chan, chan[k].pc \in {"top", "again"},
         NEW step \in {"empty", "deaf"}, TryRecv(k, step)
  PROVE  /\ OnePlace' /\ PlaceHasOwner' /\ OwedToHandlers' /\ PassesSound' /\ Published'
         /\ LogsInOrder' /\ CallsBeforeLog' /\ PendingIsLast' /\ HeardOnceInOrder' /\ OwedIsComing'
<1>1. UNCHANGED <<at, handlers, entry, pub, count, from>>
  BY DEF TryRecv
<1>2. CASE Lagging(k) /\ SkipTo(k, Oldest(k))
  BY <1>1, <1>2, SkipInv
<1>3. CASE chan[k].next <= Len(chan[k].log) /\ Dispatch(k)
  <2>1. CASE CallAll(k)
    BY <1>1, <1>3, <2>1, CallAllInv
  <2>2. CASE Panic(k)
    BY <1>1, <1>3, <2>2, PanicInv
  <2> QED BY <1>3, <2>1, <2>2 DEF Dispatch
<1>4. CASE /\ chan' = [chan EXCEPT ![k] = Reads(@, @.next, step)]
           /\ UNCHANGED <<calls, due, faults>>
  <2>1. chan[k] \in ChannelType /\ chan[k].next \in Nat \ {0}
    BY ChannelFacts DEF IInv
  <2> DEFINE d == Reads(chan[k], chan[k].next, step)
  <2>2. d \in ChannelType /\ Kept(chan[k], d)
    <3>1. \A c \in ChannelType : \A i \in Nat \ {0} : LET e == Reads(c, i, step) IN
            e \in ChannelType /\ e.by = c.by /\ e.log = c.log /\ e.next = i /\ e.pc = step
      BY DEF Reads, ChannelType
    <3>2. step # "finished" /\ chan[k].pc # "finished"
      OBVIOUS
    <3> QED BY <2>1, <3>1, <3>2 DEF Kept
  <2>3. chan' = [chan EXCEPT ![k] = d]
    BY <1>4
  <2> HIDE DEF d
  <2>4. SameChannels
    BY <2>2, <2>3, OneKept DEF IInv
  <2>5. OnePlace'
    BY <1>1, <2>4, SameLive, PlaceStep DEF IInv, SameChannels
  <2>6. PlaceHasOwner' /\ OwedToHandlers'
    BY <1>1, <1>4 DEF IInv, PlaceHasOwner, OwedToHandlers
  <2> QED BY <1>1, <1>4, <2>4, <2>5, <2>6, QuietStep
<1> QED BY <1>2, <1>3, <1>4 DEF TryRecv

LEMMA ConsumeInv ==
  ASSUME IInv, NEW k \in DOMAIN chan, Consume(k)
  PROVE  /\ OnePlace' /\ PlaceHasOwner' /\ OwedToHandlers' /\ PassesSound' /\ Published'
         /\ LogsInOrder' /\ CallsBeforeLog' /\ PendingIsLast' /\ HeardOnceInOrder' /\ OwedIsComing'
<1>1. CASE Top(k)
  BY <1>1, TryRecvInv DEF Top
<1>2. CASE Again(k)
  BY <1>2, TryRecvInv DEF Again
<1>3. CASE Arm(k) \/ Poll(k)
  <2>1. chan[k] \in ChannelType /\ chan[k].notified \in {"none", "armed", "waiting", "fired"}
    BY ChannelFacts DEF IInv, ChannelType
  <2>2. PICK step \in {"poll", "again", "asleep"}, state \in {"none", "armed", "waiting", "fired"} :
          chan' = [chan EXCEPT ![k] = Waits(chan[k], step, state)]
    BY <1>3, <2>1 DEF Arm, Poll
  <2> DEFINE d == Waits(chan[k], step, state)
  <2>3. d \in ChannelType /\ Kept(chan[k], d)
    <3>1. step \in {"top", "empty", "poll", "again", "asleep", "deaf", "finished"} /\ step # "finished"
      OBVIOUS
    <3>2. chan[k].pc # "finished"
      BY <1>3 DEF Arm, Poll
    <3> QED BY <2>1, <3>1, <3>2, WaitsFacts DEF Kept
  <2>4. chan' = [chan EXCEPT ![k] = d]
    BY <2>2
  <2> HIDE DEF d
  <2>5. SameChannels
    BY <2>3, <2>4, OneKept DEF IInv
  <2>6. UNCHANGED <<at, handlers, entry, pub, count, from, calls, due>>
    BY <1>3 DEF Arm, Poll
  <2>7. OnePlace'
    BY <2>5, <2>6, SameLive, PlaceStep DEF IInv, SameChannels
  <2>8. PlaceHasOwner' /\ OwedToHandlers'
    BY <2>6 DEF IInv, PlaceHasOwner, OwedToHandlers
  <2> QED BY <2>5, <2>6, <2>7, <2>8, QuietStep
<1> QED BY <1>1, <1>2, <1>3 DEF Consume

-----------------------------------------------------------------------------
(* Theorems.                                                               *)

LEMMA InitInv ==
  ASSUME Init
  PROVE  IInv
<1>1. TypeOK
  BY InitType
<1>2. /\ chan = <<>> /\ entry = Absent /\ Absent # Starting
      /\ \A s \in Subscriber : at[s] = "new" /\ calls[s] = <<>>
      /\ \A p \in Publisher : ~Publishing(p)
      /\ \A m \in Message : due[m] = {}
  BY BusAssumption DEF Init, Publishing
<1>3. DOMAIN chan = {} /\ Live = {}
  BY <1>2 DEF Live
<1>4. OnePlace /\ PlaceHasOwner /\ OwedToHandlers /\ OwedIsComing
  BY <1>2, <1>3 DEF OnePlace, PlaceHasOwner, OwedToHandlers, OwedIsComing, Starter
<1>5. PassesSound /\ PendingIsLast /\ Published /\ LogsInOrder /\ CallsBeforeLog /\ HeardOnceInOrder
  BY <1>2, <1>3 DEF PassesSound, PendingIsLast, Published, LogsInOrder, CallsBeforeLog,
                    HeardOnceInOrder
<1> QED BY <1>1, <1>4, <1>5 DEF IInv

LEMMA StutterInv ==
  ASSUME IInv, UNCHANGED vars
  PROVE  IInv'
<1>1. SameChannels /\ UNCHANGED <<at, handlers, entry, chan, pub, count, from, calls, due, faults>>
  BY DEF vars, SameChannels, Kept
<1>2. TypeOK'
  BY <1>1 DEF IInv, TypeOK
<1>3. OnePlace'
  BY <1>1, SameLive, PlaceStep DEF IInv, SameChannels
<1>4. PlaceHasOwner' /\ OwedToHandlers'
  BY <1>1 DEF IInv, PlaceHasOwner, OwedToHandlers
<1> QED BY <1>1, <1>2, <1>3, <1>4, QuietStep DEF IInv

LEMMA NextInv ==
  ASSUME IInv, [Next]_vars
  PROVE  IInv'
<1>0. TypeOK /\ PassesSound
  BY DEF IInv
<1>1. ASSUME NEW s \in Subscriber, Subscribe(s) \/ Refuse(s) \/ Abandon(s)
      PROVE  IInv'
  BY <1>0, <1>1, SubscribeType, SubscribePlace, SubscribeRest DEF IInv
<1>2. ASSUME NEW p \in Publisher, Begin(p) \/ Publish(p)
      PROVE  IInv'
  <2>1. TypeOK'
    BY <1>0, <1>2, PublishType
  <2>2. CASE Begin(p)
    BY <2>1, <2>2, BeginInv DEF IInv
  <2>3. CASE Send(p)
    BY <2>1, <2>3, SendInv DEF IInv
  <2>4. CASE Notify(p)
    BY <2>1, <2>4, NotifyInv DEF IInv
  <2> QED BY <1>2, <2>2, <2>3, <2>4 DEF Publish
<1>3. ASSUME NEW k \in DOMAIN chan, Consume(k)
      PROVE  IInv'
  BY <1>0, <1>3, ConsumeType, ConsumeInv DEF IInv
<1>4. CASE UNCHANGED vars
  BY <1>4, StutterInv
<1> QED BY <1>1, <1>2, <1>3, <1>4 DEF Next

LEMMA Invariance == Spec => []IInv
<1>1. Init => IInv
  BY InitInv
<1>2. IInv /\ [Next]_vars => IInv'
  BY NextInv
<1> QED BY <1>1, <1>2, PTL DEF Spec

\* Every variable has its type, whoever waits for a notification sleeps, and
\* who sleeps waits for one (ecat-mq/src/lib.rs:114-118).
THEOREM TypeCorrect == Spec => []TypeOK
<1>1. IInv => TypeOK
  BY DEF IInv
<1> QED BY <1>1, Invariance, PTL

\* A handler hears no message twice, and those of one publisher in their order,
\* however many consumers came and went: there is one at a time, it is replaced
\* only when it has ended, and nobody publishes while the queue adds a channel
\* (ecat-events/src/lib.rs:76-88, ecat-mq/src/lib.rs:56-83).
THEOREM OnceInOrder == Spec => []HeardOnceInOrder
<1>1. IInv => HeardOnceInOrder
  BY DEF IInv
<1> QED BY <1>1, Invariance, PTL

\* What was published while there is a consumer is before it or on its way to it,
\* as long as a handler that had subscribed has not heard it
\* (ecat-events/src/lib.rs:67-69).
THEOREM NothingIsLost == Spec => []OwedIsComing
<1>1. IInv => OwedIsComing
  BY DEF IInv
<1> QED BY <1>1, Invariance, PTL

\* The place of a consumer being started belongs to a call that is at work, or
\* to one that was dropped (ecat-events/src/lib.rs:87-100).
THEOREM PlaceIsOwned == Spec => []PlaceHasOwner
<1>1. IInv => PlaceHasOwner
  BY DEF IInv
<1> QED BY <1>1, Invariance, PTL

\* There is one consumer at most (ecat-events/src/lib.rs:17, :71).
THEOREM OneConsumerOnly == Spec => []OneConsumerAtMost
<1>1. IInv => OneConsumerAtMost
  BY OneConsumer DEF IInv, OneConsumerAtMost
<1> QED BY <1>1, Invariance, PTL

=============================================================================
