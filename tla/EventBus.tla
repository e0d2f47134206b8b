------------------------------- MODULE EventBus -------------------------------
(***************************************************************************)
(* The remote event bus (ecat-events) over the queue in memory (ecat-mq),  *)
(* for one type of event, on a runtime with several threads.               *)
(*                                                                         *)
(* A call of subscribe registers a handler and, unless another call has    *)
(* done so, asks the queue for a stream and starts a task, the consumer,   *)
(* which calls every handler with what arrives.  A stream is the receiving *)
(* end of a channel of its own (tokio's broadcast); publish goes through   *)
(* the channels one by one, sends the message and notifies the receiver.   *)
(*                                                                         *)
(* A sleeping consumer has registered with the notification.  It may also  *)
(* go deaf: poll_recv is pending and nothing will wake it.                 *)
(*                                                                         *)
(* The queue in memory grants every stream at once.  That it refuses, or   *)
(* that the caller gives up while it waits, are the faults of the brokers  *)
(* behind the same trait.                                                  *)
(***************************************************************************)
EXTENDS Integers, Sequences, FiniteSets, SequencesExt

CONSTANTS
  Subscriber,   \* calls of subscribe, each with a handler of its own
  Publisher,    \* tasks that publish
  Absent,       \* no entry in the map of consumers
  Starting,     \* the entry of a consumer that is being started
  Capacity,     \* messages that a channel keeps (256)
  MaxMessages,  \* bound: messages published
  MaxFaults     \* bound: refused or abandoned calls, panics of handlers

ASSUME BusAssumption ==
  /\ Absent \notin Nat /\ Starting \notin Nat /\ Absent # Starting
  /\ Capacity \in Nat \ {0} /\ MaxMessages \in Nat /\ MaxFaults \in Nat

VARIABLES
  at,        \* where each call of subscribe is
  handlers,  \* local_handlers: the handlers in their order
  entry,     \* consumers: the entry of the event
  chan,      \* the channels of the queue, each with the consumer that reads it
  pub,       \* the call of publish that each task is in
  count,     \* messages published so far; a message is its number
  from,      \* who published them
  calls,     \* the messages each handler was called with
  due,       \* the handlers that are still owed each message, see Begin
  faults

queue == <<chan, pub, count, from>>
vars == <<at, handlers, entry, chan, pub, count, from, calls, due, faults>>

Message == 1..MaxMessages

\* A call of publish: its message, the channel it is at, and whether that channel
\* has got the message and only waits for the notice.
Pass(m, k, sent) == [message |-> m, next |-> k, sent |-> sent]
Idle == Pass(0, 1, FALSE)

Init ==
  /\ at = [s \in Subscriber |-> "new"]
  /\ handlers = <<>> /\ entry = Absent /\ chan = <<>>
  /\ pub = [p \in Publisher |-> Idle]
  /\ count = 0 /\ from = <<>>
  /\ calls = [s \in Subscriber |-> <<>>]
  /\ due = [m \in Message |-> {}]
  /\ faults = 0

Fault == faults < MaxFaults /\ faults' = faults + 1

\* A channel with its receiver: who asked for it, where the consumer is, what was
\* sent, the position it reads next, and the notification it waits for.
NewChannel(s) == [by |-> s, pc |-> "top", log |-> <<>>, next |-> 1, notified |-> "none"]

Alive(k) == chan[k].pc # "finished"
Live == {k \in DOMAIN chan : Alive(k)}
Unread(k) == {chan[k].log[i] : i \in chan[k].next..Len(chan[k].log)}

-----------------------------------------------------------------------------
(* subscribe                                                               *)

\* The handler is pushed.
Register(s) ==
  /\ at[s] = "new" /\ at' = [at EXCEPT ![s] = "claim"]
  /\ handlers' = Append(handlers, s)
  /\ UNCHANGED <<entry, queue, calls, due, faults>>

\* Mutant: only a consumer that has been started counts.
Started(e) == e \in Nat /\ Alive(e)

\* Mutant: a consumer that has ended counts as well.
Known(e) == e # Absent

\* There is an entry, and not that of a task that has finished.
Running(e) == e = Starting \/ (e \in Nat /\ Alive(e))

\* Mutant: the place is taken only when the queue has answered.
Claimless(s) ==
  /\ at[s] = "claim"
  /\ at' = [at EXCEPT ![s] = IF Running(entry) THEN "done" ELSE "asking"]
  /\ UNCHANGED <<entry, handlers, queue, calls, due, faults>>

\* Under the lock: leave it to the consumer that is there, or take the place.
Claim(s) ==
  /\ at[s] = "claim"
  /\ IF Running(entry)
     THEN at' = [at EXCEPT ![s] = "done"] /\ UNCHANGED entry
     ELSE at' = [at EXCEPT ![s] = "asking"] /\ entry' = Starting
  /\ UNCHANGED <<handlers, queue, calls, due, faults>>

\* The queue adds a channel, for which nobody may be publishing, and the
\* consumer is spawned on it.
Attach(s) ==
  /\ at[s] = "asking" /\ \A p \in Publisher : pub[p] = Idle
  /\ at' = [at EXCEPT ![s] = "binding"]
  /\ chan' = Append(chan, NewChannel(s))
  /\ UNCHANGED <<handlers, entry, pub, count, from, calls, due, faults>>

\* The entry gets the handle of the task, which may have finished by now.
Bind(s) ==
  /\ at[s] = "binding" /\ at' = [at EXCEPT ![s] = "done"]
  /\ \E k \in DOMAIN chan : chan[k].by = s /\ entry' = k
  /\ UNCHANGED <<handlers, queue, calls, due, faults>>

\* Mutant: the place is kept.
Keep == UNCHANGED entry

Rollback == entry' = Absent

\* The queue refuses: the place is given up, the handler stays.
Refuse(s) ==
  /\ at[s] = "asking" /\ Fault
  /\ at' = [at EXCEPT ![s] = "failed"] /\ Rollback
  /\ UNCHANGED <<handlers, queue, calls, due>>

\* The caller drops the call while it waits for the queue.
Abandon(s) ==
  /\ at[s] = "asking" /\ Fault
  /\ at' = [at EXCEPT ![s] = "abandoned"]
  /\ UNCHANGED <<handlers, entry, queue, calls, due>>

-----------------------------------------------------------------------------
(* publish                                                                 *)

\* With the map of channels locked for reading.  The message is owed to the
\* handlers whose subscribe has returned, if there is a consumer.
Begin(p) ==
  /\ pub[p] = Idle /\ count < MaxMessages
  /\ count' = count + 1 /\ from' = Append(from, p)
  /\ pub' = IF chan = <<>> THEN pub ELSE [pub EXCEPT ![p] = Pass(count', 1, FALSE)]
  /\ due' = [due EXCEPT ![count'] = IF Live = {} THEN {} ELSE {s \in Subscriber : at[s] = "done"}]
  /\ UNCHANGED <<at, handlers, entry, chan, calls, faults>>

Publishing(p) == pub[p] # Idle

\* The call goes on to the next channel, or returns.
Onward(p) ==
  pub' = [pub EXCEPT ![p] =
            IF pub[p].next = Len(chan) THEN Idle
            ELSE Pass(pub[p].message, pub[p].next + 1, FALSE)]

\* Mutant: publish ends at a channel nobody reads.
Stop(p) == IF Alive(pub[p].next) THEN Pass(pub[p].message, pub[p].next, TRUE) ELSE Idle

\* A channel nobody reads costs a warning.
Go(p) == Pass(pub[p].message, pub[p].next, TRUE)

\* The channel with a message more.
Sent(c, m) == [c EXCEPT !.log = Append(c.log, m)]

Send(p) ==
  LET k == pub[p].next IN
  /\ Publishing(p) /\ ~pub[p].sent
  /\ chan' = IF Alive(k) THEN [chan EXCEPT ![k] = Sent(@, pub[p].message)] ELSE chan
  /\ pub' = [pub EXCEPT ![p] = Go(p)]
  /\ UNCHANGED <<at, handlers, entry, count, from, calls, due, faults>>

\* The consumer goes on at a step, with its notification in a state.
Waits(c, step, state) == [c EXCEPT !.pc = step, !.notified = state]

\* notify_waiters: whoever has a notification, and the sleeper wakes up.
Noticed(c) ==
  CASE c.notified = "armed" -> Waits(c, c.pc, "fired")
    [] c.notified = "waiting" -> Waits(c, "top", "fired")
    [] OTHER -> c

\* Mutant: who has something to read needs no notice.
NoticedIfEmpty(c) == IF Len(c.log) > c.next THEN c ELSE Noticed(c)

\* What publish does to a channel once it has sent.
Woken(c) == Noticed(c)

Notify(p) ==
  LET k == pub[p].next IN
  /\ Publishing(p) /\ pub[p].sent
  /\ chan' = [chan EXCEPT ![k] = Woken(@)]
  /\ Onward(p)
  /\ UNCHANGED <<at, handlers, entry, count, from, calls, due, faults>>

-----------------------------------------------------------------------------
(* The consumer: poll_recv, and the loop around it.                        *)

\* The consumer goes on at a step, with position i to read next.
Reads(c, i, step) == [c EXCEPT !.next = i, !.pc = step]

Lagging(k) == Len(chan[k].log) - chan[k].next >= Capacity

\* The oldest message that the channel still has.
Oldest(k) == Len(chan[k].log) - Capacity + 1

\* The receiver has fallen behind: what it missed is owed no more.
SkipTo(k, i) ==
  /\ chan' = [chan EXCEPT ![k] = Reads(@, i, "top")]
  /\ due' = [m \in Message |->
               IF \E j \in chan[k].next..Oldest(k) - 1 : chan[k].log[j] = m THEN {} ELSE due[m]]
  /\ UNCHANGED <<calls, faults>>

\* The handlers in `list' are called with the message.
Call(list, m) ==
  calls' = [s \in Subscriber |-> IF s \in ToSet(list) THEN Append(calls[s], m) ELSE calls[s]]

\* Every handler is called with the message.
CallAll(k) ==
  LET m == chan[k].log[chan[k].next] IN
  /\ chan' = [chan EXCEPT ![k] = Reads(@, @.next + 1, "top")]
  /\ Call(handlers, m)
  /\ due' = [due EXCEPT ![m] = @ \ ToSet(handlers)]
  /\ UNCHANGED faults

\* One of them panics in the task of the consumer, which ends it, and no message
\* is owed any more.
Panic(k) ==
  /\ Fault /\ chan' = [chan EXCEPT ![k] = Reads(@, @.next + 1, "finished")]
  /\ \E n \in 0..Len(handlers) - 1 : Call(SubSeq(handlers, 1, n), chan[k].log[chan[k].next])
  /\ due' = [m \in Message |-> {}]

Dispatch(k) == CallAll(k) \/ Panic(k)

\* try_recv.  Without a message the consumer goes on at `otherwise'.
TryRecv(k, otherwise) ==
  /\ \/ Lagging(k) /\ SkipTo(k, Oldest(k))
     \/ ~Lagging(k) /\ chan[k].next <= Len(chan[k].log) /\ Dispatch(k)
     \/ /\ chan[k].next > Len(chan[k].log)
        /\ chan' = [chan EXCEPT ![k] = Reads(@, @.next, otherwise)]
        /\ UNCHANGED <<calls, due, faults>>
  /\ UNCHANGED <<at, handlers, entry, pub, count, from>>

Top(k) == chan[k].pc = "top" /\ TryRecv(k, "empty")

\* The notification is created unless there is one, fired or not.
Arm(k) ==
  /\ chan[k].pc = "empty"
  /\ chan' = [chan EXCEPT ![k] =
                Waits(@, "poll", IF @.notified = "none" THEN "armed" ELSE @.notified)]
  /\ UNCHANGED <<at, handlers, entry, pub, count, from, calls, due, faults>>

\* It is polled: the consumer registers and sleeps, or looks again.
Poll(k) ==
  /\ chan[k].pc = "poll"
  /\ chan' = [chan EXCEPT ![k] =
                IF @.notified = "fired" THEN Waits(@, "again", "none")
                ELSE Waits(@, "asleep", "waiting")]
  /\ UNCHANGED <<at, handlers, entry, pub, count, from, calls, due, faults>>

\* If there is still nothing, it is pending without having registered.
Again(k) == chan[k].pc = "again" /\ TryRecv(k, "deaf")

Consume(k) == Top(k) \/ Arm(k) \/ Poll(k) \/ Again(k)
Subscribe(s) == Register(s) \/ Claim(s) \/ Attach(s) \/ Bind(s)
Publish(p) == Send(p) \/ Notify(p)

Next ==
  \/ \E s \in Subscriber : Subscribe(s) \/ Refuse(s) \/ Abandon(s)
  \/ \E p \in Publisher : Begin(p) \/ Publish(p)
  \/ \E k \in DOMAIN chan : Consume(k)

Spec == Init /\ [][Next]_vars

-----------------------------------------------------------------------------
(* Properties.                                                             *)

Places == {"new", "claim", "asking", "binding", "done", "failed", "abandoned"}

ChannelType ==
  [by : Subscriber, pc : {"top", "empty", "poll", "again", "asleep", "deaf", "finished"},
   log : Seq(Message), next : Nat \ {0}, notified : {"none", "armed", "waiting", "fired"}]

\* Types, and: who waits for a notification is asleep, who sleeps waits for one.
TypeOK ==
  /\ at \in [Subscriber -> Places] /\ handlers \in Seq(Subscriber)
  /\ chan \in Seq(ChannelType) /\ entry \in DOMAIN chan \cup {Absent, Starting}
  /\ \A k \in DOMAIN chan :
       /\ chan[k].next <= Len(chan[k].log) + 1
       /\ chan[k].notified = "waiting" <=> chan[k].pc = "asleep"
  /\ pub \in [Publisher -> [message : 0..count, next : Nat \ {0}, sent : BOOLEAN]]
  /\ count \in 0..MaxMessages /\ from \in Seq(Publisher) /\ Len(from) = count
  /\ calls \in [Subscriber -> Seq(Message)]
  /\ due \in [Message -> SUBSET Subscriber]
  /\ faults \in 0..MaxFaults

\* No handler is called twice with a message, nor with two messages of one
\* publisher in the wrong order, however often the consumer was started again.
HeardOnceInOrder ==
  \A s \in Subscriber : \A i, j \in DOMAIN calls[s] :
    i < j /\ from[calls[s][i]] = from[calls[s][j]] => calls[s][i] < calls[s][j]

\* There is one consumer at most, however many calls find the last one ended.
OneConsumerAtMost == \A i, j \in Live : i = j

\* The message is before the consumer of channel k, or on its way there.
Coming(m, k) ==
  \/ m \in Unread(k)
  \/ \E p \in Publisher :
       /\ pub[p].message = m
       /\ pub[p].next < k \/ (pub[p].next = k /\ ~pub[p].sent)

\* What is published while there is a consumer reaches every handler whose
\* subscribe had returned, unless the channel overflows or the consumer dies:
\* until then it waits for the consumer, which may however be deaf.
OwedIsComing ==
  \A m \in Message : due[m] # {} => \E k \in Live : Coming(m, k)

\* The place of a consumer that is being started is held by a call at work,
\* or was left by one that was dropped, in which case nobody gives it up.
PlaceHasOwner ==
  entry = Starting => \E s \in Subscriber : at[s] \in {"asking", "binding", "abandoned"}

\* Tasks that are ready run, and a call that has begun goes on.  Nobody has to
\* subscribe or to publish.
FairSpec ==
  /\ Spec
  /\ \A s \in Subscriber : WF_vars(Claim(s) \/ Attach(s) \/ Bind(s))
  /\ \A p \in Publisher : WF_vars(Publish(p))
  /\ \A k \in 1..Cardinality(Subscriber) : WF_vars(k \in DOMAIN chan /\ Consume(k))

Behind(k) == k \in DOMAIN chan /\ Alive(k) /\ Unread(k) # {}

Told(k) == \E p \in Publisher : Publishing(p) /\ pub[p].next = k /\ pub[p].sent

\* A consumer that sleeps registered, as long as its next message comes, gets
\* what was sent to it meanwhile, also what an earlier notice came too soon for.
SleeperHears ==
  \A k \in 1..Cardinality(Subscriber) :
    (Behind(k) /\ chan[k].pc = "asleep" /\ Told(k)) ~> ~Behind(k)

\* When a consumer has ended, the next subscribe starts another, whoever else
\* subscribes at that moment, unless a call that was dropped holds the place.
SubscribeRestarts ==
  \A s \in Subscriber :
    (at[s] = "claim" /\ faults = MaxFaults /\ entry # Starting) ~> Live # {}

=============================================================================
