------------------------------ MODULE Delivery ------------------------------
(***************************************************************************)
(* What a Notification component does with the notifications themselves    *)
(* (lib/notification/notification.js): publish() and the buffer for        *)
(* publications, the callback of a consumer and the ack function it is     *)
(* given, over the links of Connection.                                    *)
(*                                                                         *)
(* One component publishes to, and works on, one queue that it shares with *)
(* other workers (options.distributed), so that the queue outlives its     *)
(* links.  Of the subscription, only that it consumes on a link is kept:   *)
(* Notification has the rest.  A link carries what was written to it in    *)
(* order; what the broker has not read when it breaks is lost.             *)
(***************************************************************************)
EXTENDS Connection, Sequences, SequencesExt

CONSTANTS
    MaxMessages,    \* bound: notifications published
    AckMode         \* the callback takes an ack function

ASSUME MaxMessagesAssumption == MaxMessages \in Nat \ {0}
ASSUME AckModeAssumption == AckMode \in BOOLEAN

(* Notifications are numbered in the order publish() is called. *)
Messages == 1 .. MaxMessages

Tags == Nat \ {0}

Delivery == [msg : Messages, tag : Tags, link : Links]

Command == [do : {"publish"}, msg : Messages] \cup [do : {"ack"}, tag : Tags]

VARIABLES
    published,  \* calls of publish() so far
    outbox,     \* _buffer.publications
    pipe,       \* per link: written to its channel, not read by the broker
    queue,      \* the broker's queue: notifications ready for delivery
    consuming,  \* links with a consumer of the component
    tags,       \* per link: deliveries so far, the broker's delivery tags
    unacked,    \* deliveries the broker wants an acknowledgment for
    hand,       \* deliveries the application has not answered
    settled,    \* history: notifications the broker has done with
    acked,      \* history: notifications some worker acknowledged
    rejected,   \* history: deliveries the application rejected
    early,      \* history: notifications published by a 'connect' listener
    mixed       \* history: something was acknowledged on another link

deliveryVars == <<published, outbox, pipe, queue, consuming, tags, unacked,
                  hand, settled, acked, rejected, early, mixed>>

vars == <<connVars, deliveryVars>>

TypeOK ==
    /\ ConnTypeOK
    /\ published \in 0 .. MaxMessages
    /\ outbox \in Seq(Messages)
    /\ pipe \in [Links -> Seq(Command)]
    /\ queue \in Seq(Messages)
    /\ consuming \subseteq Links
    /\ tags \in [Links -> Nat]
    /\ unacked \subseteq Delivery
    /\ hand \subseteq Delivery
    /\ settled \subseteq Messages
    /\ acked \subseteq Messages
    /\ rejected \subseteq Delivery
    /\ early \subseteq Messages
    /\ mixed \in BOOLEAN

Init ==
    /\ ConnInit
    /\ published = 0
    /\ outbox = <<>>
    /\ pipe = [g \in Links |-> <<>>]
    /\ queue = <<>>
    /\ consuming = {}
    /\ tags = [g \in Links |-> 0]
    /\ unacked = {}
    /\ hand = {}
    /\ settled = {}
    /\ acked = {}
    /\ rejected = {}
    /\ early = {}
    /\ mixed = FALSE

Usable == IF Sendable(channel) THEN channel ELSE NoLink

-----------------------------------------------------------------------------

Pub(m) == [do |-> "publish", msg |-> m]

(* publish(): buffered while not connected; on a channel that is gone the  *)
(* exception is caught and emitted as 'error', and the notification lost.  *)
Publish ==
    /\ published < MaxMessages
    /\ published' = published + 1
    /\ outbox' = IF connected THEN outbox ELSE Append(outbox, published')
    /\ pipe' = IF connected /\ Usable # NoLink
               THEN [pipe EXCEPT ![Usable] = Append(@, Pub(published'))]
               ELSE pipe
    /\ UNCHANGED <<connVars, queue, consuming, tags, unacked, hand, settled, acked,
                   rejected, early, mixed>>

(* The buffered publications in the order they were asked for. *)
FlushBackwards(s) == [i \in 1 .. Len(s) |-> Pub(s[Len(s) + 1 - i])]

Flush(s) == [i \in 1 .. Len(s) |-> Pub(s[i])]

(* The component becomes connected.  Its 'connect' listeners come before   *)
(* the buffer, and may publish.                                            *)
Attach(g) ==
    /\ ExchangeDeclared(g)
    /\ \E k \in 0 .. 1 :
          /\ published + k <= MaxMessages
          /\ published' = published + k
          /\ early' = early \cup (published + 1 .. published')
          /\ pipe' = [pipe EXCEPT ![g] = @ \o [i \in 1 .. k |-> Pub(published + i)]
                                           \o Flush(outbox)]
    /\ outbox' = <<>>
    /\ UNCHANGED <<queue, consuming, tags, unacked, hand, settled, acked, rejected, mixed>>

(* subscribe(), to its end. *)
Consume ==
    /\ connected
    /\ Usable # NoLink
    /\ Usable \notin consuming
    /\ consuming' = consuming \cup {Usable}
    /\ UNCHANGED <<connVars, published, outbox, pipe, queue, tags, unacked, hand,
                   settled, acked, rejected, early, mixed>>

(* What the channel is told about acknowledgments: how many deliveries may *)
(* be waiting for one, and whether the broker waits at all.                *)
Prefetch == 1

Always == TRUE

NoAck == ~AckMode

(* The broker hands the next notification to the consumer on g, and the    *)
(* callback is called with it.                                             *)
Deliver(g) ==
    /\ chan[g] = "up"
    /\ g \in consuming
    /\ queue # <<>>
    /\ Cardinality({d \in unacked : d.link = g}) < Prefetch
    /\ LET d == [msg |-> Head(queue), tag |-> tags[g] + 1, link |-> g] IN
       /\ tags' = [tags EXCEPT ![g] = @ + 1]
       /\ queue' = Tail(queue)
       /\ unacked' = IF NoAck THEN unacked ELSE unacked \cup {d}
       /\ settled' = IF NoAck THEN settled \cup {d.msg} ELSE settled
       /\ hand' = IF AckMode THEN hand \cup {d} ELSE hand
    /\ UNCHANGED <<connVars, published, outbox, pipe, consuming, acked, rejected, early, mixed>>

(* The callback's ack(): whatever link the delivery came from, its tag is  *)
(* written to the channel in use.  Without one the call throws.            *)
AckAll(d) == [do |-> "ack", tag |-> 0]

AckTag(d) == [do |-> "ack", tag |-> d.tag]

AckNothing(d) ==
    /\ d \in hand
    /\ hand' = hand \ {d}
    /\ acked' = acked \cup {d.msg}
    /\ mixed' = (mixed \/ d.link # channel)
    /\ UNCHANGED <<connVars, published, outbox, pipe, queue, consuming, tags, unacked,
                   settled, rejected, early>>

Ack(d) ==
    /\ d \in hand
    /\ hand' = hand \ {d}
    /\ acked' = acked \cup {d.msg}
    /\ mixed' = (mixed \/ d.link # channel)
    /\ pipe' = IF Usable = NoLink THEN pipe
               ELSE [pipe EXCEPT ![Usable] = Append(@, AckTag(d))]
    /\ UNCHANGED <<connVars, published, outbox, queue, consuming, tags, unacked,
                   settled, rejected, early>>

(* The callback's ack(reject): _channel.reject() is called without the     *)
(* message and throws before it writes anything.                           *)
Reject(d) ==
    /\ d \in hand
    /\ hand' = hand \ {d}
    /\ rejected' = rejected \cup {d}
    /\ UNCHANGED <<connVars, published, outbox, pipe, queue, consuming, tags, unacked,
                   settled, acked, early, mixed>>

(* A channel ends: what was delivered on it and not acknowledged, one by   *)
(* Prefetch, goes back to the queue.                                       *)
Requeue(g) ==
    LET back == {d \in unacked : d.link = g}
    IN /\ unacked' = unacked \ back
       /\ queue' = SetToSeq({d.msg : d \in back}) \o queue
       /\ consuming' = consuming \ {g}
       /\ pipe' = [pipe EXCEPT ![g] = <<>>]

(* The broker reads what was written first to link g.  A tag it does not   *)
(* wait for makes it close the channel, unless that is closing already.    *)
Arrive(g) ==
    /\ chan[g] \in {"up", "closing"}
    /\ pipe[g] # <<>>
    /\ LET c == Head(pipe[g])
           meant == {d \in unacked : d.link = g /\ c.do = "ack" /\ d.tag = c.tag}
           unknown == c.do = "ack" /\ meant = {} /\ chan[g] = "up"
       IN IF unknown
          THEN ChannelLost(g) /\ Requeue(g) /\ UNCHANGED settled
          ELSE /\ queue' = IF c.do = "publish" THEN Append(queue, c.msg) ELSE queue
               /\ settled' = settled \cup {d.msg : d \in meant}
               /\ unacked' = unacked \ meant
               /\ pipe' = [pipe EXCEPT ![g] = Tail(@)]
               /\ UNCHANGED <<connVars, consuming>>
    /\ UNCHANGED <<published, outbox, tags, hand, acked, rejected, early, mixed>>

(* Another worker takes the next notification, and acknowledges it. *)
Elsewhere ==
    /\ queue # <<>>
    /\ queue' = Tail(queue)
    /\ settled' = settled \cup {Head(queue)}
    /\ acked' = acked \cup {Head(queue)}
    /\ UNCHANGED <<connVars, published, outbox, pipe, consuming, tags, unacked, hand,
                   rejected, early, mixed>>

(* The channel or the connection breaks; so does the channel when the      *)
(* callback throws, as it does for content that is not JSON.               *)
Lose(g) ==
    /\ ChannelLost(g) \/ ConnectionLost(g)
    /\ Requeue(g)
    /\ UNCHANGED <<published, outbox, tags, hand, settled, acked, rejected, early, mixed>>

Detach ==
    /\ Close
    /\ outbox' = <<>>
    /\ UNCHANGED <<published, pipe, queue, consuming, tags, unacked, hand, settled,
                   acked, rejected, early, mixed>>

(* The broker gets to the end of the channel after all that was written. *)
Settle(g) ==
    /\ pipe[g] = <<>>
    /\ ChannelClosed(g)
    /\ Requeue(g)
    /\ UNCHANGED <<published, outbox, tags, hand, settled, acked, rejected, early, mixed>>

Open(g) ==
    /\ \A h \in Links : ~Attempting(h)
    /\ Connect(g)

Next ==
    \/ Publish
    \/ Consume
    \/ Elsewhere
    \/ Detach
    \/ \E g \in Links :
          \/ (Open(g) \/ ConnectionOpened(g) \/ ConnectFailed(g) \/ ChannelOpened(g)
                \/ ConnectionClosed(g)) /\ UNCHANGED deliveryVars
          \/ Attach(g)
          \/ Deliver(g)
          \/ Arrive(g)
          \/ Lose(g)
          \/ Settle(g)
    \/ \E d \in hand : Ack(d) \/ Reject(d)

(* The broker reads and delivers, and the application answers what it is   *)
(* given on the link in use.                                               *)
Fairness ==
    /\ \A g \in Links : WF_vars(Arrive(g)) /\ WF_vars(Deliver(g))
    /\ WF_vars(\E d \in hand : d.link = channel /\ Ack(d))

Spec == Init /\ [][Next]_vars

FairSpec == Spec /\ Fairness

-----------------------------------------------------------------------------

(* Where a notification is: in the buffer, written to a link, in the       *)
(* queue, at a worker, or on its way to the queue.                         *)
Out(m) == Contains(outbox, m)

Piped(g, m) == Contains(pipe[g], Pub(m))

Queued(m) == Contains(queue, m)

Given(m) == \E d \in unacked : d.msg = m

Sent(m) == Out(m) \/ \E g \in Links : Piped(g, m)

(* What was published reaches a WorkQueue, and is given and settled as one *)
(* promises: the broker is done with nothing that nobody acknowledged, and *)
(* a worker has one notification at a time, however the links come and go  *)
(* - as long as deliveries are acknowledged, on the link they came on.     *)
Stage(m) ==
    CASE m > published -> "new"
      [] m \in settled -> "done"
      [] Queued(m) -> "ready"
      [] Given(m) -> "given"
      [] Sent(m) -> "sent"
      [] OTHER -> "lost"

Holder(m) ==
    IF Stage(m) # "given" THEN NoLink
    ELSE (CHOOSE d \in unacked : d.msg = m).link

Promise == INSTANCE WorkQueue WITH
    Workers <- Links,
    Nobody <- NoLink,
    stage <- [m \in Messages |-> Stage(m)],
    holder <- [m \in Messages |-> Holder(m)],
    excused <- mixed \/ ~AckMode

ImplementsWorkQueue == Promise!Spec

(* Publications leave in the order of the calls, buffered or not, but for  *)
(* those a 'connect' listener slips in before the buffer.                  *)
Ordinary(c) == c.do = "publish" /\ c.msg \notin early

InOrder ==
    \A g \in Links :
        LET all == pipe[g] \o (IF g = channel THEN [i \in DOMAIN outbox |-> Pub(outbox[i])]
                                             ELSE <<>>)
        IN \A i, j \in DOMAIN all :
              i < j /\ Ordinary(all[i]) /\ Ordinary(all[j]) => all[i].msg < all[j].msg

(* A worker that stays linked and answers gets the whole queue done, or it *)
(* is stuck behind a notification that it rejected.                        *)
Serving == connected /\ Usable # NoLink /\ Usable \in consuming

Idle ==
    /\ queue = <<>>
    /\ channel # NoLink
    /\ pipe[channel] = <<>>
    /\ \A d \in unacked : d.link # channel

Stuck == \E d \in rejected \cap unacked : d.link = channel

Progress == <>[]Serving => <>[](Idle \/ Stuck)
=============================================================================
