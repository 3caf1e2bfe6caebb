---------------------------- MODULE Notification ----------------------------
(***************************************************************************)
(* Named subscriptions of a Notification component                         *)
(* (lib/notification/notification.js): subscribe(), unsubscribe(), the     *)
(* buffer that serves while there is no link, and the chain of calls to    *)
(* the broker that a subscription goes through, on top of Connection.      *)
(*                                                                         *)
(* A subscription is an object that the chain's continuations, a timer and *)
(* the table _tags may all refer to, each without looking whether the      *)
(* others still do.  Objects are drawn from a pool, per name; names do not *)
(* share anything but the link, so everything known about one name is one  *)
(* record, and the handlers are functions from such a record to the next.  *)
(*                                                                         *)
(* amqplib sends the calls of a channel one at a time and answers them in  *)
(* order; an answer and the code that runs on it are one step.  The order  *)
(* between the calls of different names is left open.                      *)
(***************************************************************************)
EXTENDS Connection, Sequences, SequencesExt

CONSTANTS
    Names,          \* names passed to subscribe()
    Callbacks,      \* callbacks (with their routing key) passed to subscribe()
    Ids,            \* bound: subscription objects alive at once, per name
    None,           \* no callback
    NoId,           \* no subscription object
    Distributed,    \* options.distributed: the queues are shared, not exclusive
    ListenerCalls   \* what a 'connect' listener of the application may do

ASSUME NoneAssumption == None \notin Callbacks
ASSUME IdsAssumption == IsFiniteSet(Ids) /\ NoId \notin Ids
ASSUME DistributedAssumption == Distributed \in BOOLEAN
ASSUME ListenerAssumption ==
    /\ "nothing" \notin Callbacks
    /\ "unsubscribe" \notin Callbacks
    /\ ListenerCalls \subseteq Callbacks \cup {"unsubscribe", "nothing"}

(* Where a subscription object stands.  "assert", "bind", "consume": that  *)
(* call of the chain is outstanding.  "moved": so is consume(), but on a   *)
(* later link than the one that declared the queue.  "active": consuming,  *)
(* tag known.  "cancelling": basic.cancel is outstanding.  "lost": tag     *)
(* known, channel gone.  "idle": none of these.                            *)
Chain == {"assert", "bind", "consume"}

Outstanding == Chain \cup {"moved", "cancelling"}

Stage == Outstanding \cup {"active", "lost", "idle"}

Object == [stage : Stage,
           link : Links \cup {NoLink},          \* where that stage plays
           cancel : BOOLEAN,                    \* subscription.cancel
           timer : Callbacks \cup {None},       \* subscribeTimer's callback
           cb : Callbacks \cup {None}]          \* the chain's callback

NameState == [buffered : Callbacks \cup {None}, \* _buffer.subscriptions[name]
              tag : Ids \cup {NoId},            \* _tags[name]
              obj : [Ids -> Object],
              calls : Seq(Ids),                 \* outstanding on _channel
              want : Callbacks \cup {None},     \* history, see below
              stray : BOOLEAN,
              crossed : BOOLEAN]

VARIABLE sub            \* one NameState per name

vars == <<connVars, sub>>

TypeOK == ConnTypeOK /\ sub \in [Names -> NameState]

NoObject == [stage |-> "idle", link |-> NoLink, cancel |-> FALSE,
             timer |-> None, cb |-> None]

(* history: want is the callback the application asked for last and has    *)
(* not withdrawn; stray says that it withdrew one while a timer or a       *)
(* buffered request it could not reach was still going to subscribe;       *)
(* crossed says that calls of a closed link were rejected while a later    *)
(* link was in use.                                                        *)
NoTable ==
    [buffered |-> None, tag |-> None, obj |-> [i \in Ids |-> NoObject],
     calls |-> <<>>, want |-> None, stray |-> FALSE, crossed |-> FALSE]

NoSubscription ==
    [buffered |-> None, tag |-> NoId, obj |-> [i \in Ids |-> NoObject],
     calls |-> <<>>, want |-> None, stray |-> FALSE, crossed |-> FALSE]

-----------------------------------------------------------------------------
(* What the handlers do to one name.  g is the link in use, NoLink if the  *)
(* channel is missing or closed.                                           *)

Set(s, i, o) == [s EXCEPT !.obj = [s.obj EXCEPT ![i] = o]]

Spare(s) ==
    {i \in Ids : s.obj[i].stage = "idle" /\ s.obj[i].timer = None /\ s.tag # i}

Timers(s) == {i \in Ids : s.obj[i].timer # None}

(* Somebody other than the object in _tags is going to subscribe. *)
Leftover(s) ==
    s.buffered # None \/ \E i \in Timers(s) : i # s.tag

(* The chain's objects in _tags: subscribe() over a subscription that is   *)
(* being cancelled waits 500 ms, over any other it is ignored.             *)
NoWait(s, c) == s

Wait(s, c) ==
    IF s.obj[s.tag].cancel
    THEN Set(s, s.tag, [s.obj[s.tag] EXCEPT !.timer = c])
    ELSE s

(* subscribe(name, ..., c) while connected.  Without an entry a new object *)
(* enters _tags and its chain begins; if the channel is closed,            *)
(* assertQueue() throws and the object stays.                              *)
Subscribe(s, g, c) ==
    IF s.tag # NoId THEN Wait(s, c)
    ELSE LET i == CHOOSE j \in Spare(s) : TRUE
             o == [NoObject EXCEPT !.cb = c]
         IN IF g = NoLink
            THEN [Set(s, i, o) EXCEPT !.tag = i]
            ELSE [Set(s, i, [o EXCEPT !.stage = "assert", !.link = g])
                    EXCEPT !.tag = i, !.calls = Append(s.calls, i)]

(* subscribe() called by the application; con is that._connected. *)
Request(s, con, g, c) ==
    IF ~con
    THEN [s EXCEPT !.buffered = c, !.want = c]
    ELSE [Subscribe(s, g, c) EXCEPT
            !.want = IF s.tag # NoId /\ ~s.obj[s.tag].cancel THEN s.want ELSE c]

(* unsubscribe() before the chain is through leaves a mark for its end. *)
DropEntry(s) == [s EXCEPT !.tag = NoId]

StopTimerOnly(s) == Set(s, s.tag, [s.obj[s.tag] EXCEPT !.timer = None])

CancelLater(s) ==
    Set(s, s.tag, [s.obj[s.tag] EXCEPT !.timer = None, !.cancel = TRUE])

(* unsubscribe(name) while connected; _channel.cancel() throws, and leaves *)
(* the entry, if the channel is closed.                                    *)
Withdraw(s, g) ==
    IF s.tag = NoId THEN s
    ELSE IF s.obj[s.tag].stage \notin {"active", "lost"} THEN CancelLater(s)
    ELSE IF g = NoLink THEN s
    ELSE [Set(s, s.tag, [s.obj[s.tag] EXCEPT !.stage = "cancelling"])
            EXCEPT !.tag = NoId, !.calls = Append(s.calls, s.tag)]

(* unsubscribe() called by the application. *)
Unrequest(s, con, g) ==
    LET t == IF con THEN Withdraw(s, g) ELSE [s EXCEPT !.buffered = None]
    IN [t EXCEPT !.want = None, !.stray = s.stray \/ Leftover(t)]

(* Object i takes its next stage, and q are the calls then outstanding. *)
Step(s, i, stage, q) ==
    [Set(s, i, [s.obj[i] EXCEPT !.stage = stage]) EXCEPT !.calls = q]

(* consume() is answered.  If the subscription was cancelled meanwhile it  *)
(* is cancelled with the broker, and the entry of _tags deleted, whoever's *)
(* that is.                                                                *)
ConsumeAnyway(s, i, rest) == [Step(s, i, "active", rest) EXCEPT !.tag = NoId]

KeepEntry(s, i, rest) ==
    IF s.obj[i].cancel THEN Step(s, i, "cancelling", Append(rest, i))
                       ELSE Step(s, i, "active", rest)

Consumed(s, i, rest) ==
    IF s.obj[i].cancel
    THEN [Step(s, i, "cancelling", Append(rest, i)) EXCEPT !.tag = NoId]
    ELSE Step(s, i, "active", rest)

(* The broker answers the oldest call, and the chain goes on. *)
Reply(s) ==
    LET i == Head(s.calls)
        rest == Tail(s.calls)
    IN CASE s.obj[i].stage = "assert" -> Step(s, i, "bind", Append(rest, i))
         [] s.obj[i].stage = "bind" -> Step(s, i, "consume", Append(rest, i))
         [] s.obj[i].stage = "cancelling" -> Step(s, i, "idle", rest)
         [] OTHER -> Consumed(s, i, rest)

(* Link g is over: every call outstanding on it is rejected and its        *)
(* consumers are gone.  After a rejected assertQueue() or consume() a      *)
(* cancelled subscription clears its timer and _tags[name], whoever is     *)
(* there.  After a rejected bindQueue() the chain goes on to consume() on  *)
(* the channel in use, h, or throws if there is none.                      *)
Reject(s, g, h) ==
    LET here == {i \in Ids : s.obj[i].link = g}
        out == {i \in here : s.obj[i].stage \in Outstanding}
        caught == {i \in out : s.obj[i].stage \notin {"bind", "cancelling"}
                               /\ s.obj[i].cancel}
        moving == IF h = NoLink THEN {}
                  ELSE {i \in out : s.obj[i].stage = "bind"}
        after(i) ==
            LET o == s.obj[i] IN
            IF i \notin here THEN o
            ELSE IF i \in moving THEN [o EXCEPT !.stage = "moved", !.link = h]
            ELSE IF i \in caught
                 THEN [o EXCEPT !.stage = "idle", !.timer = None]
            ELSE IF o.stage \in {"active", "lost"} /\ s.tag = i
                 THEN [o EXCEPT !.stage = "lost"]
            ELSE [o EXCEPT !.stage = "idle"]
    IN [s EXCEPT !.obj = [i \in Ids |-> after(i)],
                 !.tag = IF caught # {} THEN NoId ELSE s.tag,
                 !.calls = (IF h = NoLink THEN <<>> ELSE s.calls)
                           \o SetToSeq(moving),
                 !.crossed = s.crossed \/ (h # NoLink /\ out # {})]

(* close(): the table and the buffer are forgotten, timers are not; calls  *)
(* that are outstanding wait for the end of the closing handshake.         *)
Forget(s) ==
    [s EXCEPT !.obj = [i \in Ids |->
                         IF s.obj[i].stage \in {"active", "lost", "cancelling"}
                         THEN [s.obj[i] EXCEPT !.stage = "idle"]
                         ELSE s.obj[i]],
              !.tag = NoId,
              !.buffered = None,
              !.calls = <<>>,
              !.want = None,
              !.stray = s.stray \/ Timers(s) # {}]

(* The timer of object i runs out: subscribe() again with its callback. *)
Expire(s, i, con, g) ==
    LET c == s.obj[i].timer
        t == Set(s, i, [s.obj[i] EXCEPT !.timer = None])
    IN IF con THEN Subscribe(t, g, c) ELSE [t EXCEPT !.buffered = c]

(* _applyBuffer() for one name. *)
ApplyBuffer(s, g) ==
    IF s.buffered = None THEN s
    ELSE [Subscribe(s, g, s.buffered) EXCEPT !.buffered = None]

-----------------------------------------------------------------------------

Usable == IF Sendable(channel) THEN channel ELSE NoLink

Room(s) == Spare(s) # {}

Init == ConnInit /\ sub = [n \in Names |-> NoSubscription]

(* The application leaves a connect() that is under way alone. *)
Open(g) ==
    /\ \A h \in Links : ~Attempting(h)
    /\ Connect(g)
    /\ UNCHANGED sub

(* What a 'connect' listener of the application may do about a name. *)
Listen(s, g, e) ==
    CASE e = "unsubscribe" -> Unrequest(s, TRUE, g)
      [] e \in Callbacks -> Request(s, TRUE, g, e)
      [] OTHER -> s

(* The component becomes connected, tells its listeners, and only then     *)
(* subscribes to what was asked for in the meantime.                       *)
Attach(g) ==
    /\ ExchangeDeclared(g)
    /\ \A n \in Names : Room(sub[n])
    /\ \E e \in [Names -> ListenerCalls] :
          sub' = [n \in Names |-> ApplyBuffer(Listen(sub[n], g, e[n]), g)]

(* The channel or the connection breaks, at any time. *)
Lose(g) ==
    /\ ChannelLost(g) \/ ConnectionLost(g)
    /\ LET h == IF channel = g THEN NoLink ELSE Usable IN
         sub' = [n \in Names |-> Reject(sub[n], g, h)]

Detach ==
    /\ Close
    /\ sub' = [n \in Names |-> Forget(sub[n])]

(* The closing handshake of a channel ends. *)
Settle(g) ==
    /\ ChannelClosed(g)
    /\ sub' = [n \in Names |-> Reject(sub[n], g, Usable)]

Ask(n, c) ==
    /\ Room(sub[n])
    /\ sub' = [sub EXCEPT ![n] = Request(@, connected, Usable, c)]
    /\ UNCHANGED connVars

Unsubscribe(n) ==
    /\ sub' = [sub EXCEPT ![n] = Unrequest(@, connected, Usable)]
    /\ UNCHANGED connVars

(* The broker answers.  A consume() that moved to another link than the    *)
(* one that declared an exclusive queue is not answered: the broker closes *)
(* the channel over it, which is a Lose.                                   *)
Answer(n) ==
    /\ channel # NoLink
    /\ chan[channel] = "up"
    /\ sub[n].calls # <<>>
    /\ sub[n].obj[Head(sub[n].calls)].stage = "moved" => Distributed
    /\ sub' = [sub EXCEPT ![n] = Reply(@)]
    /\ UNCHANGED connVars

TimerFires(n, i) ==
    /\ i \in Timers(sub[n])
    /\ Room(sub[n])
    /\ sub' = [sub EXCEPT ![n] = Expire(@, i, connected, Usable)]
    /\ UNCHANGED connVars

Next ==
    \/ Detach
    \/ \E g \in Links :
          \/ Open(g)
          \/ ConnectionOpened(g) /\ UNCHANGED sub
          \/ ConnectFailed(g) /\ UNCHANGED sub
          \/ ChannelOpened(g) /\ UNCHANGED sub
          \/ Attach(g)
          \/ Lose(g)
          \/ Settle(g)
          \/ ConnectionClosed(g) /\ UNCHANGED sub
    \/ \E n \in Names :
          \/ \E c \in Callbacks : Ask(n, c)
          \/ Unsubscribe(n)
          \/ Answer(n)
          \/ \E i \in Ids : TimerFires(n, i)

Spec == Init /\ [][Next]_vars

-----------------------------------------------------------------------------
(* Properties.                                                             *)

Consuming(s) == {i \in Ids : s.obj[i].stage \in {"active", "cancelling"}}

Linked == connected /\ Usable # NoLink

(* Never two consumers for one name, so no notification is handled twice:  *)
(* a subscription that is being cancelled is out of the way before its     *)
(* successor starts consuming, because both go through the same channel.   *)
OneConsumer ==
    \A n \in Names : ~sub[n].crossed =>
        \A i, j \in Consuming(sub[n]) : i = j

(* A consumer is cancelled or is the entry of _tags, where unsubscribe()   *)
(* finds it; none outlives its entry.                                      *)
ConsumerIsReachable ==
    \A n \in Names : ~sub[n].crossed =>
        \A i \in Ids : sub[n].obj[i].stage = "active" => sub[n].tag = i

(* The entry of _tags is never an object nothing is going to complete: it  *)
(* is consuming or its chain is under way, while the link is up.           *)
NoDeadEntry ==
    Linked => \A n \in Names : ~sub[n].crossed /\ sub[n].tag # NoId =>
        sub[n].obj[sub[n].tag].stage \in Chain \cup {"active"}

(* The component does what a Roster promises: only what is wanted starts   *)
(* to consume, one after another, and what is withdrawn consumes no more.  *)
(* A timer or buffered request that unsubscribe() could not reach, or a    *)
(* rejected call of another link, excuses a name for good.                 *)
Serving(s) ==
    LET active == {i \in Ids : s.obj[i].stage = "active"}
    IN IF active = {} THEN None ELSE s.obj[CHOOSE i \in active : TRUE].cb

Promise == INSTANCE Roster WITH
    want <- [n \in Names |-> sub[n].want],
    serving <- [n \in Names |-> Serving(sub[n])],
    excused <- [n \in Names |-> sub[n].stray \/ sub[n].crossed]

ImplementsRoster == Promise!Spec

(* Once all calls are answered and no timer runs, what consumes is what    *)
(* the application asked for last, and nothing if it withdrew that.        *)
Agreement ==
    \A n \in Names :
        LET s == sub[n] IN
        /\ Linked
        /\ s.calls = <<>>
        /\ Timers(s) = {}
        /\ ~s.stray
        /\ ~s.crossed
        => IF s.want = None
           THEN s.tag = NoId /\ Consuming(s) = {}
           ELSE s.tag \in Consuming(s) /\ s.obj[s.tag].cb = s.want

(* With connect() left alone while it is under way, close() closes the     *)
(* connection that its channel belongs to, and no link stays in use behind *)
(* the component's back.                                                   *)
OneLink ==
    /\ connected => channel # NoLink /\ connection = channel
    /\ \A g \in Links : chan[g] = "up" => connected /\ channel = g

(* test/notification/notification.js:247, "#unsubscribe should disconnect  *)
(* callback from the rabbitMQ queue": after unsubscribe(), and with every  *)
(* outstanding call answered, nothing consumes.                            *)
UnsubscribeIsFinal ==
    \A n \in Names :
        Linked /\ sub[n].want = None /\ sub[n].calls = <<>> => Consuming(sub[n]) = {}
=============================================================================
