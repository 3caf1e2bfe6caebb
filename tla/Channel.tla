------------------------------- MODULE Channel -------------------------------
(***************************************************************************)
(* The Channel component (lib/notification/channel.js): sockets start and  *)
(* stop listening to a target, and the channel subscribes to a Notification *)
(* component on their behalf, under the socket's identifier.  It composes  *)
(* Notification: Names are sockets, Callbacks the targets they may start.  *)
(*                                                                         *)
(* A 'start' that a listener of the application cancels changes nothing    *)
(* and is left out; no listener is taken to cancel a 'stop'.               *)
(* notificationStart and notificationStop are components of their own, and *)
(* only published to.                                                      *)
(***************************************************************************)
EXTENDS Notification

(* A 'connect' listener of the application knows no socket's identifier.   *)
ASSUME SocketsAssumption == ListenerCalls \subseteq {"nothing"}

VARIABLES
    socket,         \* per socket: not yet there, connected, or gone for good
    asked           \* history: the target it started last and has not stopped

chanVars == <<vars, socket, asked>>

ChannelInit ==
    /\ Init
    /\ socket = [n \in Names |-> "expected"]
    /\ asked = [n \in Names |-> None]

(* unsubscribe() has amqplib throw when the channel of a consumer is gone. *)
Throws(s) ==
    /\ connected
    /\ Usable = NoLink
    /\ s.tag # NoId
    /\ s.obj[s.tag].stage \in {"active", "lost"}

(* onStop() and onStart(), for one socket. *)
Stopped(s) == Unrequest(s, connected, Usable)

StartedOver(s, c) == Request(s, connected, Usable, c)

Started(s, c) ==
    IF Throws(s) THEN Stopped(s) ELSE Request(Stopped(s), connected, Usable, c)

OnStop(n) ==
    /\ sub' = [sub EXCEPT ![n] = Stopped(@)]
    /\ asked' = [asked EXCEPT ![n] = None]

SocketConnects(n) ==
    /\ socket[n] = "expected"
    /\ socket' = [socket EXCEPT ![n] = "connected"]
    /\ UNCHANGED <<vars, asked>>

OnStart(n, c) ==
    /\ socket[n] = "connected"
    /\ Room(sub[n])
    /\ sub' = [sub EXCEPT ![n] = Started(@, c)]
    /\ asked' = [asked EXCEPT ![n] = c]
    /\ UNCHANGED <<connVars, socket>>

Stop(n) ==
    /\ socket[n] = "connected"
    /\ OnStop(n)
    /\ UNCHANGED <<connVars, socket>>

Disconnect(n) ==
    /\ socket[n] = "connected"
    /\ socket' = [socket EXCEPT ![n] = "gone"]
    /\ OnStop(n)
    /\ UNCHANGED connVars

(* A notification comes for a socket: it is passed on, or, if the socket   *)
(* is gone, the subscription stopped.                                      *)
PassOn(n) == UNCHANGED <<sub, asked>>

Receive(n) == IF socket[n] = "gone" THEN OnStop(n) ELSE UNCHANGED <<sub, asked>>

Notified(n) ==
    /\ \E i \in Ids : sub[n].obj[i].stage = "active" /\ sub[n].obj[i].link = Usable
    /\ Receive(n)
    /\ UNCHANGED <<connVars, socket>>

(* What the notification component does by itself, and close(), which the  *)
(* channel does not hear of: the subscriptions of all sockets are over.    *)
Below ==
    \/ \E g \in Links :
          \/ Open(g)
          \/ ConnectionOpened(g) /\ UNCHANGED sub
          \/ ConnectFailed(g) /\ UNCHANGED sub
          \/ ChannelOpened(g) /\ UNCHANGED sub
          \/ Attach(g)
          \/ Lose(g)
          \/ Settle(g)
          \/ ConnectionClosed(g) /\ UNCHANGED sub
    \/ \E n \in Names : Answer(n) \/ \E i \in Ids : TimerFires(n, i)

ChannelNext ==
    \/ Below /\ UNCHANGED <<socket, asked>>
    \/ Detach /\ asked' = [n \in Names |-> None] /\ UNCHANGED socket
    \/ \E n \in Names :
          \/ SocketConnects(n)
          \/ \E c \in Callbacks : OnStart(n, c)
          \/ Stop(n)
          \/ Disconnect(n)
          \/ Notified(n)

(* The broker answers, timers run out, and notifications keep coming. *)
ChannelFairness ==
    \A n \in Names :
        /\ WF_chanVars(Answer(n) /\ UNCHANGED <<socket, asked>>)
        /\ \A i \in Ids : WF_chanVars(TimerFires(n, i) /\ UNCHANGED <<socket, asked>>)
        /\ WF_chanVars(Notified(n))

ChannelSpec == ChannelInit /\ [][ChannelNext]_chanVars /\ ChannelFairness

-----------------------------------------------------------------------------

(* While no name is excused: whoever consumes does so for a socket that is *)
(* there and for the target it started last, however late the answers are  *)
(* that brought it there; and what was started last is served as soon as   *)
(* all calls are answered and no timer runs.                               *)
Hears ==
    \A n \in Names : LET s == sub[n] IN ~s.stray /\ ~s.crossed =>
        /\ \A i \in Ids : s.obj[i].stage = "active" =>
               socket[n] = "connected" /\ s.obj[i].cb = asked[n]
        /\ Linked /\ s.calls = <<>> /\ Timers(s) = {} /\ asked[n] # None =>
               \E i \in Ids : s.obj[i].stage = "active"

(* No consumer is left behind by a socket that is gone, though a timer or  *)
(* a buffered request that unsubscribe() does not reach may still begin    *)
(* one after its 'disconnect': the next notification ends it.              *)
GoneIsLeft ==
    \A n \in Names :
        <>[](Linked /\ socket[n] = "gone" /\ ~sub[n].crossed)
        => <>[](Consuming(sub[n]) = {})

(* A socket hears in the end what it started last, however quickly it      *)
(* went from one target to another before, and nothing once it stopped.    *)
Quiet(n) == [][\A c \in Callbacks : ~OnStart(n, c)]_chanVars

StartIsServed ==
    \A n \in Names : \A c \in Callbacks \cup {None} :
        /\ <>[](/\ Linked
                /\ socket[n] = "connected"
                /\ asked[n] = c
                /\ ~sub[n].stray
                /\ ~sub[n].crossed)
        /\ <>Quiet(n)
        => <>[](\/ c = None /\ Consuming(sub[n]) = {}
                \/ \E i \in Consuming(sub[n]) : sub[n].obj[i].cb = c)
=============================================================================
