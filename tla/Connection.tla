----------------------------- MODULE Connection -----------------------------
(***************************************************************************)
(* The link between a Notification component and RabbitMQ                  *)
(* (lib/notification/notification.js): connect(), close(), connected(),    *)
(* and the attempts, losses and closing handshakes that run behind them.   *)
(*                                                                         *)
(* Every call of connect() that gets past its guard starts a link of its   *)
(* own: an amqplib connection and, once that is open, a channel.  The      *)
(* component remembers one connection and one channel, whichever arrived   *)
(* last, and a flag.  The options.owner detour (delete the exchange before *)
(* declaring it) is left out; a link takes it between two of these steps.  *)
(***************************************************************************)
EXTENDS Naturals, FiniteSets

CONSTANT MaxConnects        \* bound: calls of connect() that start a link

ASSUME MaxConnectsAssumption == MaxConnects \in Nat \ {0}

Links == 1 .. MaxConnects

NoLink == 0

(* A connection: not asked for, socket and login under way, usable, closing *)
(* handshake under way, over.                                               *)
ConnStage == {"none", "dialing", "open", "closing", "down"}

(* A channel: not asked for, being opened, declaring the exchange, usable   *)
(* and published as such, closing handshake under way, over.                *)
ChanStage == {"none", "opening", "declaring", "up", "closing", "down"}

VARIABLES
    connected,      \* that._connected
    connection,     \* that._connection, as the link it belongs to
    channel,        \* that._channel, as the link it belongs to
    conn,           \* stage of each link's amqplib connection
    chan,           \* stage of each link's amqplib channel
    closeNext       \* per closing channel: the connection close() captured

connVars == <<connected, connection, channel, conn, chan, closeNext>>

ConnTypeOK ==
    /\ connected \in BOOLEAN
    /\ connection \in Links \cup {NoLink}
    /\ channel \in Links \cup {NoLink}
    /\ conn \in [Links -> ConnStage]
    /\ chan \in [Links -> ChanStage]
    /\ closeNext \in [Links -> Links \cup {NoLink}]

ConnInit ==
    /\ connected = FALSE
    /\ connection = NoLink
    /\ channel = NoLink
    /\ conn = [g \in Links |-> "none"]
    /\ chan = [g \in Links |-> "none"]
    /\ closeNext = [g \in Links |-> NoLink]

(* Links whose connect() chain has not come to its end. *)
Attempting(g) ==
    \/ conn[g] = "dialing"
    \/ conn[g] = "open" /\ chan[g] \in {"opening", "declaring"}

(* The channel accepts calls: amqplib throws on a closing or closed one. *)
Sendable(g) == g # NoLink /\ chan[g] \in {"declaring", "up"}

-----------------------------------------------------------------------------

(* connect(): only a component that is connected ignores the call, so one  *)
(* whose attempt is still under way starts a second link.                  *)
Connect(g) ==
    /\ ~connected
    /\ conn[g] = "none"
    /\ \A h \in Links : h < g => conn[h] # "none"
    /\ conn' = [conn EXCEPT ![g] = "dialing"]
    /\ UNCHANGED <<connected, connection, channel, chan, closeNext>>

(* amqplib.connect() answers: remember the connection, ask for a channel. *)
ConnectionKeptOnly(g) ==
    /\ conn[g] = "dialing"
    /\ conn' = [conn EXCEPT ![g] = "open"]
    /\ chan' = [chan EXCEPT ![g] = "opening"]
    /\ UNCHANGED <<connected, connection, channel, closeNext>>

ConnectionOpened(g) ==
    /\ conn[g] = "dialing"
    /\ conn' = [conn EXCEPT ![g] = "open"]
    /\ connection' = g
    /\ chan' = [chan EXCEPT ![g] = "opening"]
    /\ UNCHANGED <<connected, channel, closeNext>>

(* The broker refuses or is not there.  The chain ends in no catch(): the  *)
(* rejection is dropped, nothing is emitted and nothing is tried again.    *)
ConnectFailed(g) ==
    /\ conn[g] = "dialing"
    /\ conn' = [conn EXCEPT ![g] = "down"]
    /\ UNCHANGED <<connected, connection, channel, chan, closeNext>>

(* The channel is open: remember it, prefetch(1), assertExchange(). *)
ChannelOpened(g) ==
    /\ chan[g] = "opening"
    /\ chan' = [chan EXCEPT ![g] = "declaring"]
    /\ channel' = g
    /\ UNCHANGED <<connected, connection, conn, closeNext>>

(* The exchange is there: the component calls itself connected, whatever   *)
(* happened to _channel and _connection since.                             *)
ExchangeDeclared(g) ==
    /\ chan[g] = "declaring"
    /\ chan' = [chan EXCEPT ![g] = "up"]
    /\ connected' = TRUE
    /\ UNCHANGED <<connection, channel, conn, closeNext>>

(* The broker closes a channel (a failed operation).  No field changes.    *)
ChannelLost(g) ==
    /\ chan[g] \in {"opening", "declaring", "up"}
    /\ chan' = [chan EXCEPT ![g] = "down"]
    /\ UNCHANGED <<connected, connection, channel, conn, closeNext>>

(* The socket breaks or the broker goes away: the channel goes with the    *)
(* connection.  _errorHandler at most emits 'error'; no field changes.     *)
ConnectionLost(g) ==
    /\ conn[g] \in {"open", "closing"}
    /\ conn' = [conn EXCEPT ![g] = "down"]
    /\ chan' = [chan EXCEPT ![g] = "down"]
    /\ closeNext' = [closeNext EXCEPT ![g] = NoLink]
    /\ UNCHANGED <<connected, connection, channel>>

(* close() on a usable channel: start its closing handshake, keep the      *)
(* connection for afterwards, forget everything.  Not connected, close()   *)
(* returns at once, an attempt under way or not; on a channel that is gone *)
(* it throws before it changed anything.                                   *)
Close ==
    /\ connected
    /\ Sendable(channel)
    /\ chan' = [chan EXCEPT ![channel] = "closing"]
    /\ closeNext' = [closeNext EXCEPT ![channel] = connection]
    /\ connected' = FALSE
    /\ connection' = NoLink
    /\ channel' = NoLink
    /\ UNCHANGED conn

(* The broker confirms the channel's end: close the captured connection. *)
ChannelClosed(g) ==
    /\ chan[g] = "closing"
    /\ chan' = [chan EXCEPT ![g] = "down"]
    /\ closeNext' = [closeNext EXCEPT ![g] = NoLink]
    /\ LET k == closeNext[g] IN
         conn' = IF k # NoLink /\ conn[k] = "open"
                 THEN [conn EXCEPT ![k] = "closing"]
                 ELSE conn
    /\ UNCHANGED <<connected, connection, channel>>

(* The broker confirms the connection's end: 'close' is emitted. *)
ConnectionClosed(g) ==
    /\ conn[g] = "closing"
    /\ conn' = [conn EXCEPT ![g] = "down"]
    /\ chan' = [chan EXCEPT ![g] = "down"]
    /\ UNCHANGED <<connected, connection, channel, closeNext>>

ConnNext ==
    \/ Close
    \/ \E g \in Links :
          \/ Connect(g)
          \/ ConnectionOpened(g)
          \/ ConnectFailed(g)
          \/ ChannelOpened(g)
          \/ ExchangeDeclared(g)
          \/ ChannelLost(g)
          \/ ConnectionLost(g)
          \/ ChannelClosed(g)
          \/ ConnectionClosed(g)

ConnSpec == ConnInit /\ [][ConnNext]_connVars
=============================================================================
