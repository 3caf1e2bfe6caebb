-------------------------- MODULE NotificationProofs --------------------------
(***************************************************************************)
(* Type correctness of Notification, why a name never has two consumers,   *)
(* and none that unsubscribe() cannot find, and why what is served is what *)
(* is wanted, for every value of its constants; and that a Channel over it *)
(* lets its sockets hear what they asked for.                              *)
(*                                                                         *)
(* None of these is inductive.  What makes them true is an order: the      *)
(* calls of a channel are answered first to last, and the only object      *)
(* whose chain is under way on the channel in use is the entry of _tags,   *)
(* with its call last in line.  So when that chain ends, every cancel that *)
(* was asked for before it has been answered.                              *)
(***************************************************************************)
EXTENDS Channel, FiniteSetTheorems, SequenceTheorems, TLAPS

-----------------------------------------------------------------------------
(* Types. *)

(* Replacing one object keeps a name's state well formed. *)
LEMMA SetType ==
    ASSUME NEW s \in NameState, NEW i \in Ids, NEW o \in Object
    PROVE  Set(s, i, o) \in NameState
BY DEF Set, NameState

LEMMA WaitType ==
    ASSUME NEW s \in NameState, NEW c \in Callbacks, s.tag # NoId
    PROVE  Wait(s, c) \in NameState
<1>1. s.tag \in Ids
  BY DEF NameState
<1>2. s.obj[s.tag] \in Object
  BY <1>1 DEF NameState
<1>3. [s.obj[s.tag] EXCEPT !.timer = c] \in Object
  BY <1>2 DEF Object
<1>. QED
  BY <1>1, <1>3, SetType DEF Wait

LEMMA NoObjectType == NoObject \in Object
BY DEF NoObject, Object, Stage

LEMMA SubscribeType ==
    ASSUME NEW s \in NameState, NEW g \in Links \cup {NoLink}, NEW c \in Callbacks,
           Room(s) \/ s.tag # NoId
    PROVE  Subscribe(s, g, c) \in NameState
<1>1. CASE s.tag # NoId
  BY <1>1, WaitType DEF Subscribe
<1>2. CASE s.tag = NoId
  <2>. DEFINE i == CHOOSE j \in Spare(s) : TRUE
              o == [NoObject EXCEPT !.cb = c]
              p == [o EXCEPT !.stage = "assert", !.link = g]
  <2>1. i \in Ids
    BY <1>2 DEF Room, Spare
  <2>2. o \in Object /\ p \in Object
    BY NoObjectType DEF Object, Stage, Outstanding, Chain
  <2>3. Set(s, i, o) \in NameState /\ Set(s, i, p) \in NameState
    BY <2>1, <2>2, SetType
  <2>4. Append(s.calls, i) \in Seq(Ids)
    BY <2>1 DEF NameState
  <2>5. [Set(s, i, o) EXCEPT !.tag = i] \in NameState
    BY <2>1, <2>3 DEF NameState
  <2>6. [Set(s, i, p) EXCEPT !.tag = i, !.calls = Append(s.calls, i)] \in NameState
    BY <2>1, <2>3, <2>4 DEF NameState
  <2>. QED
    BY <1>2, <2>5, <2>6 DEF Subscribe
<1>. QED
  BY <1>1, <1>2

LEMMA CancelLaterType ==
    ASSUME NEW s \in NameState, s.tag # NoId
    PROVE  CancelLater(s) \in NameState
<1>1. s.tag \in Ids /\ s.obj[s.tag] \in Object
  BY DEF NameState
<1>2. [s.obj[s.tag] EXCEPT !.timer = None, !.cancel = TRUE] \in Object
  BY <1>1 DEF Object
<1>. QED
  BY <1>1, <1>2, SetType DEF CancelLater

LEMMA WithdrawType ==
    ASSUME NEW s \in NameState, NEW g \in Links \cup {NoLink}
    PROVE  Withdraw(s, g) \in NameState
<1>. DEFINE o == [s.obj[s.tag] EXCEPT !.stage = "cancelling"]
<1>1. CASE s.tag = NoId
  BY <1>1 DEF Withdraw
<1>2. CASE s.tag # NoId
  <2>1. s.tag \in Ids /\ s.obj[s.tag] \in Object
    BY <1>2 DEF NameState
  <2>2. o \in Object
    BY <2>1 DEF Object, Stage, Outstanding
  <2>3. Set(s, s.tag, o) \in NameState
    BY <2>1, <2>2, SetType
  <2>4. Append(s.calls, s.tag) \in Seq(Ids)
    BY <2>1 DEF NameState
  <2>5. [Set(s, s.tag, o) EXCEPT !.tag = NoId, !.calls = Append(s.calls, s.tag)]
          \in NameState
    BY <2>3, <2>4 DEF NameState
  <2>. QED
    BY <1>2, <2>5, CancelLaterType DEF Withdraw
<1>. QED
  BY <1>1, <1>2

LEMMA RequestType ==
    ASSUME NEW s \in NameState, NEW con \in BOOLEAN,
           NEW g \in Links \cup {NoLink}, NEW c \in Callbacks,
           Room(s) \/ s.tag # NoId
    PROVE  Request(s, con, g, c) \in NameState
BY SubscribeType DEF Request, NameState

LEMMA UnrequestType ==
    ASSUME NEW s \in NameState, NEW con \in BOOLEAN, NEW g \in Links \cup {NoLink}
    PROVE  Unrequest(s, con, g) \in NameState
<1>. DEFINE t == IF con THEN Withdraw(s, g) ELSE [s EXCEPT !.buffered = None]
<1>1. t \in NameState
  BY WithdrawType DEF NameState
<1>2. (s.stray \/ Leftover(t)) \in BOOLEAN
  BY DEF Leftover, NameState
<1>. QED
  BY <1>1, <1>2 DEF Unrequest, NameState

LEMMA StepType ==
    ASSUME NEW s \in NameState, NEW i \in Ids, NEW stage \in Stage, NEW q \in Seq(Ids)
    PROVE  Step(s, i, stage, q) \in NameState
<1>1. [s.obj[i] EXCEPT !.stage = stage] \in Object
  BY DEF NameState, Object
<1>2. Set(s, i, [s.obj[i] EXCEPT !.stage = stage]) \in NameState
  BY <1>1, SetType
<1>. QED
  BY <1>2 DEF Step, NameState

LEMMA ReplyType ==
    ASSUME NEW s \in NameState, s.calls # <<>>
    PROVE  Reply(s) \in NameState
<1>. DEFINE i == Head(s.calls)
            rest == Tail(s.calls)
<1>1. i \in Ids /\ rest \in Seq(Ids) /\ Append(rest, i) \in Seq(Ids)
  BY DEF NameState
<1>2. \A stage \in Stage :
        /\ Step(s, i, stage, rest) \in NameState
        /\ Step(s, i, stage, Append(rest, i)) \in NameState
  BY <1>1, StepType
<1>3. Consumed(s, i, rest) \in NameState
  BY <1>2 DEF Consumed, NameState, Stage, Outstanding
<1>. QED
  BY <1>2, <1>3 DEF Reply, Stage, Outstanding, Chain

(* A finite set listed as a sequence is a sequence over it. *)
LEMMA SetToSeqType ==
    ASSUME NEW S, IsFiniteSet(S)
    PROVE  SetToSeq(S) \in Seq(S)
<1>1. PICK f \in Bijection(1 .. Cardinality(S), S) : TRUE
  BY FS_CardinalityType DEF ExistsBijection
<1>2. f \in [1 .. Cardinality(S) -> S] /\ IsInjective(f)
  BY <1>1 DEF Bijection, Injection, IsInjective
<1>3. SetToSeq(S) \in [1 .. Cardinality(S) -> S]
  BY <1>2 DEF SetToSeq
<1>. QED
  BY <1>3, FS_CardinalityType, SeqDef

LEMMA RejectType ==
    ASSUME NEW s \in NameState, NEW g \in Links, NEW h \in Links \cup {NoLink}
    PROVE  Reject(s, g, h) \in NameState
<1>. DEFINE here == {i \in Ids : s.obj[i].link = g}
            out == {i \in here : s.obj[i].stage \in Outstanding}
            caught == {i \in out : s.obj[i].stage \notin {"bind", "cancelling"}
                                   /\ s.obj[i].cancel}
            moving == IF h = NoLink THEN {}
                      ELSE {i \in out : s.obj[i].stage = "bind"}
            after(i) ==
              LET o == s.obj[i] IN
              IF i \notin here THEN o
              ELSE IF i \in moving THEN [o EXCEPT !.stage = "moved", !.link = h]
              ELSE IF i \in caught
                   THEN [o EXCEPT !.stage = "idle", !.timer = None]
              ELSE IF o.stage \in {"active", "lost"} /\ s.tag = i
                   THEN [o EXCEPT !.stage = "lost"]
              ELSE [o EXCEPT !.stage = "idle"]
            q == (IF h = NoLink THEN <<>> ELSE s.calls) \o SetToSeq(moving)
<1>1. ASSUME NEW i \in Ids PROVE after(i) \in Object
  <2>. DEFINE o == s.obj[i]
  <2>1. o \in Object
    BY DEF NameState
  <2>2. h # NoLink => [o EXCEPT !.stage = "moved", !.link = h] \in Object
    BY <2>1 DEF Object, Stage, Outstanding
  <2>3. [o EXCEPT !.stage = "idle", !.timer = None] \in Object
    BY <2>1 DEF Object, Stage
  <2>4. [o EXCEPT !.stage = "lost"] \in Object /\ [o EXCEPT !.stage = "idle"] \in Object
    BY <2>1 DEF Object, Stage
  <2>. QED
    BY <2>1, <2>2, <2>3, <2>4
<1>2. [i \in Ids |-> after(i)] \in [Ids -> Object]
  BY <1>1
<1>3. IsFiniteSet(moving) /\ moving \subseteq Ids
  BY IdsAssumption, FS_Subset
<1>4. SetToSeq(moving) \in Seq(Ids)
  BY <1>3, SetToSeqType, SeqMonotonic
<1>5. (IF h = NoLink THEN <<>> ELSE s.calls) \in Seq(Ids)
  BY DEF NameState
<1>6. q \in Seq(Ids)
  BY <1>4, <1>5, ConcatProperties
<1>. HIDE DEF after, q, caught, out
<1>7. (IF caught # {} THEN NoId ELSE s.tag) \in Ids \cup {NoId}
  BY DEF NameState
<1>8. (s.crossed \/ (h # NoLink /\ out # {})) \in BOOLEAN
  BY DEF NameState
<1>9. Reject(s, g, h) =
        [s EXCEPT !.obj = [i \in Ids |-> after(i)],
                  !.tag = IF caught # {} THEN NoId ELSE s.tag,
                  !.calls = q,
                  !.crossed = s.crossed \/ (h # NoLink /\ out # {})]
  BY DEF Reject, after, q, caught, out
<1>. QED
  BY <1>2, <1>6, <1>7, <1>8, <1>9 DEF NameState

LEMMA ForgetType ==
    ASSUME NEW s \in NameState
    PROVE  Forget(s) \in NameState
<1>. DEFINE f == [i \in Ids |->
                    IF s.obj[i].stage \in {"active", "lost", "cancelling"}
                    THEN [s.obj[i] EXCEPT !.stage = "idle"]
                    ELSE s.obj[i]]
            b == s.stray \/ Timers(s) # {}
<1>1. f \in [Ids -> Object]
  BY DEF NameState, Object, Stage
<1>2. b \in BOOLEAN
  BY DEF NameState
<1>3. Forget(s) = [s EXCEPT !.obj = f, !.tag = NoId, !.buffered = None,
                            !.calls = <<>>, !.want = None, !.stray = b]
  BY DEF Forget
<1>4. <<>> \in Seq(Ids)
  OBVIOUS
<1>. HIDE DEF f, b
<1>. QED
  BY <1>1, <1>2, <1>3, <1>4 DEF NameState

(* A timer that ran out leaves its object no less available than before. *)
LEMMA ExpireType ==
    ASSUME NEW s \in NameState, NEW i \in Timers(s), NEW con \in BOOLEAN,
           NEW g \in Links \cup {NoLink}, Room(s)
    PROVE  Expire(s, i, con, g) \in NameState
<1>. DEFINE c == s.obj[i].timer
            t == Set(s, i, [s.obj[i] EXCEPT !.timer = None])
<1>1. i \in Ids /\ c \in Callbacks
  BY DEF Timers, NameState, Object
<1>2. t \in NameState
  <2>1. [s.obj[i] EXCEPT !.timer = None] \in Object
    BY <1>1 DEF NameState, Object
  <2>. QED
    BY <1>1, <2>1, SetType
<1>3. Room(t)
  BY <1>1 DEF Room, Spare, Set, NameState, Object, Timers
<1>4. Subscribe(t, g, c) \in NameState
  BY <1>1, <1>2, <1>3, SubscribeType
<1>. QED
  BY <1>1, <1>2, <1>4 DEF Expire, NameState

(* A listener leaves room for the buffered request, or an entry over which *)
(* that request needs none.                                                *)
LEMMA ListenType ==
    ASSUME NEW s \in NameState, NEW g \in Links, NEW e \in ListenerCalls, Room(s)
    PROVE  /\ Listen(s, g, e) \in NameState
           /\ Room(Listen(s, g, e)) \/ Listen(s, g, e).tag # NoId
<1>1. CASE e = "unsubscribe"
  <2>1. Listen(s, g, e) = Unrequest(s, TRUE, g)
    BY <1>1, ListenerAssumption DEF Listen
  <2>2. Unrequest(s, TRUE, g) \in NameState
    <3>1. \A con \in BOOLEAN : Unrequest(s, con, g) \in NameState
      BY UnrequestType
    <3>. QED
      BY <3>1
  <2>3. Room(Withdraw(s, g)) \/ Withdraw(s, g).tag # NoId
    <3>1. CASE s.tag = NoId
      BY <3>1 DEF Withdraw
    <3>2. CASE s.tag # NoId
      BY <3>2, IdsAssumption DEF Withdraw, CancelLater, Room, Spare, Set, NameState, Object
    <3>. QED
      BY <3>1, <3>2
  <2>4. Room(Unrequest(s, TRUE, g)) \/ Unrequest(s, TRUE, g).tag # NoId
    BY <2>3, WithdrawType DEF Unrequest, Room, Spare, NameState
  <2>. QED
    BY <2>1, <2>2, <2>4
<1>2. CASE e \in Callbacks
  <2>1. e # "unsubscribe"
    BY <1>2, ListenerAssumption
  <2>2. Listen(s, g, e) = Request(s, TRUE, g, e)
    BY <1>2, <2>1 DEF Listen
  <2>3. Request(s, TRUE, g, e) \in NameState
    BY <1>2, RequestType
  <2>4. Subscribe(s, g, e) \in NameState
    BY <1>2, SubscribeType
  <2>5. Subscribe(s, g, e).tag # NoId
    BY IdsAssumption DEF Subscribe, Wait, Set, Room, Spare, NameState, Object, NoLink
  <2>6. Request(s, TRUE, g, e).tag # NoId
    BY <2>4, <2>5 DEF Request, NameState
  <2>. QED
    BY <2>2, <2>3, <2>6
<1>3. CASE e = "nothing"
  <2>1. Listen(s, g, e) = s
    BY <1>3, ListenerAssumption DEF Listen
  <2>. QED
    BY <2>1
<1>. QED
  BY <1>1, <1>2, <1>3, ListenerAssumption

LEMMA ApplyBufferType ==
    ASSUME NEW s \in NameState, NEW g \in Links, Room(s) \/ s.tag # NoId
    PROVE  ApplyBuffer(s, g) \in NameState
<1>1. CASE s.buffered = None
  BY <1>1 DEF ApplyBuffer
<1>2. CASE s.buffered # None
  <2>1. s.buffered \in Callbacks
    BY <1>2 DEF NameState
  <2>2. Subscribe(s, g, s.buffered) \in NameState
    BY <2>1, SubscribeType
  <2>. QED
    BY <1>2, <2>2 DEF ApplyBuffer, NameState
<1>. QED
  BY <1>1, <1>2

-----------------------------------------------------------------------------

LEMMA ConnTypeInit == ConnInit => ConnTypeOK
BY DEF ConnInit, ConnTypeOK, ConnStage, ChanStage

(* Every step of the link keeps the link's variables well formed. *)
LEMMA ConnTypeStep ==
    ASSUME ConnTypeOK, ConnNext \/ UNCHANGED connVars
    PROVE  ConnTypeOK'
<1>. USE DEF ConnTypeOK, ConnStage, ChanStage
<1>1. CASE Close
  BY <1>1 DEF Close, Sendable
<1>3. ASSUME NEW g \in Links, Connect(g) PROVE ConnTypeOK'
  BY <1>3 DEF Connect
<1>4. ASSUME NEW g \in Links, ConnectionOpened(g) PROVE ConnTypeOK'
  BY <1>4 DEF ConnectionOpened
<1>5. ASSUME NEW g \in Links, ConnectFailed(g) PROVE ConnTypeOK'
  BY <1>5 DEF ConnectFailed
<1>6. ASSUME NEW g \in Links, ChannelOpened(g) PROVE ConnTypeOK'
  BY <1>6 DEF ChannelOpened
<1>7. ASSUME NEW g \in Links, ExchangeDeclared(g) PROVE ConnTypeOK'
  BY <1>7 DEF ExchangeDeclared
<1>8. ASSUME NEW g \in Links, ChannelLost(g) PROVE ConnTypeOK'
  BY <1>8 DEF ChannelLost
<1>9. ASSUME NEW g \in Links, ConnectionLost(g) PROVE ConnTypeOK'
  BY <1>9 DEF ConnectionLost
<1>10. ASSUME NEW g \in Links, ChannelClosed(g) PROVE ConnTypeOK'
  BY <1>10 DEF ChannelClosed
<1>11. ASSUME NEW g \in Links, ConnectionClosed(g) PROVE ConnTypeOK'
  BY <1>11 DEF ConnectionClosed
<1>2. CASE UNCHANGED connVars
  BY <1>2 DEF connVars
<1>. QED
  BY <1>1, <1>2, <1>3, <1>4, <1>5, <1>6, <1>7, <1>8, <1>9, <1>10, <1>11 DEF ConnNext

(* What a step of Next is for the link alone. *)
LEMMA NextIsConnNext ==
    ASSUME Next
    PROVE  ConnNext \/ UNCHANGED connVars
BY DEF Next, ConnNext, Detach, Open, Attach, Lose, Settle, Ask, Unsubscribe, Answer,
       TimerFires

LEMMA TypeInit == Init => TypeOK
<1>1. NoSubscription \in NameState
  BY NoObjectType DEF NoSubscription, NameState
<1>. QED
  BY <1>1, ConnTypeInit DEF Init, TypeOK

LEMMA TypeStep ==
    ASSUME TypeOK, [Next]_vars
    PROVE  TypeOK'
<1>1. ConnTypeOK'
  <2>1. CASE Next
    BY <2>1, NextIsConnNext, ConnTypeStep DEF TypeOK
  <2>2. CASE UNCHANGED vars
    BY <2>2, ConnTypeStep DEF TypeOK, vars
  <2>. QED
    BY <2>1, <2>2
<1>2. Usable \in Links \cup {NoLink} /\ connected \in BOOLEAN
  BY DEF TypeOK, ConnTypeOK, Usable
<1>3. \A n \in Names : sub[n] \in NameState
  BY DEF TypeOK
<1>4. sub' \in [Names -> NameState]
  <2>1. CASE Detach
    BY <2>1, <1>3, ForgetType DEF Detach
  <2>2. ASSUME NEW g \in Links, Attach(g) PROVE sub' \in [Names -> NameState]
    <3>1. PICK e \in [Names -> ListenerCalls] :
            sub' = [n \in Names |-> ApplyBuffer(Listen(sub[n], g, e[n]), g)]
      BY <2>2 DEF Attach
    <3>2. \A n \in Names : Room(sub[n])
      BY <2>2 DEF Attach
    <3>3. ASSUME NEW n \in Names
          PROVE  ApplyBuffer(Listen(sub[n], g, e[n]), g) \in NameState
      BY <1>3, <3>2, ListenType, ApplyBufferType
    <3>. QED
      BY <3>1, <3>3
  <2>3. ASSUME NEW g \in Links, Lose(g) PROVE sub' \in [Names -> NameState]
    BY <2>3, <1>2, <1>3, RejectType DEF Lose
  <2>4. ASSUME NEW g \in Links, Settle(g) PROVE sub' \in [Names -> NameState]
    BY <2>4, <1>2, <1>3, RejectType DEF Settle
  <2>5. ASSUME NEW n \in Names, NEW c \in Callbacks, Ask(n, c)
        PROVE  sub' \in [Names -> NameState]
    BY <2>5, <1>2, <1>3, RequestType DEF Ask, TypeOK
  <2>6. ASSUME NEW n \in Names, Unsubscribe(n) PROVE sub' \in [Names -> NameState]
    BY <2>6, <1>2, <1>3, UnrequestType DEF Unsubscribe, TypeOK
  <2>7. ASSUME NEW n \in Names, Answer(n) PROVE sub' \in [Names -> NameState]
    BY <2>7, <1>3, ReplyType DEF Answer, TypeOK
  <2>8. ASSUME NEW n \in Names, NEW i \in Ids, TimerFires(n, i)
        PROVE  sub' \in [Names -> NameState]
    BY <2>8, <1>2, <1>3, ExpireType DEF TimerFires, TypeOK
  <2>9. CASE UNCHANGED sub
    BY <2>9 DEF TypeOK
  <2>. QED
    BY <2>1, <2>2, <2>3, <2>4, <2>5, <2>6, <2>7, <2>8, <2>9 DEF Next, Open, vars
<1>. QED
  BY <1>1, <1>4 DEF TypeOK

(* connected() and everything behind it, and every name's state, stay well *)
(* formed: notification.js:64-453 for any names, callbacks and links.      *)
THEOREM TypeCorrect == Spec => []TypeOK
<1>1. TypeOK /\ [Next]_vars => TypeOK'
  BY TypeStep
<1>. QED
  BY <1>1, TypeInit, PTL DEF Spec

-----------------------------------------------------------------------------
(* The inductive invariant. *)

(* ch is the channel in use, up whether it can be used, old the links      *)
(* whose closing handshake is under way.                                   *)

(* Consumers live on the channel in use, chains there or on a closing one. *)
InPlace(s, ch, up, old) ==
    \A i \in Ids : LET o == s.obj[i] IN
        /\ o.stage \in {"active", "cancelling"} => up /\ o.link = ch
        /\ o.stage \in Chain => (up /\ o.link = ch) \/ o.link \in old
        /\ o.stage = "lost" => ~up
        /\ o.stage # "moved"

(* The calls outstanding are of different objects, and of the right kind. *)
InLine(s, ch, up) ==
    /\ s.calls # <<>> => up
    /\ \A k \in 1 .. Len(s.calls) :
          /\ s.obj[s.calls[k]].stage \in Chain \cup {"cancelling"}
          /\ s.obj[s.calls[k]].link = ch
          /\ \A l \in 1 .. Len(s.calls) : s.calls[k] = s.calls[l] => k = l
    /\ \A i \in Ids : s.obj[i].stage = "cancelling" =>
          /\ s.tag # i
          /\ \E k \in 1 .. Len(s.calls) : s.calls[k] = i

(* A chain under way on the channel in use is the entry's, and last. *)
ChainIsLast(s, ch) ==
    \A i \in Ids : s.obj[i].stage \in Chain /\ s.obj[i].link = ch =>
        /\ s.tag = i
        /\ s.calls # <<>>
        /\ s.calls[Len(s.calls)] = i

Reachable(s) == \A i \in Ids : s.obj[i].stage = "active" => s.tag = i

Single(s) == \A i, j \in Consuming(s) : i = j

(* An entry is consuming or under way while the channel can be used. *)
Alive(s, ch, up) ==
    up /\ s.tag # NoId =>
        s.obj[s.tag].stage \in Chain \cup {"active"} /\ s.obj[s.tag].link = ch

Orderly(s, ch, up, old) ==
    /\ InPlace(s, ch, up, old)
    /\ InLine(s, ch, up)
    /\ ChainIsLast(s, ch)
    /\ Reachable(s)
    /\ Single(s)
    /\ Alive(s, ch, up)

Up == connected /\ channel # NoLink /\ chan[channel] = "up"

Closing == {g \in Links : chan[g] = "closing"}

(* What serial calls of connect() make of the link's variables. *)
LinkInv ==
    /\ connected => /\ channel # NoLink
                    /\ connection = channel
                    /\ chan[channel] \in {"up", "down"}
    /\ \A g \in Links :
          /\ chan[g] = "up" => connected /\ channel = g
          /\ chan[g] = "closing" => channel # g /\ closeNext[g] = g
          /\ chan[g] = "declaring" => channel = g /\ connection = g
          /\ chan[g] = "opening" => connection = g
          /\ chan[g] \in {"opening", "declaring"} => conn[g] = "open"
          /\ conn[g] \in {"none", "dialing"} => chan[g] = "none"
          /\ conn[g] = "open" => chan[g] # "none"
          /\ conn[g] = "closing" => chan[g] = "down"
          /\ Attempting(g) => ~connected
          /\ \A h \in Links : Attempting(g) /\ Attempting(h) => g = h

(* What holds of one name: nothing is kept of it while not connected. *)
NameInv(n) ==
    /\ ~connected => /\ sub[n].tag = NoId
                     /\ \A i \in Ids : sub[n].obj[i].stage # "lost"
    /\ ~sub[n].crossed => Orderly(sub[n], channel, Up, Closing)

SubInv == \A n \in Names : NameInv(n)

Inv == TypeOK /\ LinkInv /\ SubInv

-----------------------------------------------------------------------------
(* The link. *)

LEMMA LinkInvInit == Init => LinkInv
BY DEF Init, ConnInit, LinkInv, Attempting, NoLink

LEMMA LinkInvStep ==
    ASSUME ConnTypeOK, LinkInv, [Next]_vars
    PROVE  LinkInv'
<1>. USE DEF ConnTypeOK, LinkInv, Attempting, ConnStage, ChanStage, NoLink, Links
<1>1. CASE Close
  BY <1>1 DEF Close, Sendable
<1>3. ASSUME NEW g \in Links, Open(g) PROVE LinkInv'
  BY <1>3 DEF Open, Connect
<1>4. ASSUME NEW g \in Links, ConnectionOpened(g) PROVE LinkInv'
  BY <1>4 DEF ConnectionOpened
<1>5. ASSUME NEW g \in Links, ConnectFailed(g) PROVE LinkInv'
  BY <1>5 DEF ConnectFailed
<1>6. ASSUME NEW g \in Links, ChannelOpened(g) PROVE LinkInv'
  BY <1>6 DEF ChannelOpened
<1>7. ASSUME NEW g \in Links, ExchangeDeclared(g) PROVE LinkInv'
  BY <1>7 DEF ExchangeDeclared
<1>8. ASSUME NEW g \in Links, ChannelLost(g) PROVE LinkInv'
  BY <1>8 DEF ChannelLost
<1>9. ASSUME NEW g \in Links, ConnectionLost(g) PROVE LinkInv'
  BY <1>9 DEF ConnectionLost
<1>10. ASSUME NEW g \in Links, ChannelClosed(g) PROVE LinkInv'
  BY <1>10 DEF ChannelClosed
<1>11. ASSUME NEW g \in Links, ConnectionClosed(g) PROVE LinkInv'
  BY <1>11 DEF ConnectionClosed
<1>2. CASE UNCHANGED connVars
  BY <1>2 DEF connVars
<1>. QED
  BY <1>1, <1>2, <1>3, <1>4, <1>5, <1>6, <1>7, <1>8, <1>9, <1>10, <1>11
  DEF Next, vars, Detach, Attach, Lose, Settle, Ask, Unsubscribe, Answer, TimerFires

-----------------------------------------------------------------------------
(* The handlers.  Orderly does not look at requests and history. *)

LEMMA OrderlyFrame ==
    ASSUME NEW s, NEW t, NEW ch, NEW up, NEW old, Orderly(s, ch, up, old),
           t.obj = s.obj, t.tag = s.tag, t.calls = s.calls
    PROVE  Orderly(t, ch, up, old)
BY DEF Orderly, InPlace, InLine, ChainIsLast, Reachable, Single, Alive, Consuming

(* Replacing the mark and the timer of an object changes nothing either. *)
LEMMA OrderlyMark ==
    ASSUME NEW s \in NameState, NEW t \in NameState,
           NEW ch, NEW up, NEW old, Orderly(s, ch, up, old),
           t.tag = s.tag, t.calls = s.calls,
           \A i \in Ids : t.obj[i].stage = s.obj[i].stage /\ t.obj[i].link = s.obj[i].link
    PROVE  Orderly(t, ch, up, old)
<1>1. \A k \in 1 .. Len(s.calls) : s.calls[k] \in Ids
  BY DEF NameState
<1>2. s.tag # NoId => s.tag \in Ids
  BY DEF NameState
<1>3. InPlace(t, ch, up, old)
  BY DEF Orderly, InPlace
<1>4. InLine(t, ch, up)
  BY <1>1 DEF Orderly, InLine
<1>5. ChainIsLast(t, ch)
  BY DEF Orderly, ChainIsLast
<1>6. Reachable(t) /\ Single(t)
  BY DEF Orderly, Reachable, Single, Consuming
<1>7. Alive(t, ch, up)
  BY <1>2 DEF Orderly, Alive
<1>. QED
  BY <1>3, <1>4, <1>5, <1>6, <1>7 DEF Orderly

LEMMA WaitOrderly ==
    ASSUME NEW s \in NameState, NEW c \in Callbacks, s.tag # NoId,
           NEW ch, NEW up, NEW old, Orderly(s, ch, up, old)
    PROVE  Orderly(Wait(s, c), ch, up, old)
<1>1. Wait(s, c) \in NameState
  BY WaitType
<1>2. Wait(s, c).tag = s.tag /\ Wait(s, c).calls = s.calls
  BY DEF Wait, Set, NameState
<1>3. \A i \in Ids : /\ Wait(s, c).obj[i].stage = s.obj[i].stage
                     /\ Wait(s, c).obj[i].link = s.obj[i].link
  BY DEF Wait, Set, NameState, Object
<1>. QED
  BY <1>1, <1>2, <1>3, OrderlyMark

LEMMA CancelLaterOrderly ==
    ASSUME NEW s \in NameState, s.tag # NoId,
           NEW ch, NEW up, NEW old, Orderly(s, ch, up, old)
    PROVE  Orderly(CancelLater(s), ch, up, old)
<1>1. CancelLater(s) \in NameState
  BY CancelLaterType
<1>2. CancelLater(s).tag = s.tag /\ CancelLater(s).calls = s.calls
  BY DEF CancelLater, Set, NameState
<1>3. \A i \in Ids : /\ CancelLater(s).obj[i].stage = s.obj[i].stage
                     /\ CancelLater(s).obj[i].link = s.obj[i].link
  BY DEF CancelLater, Set, NameState, Object
<1>. QED
  BY <1>1, <1>2, <1>3, OrderlyMark

(* A new subscription: without an entry no chain is under way on the       *)
(* channel in use, so its first call is the last in line.                  *)
LEMMA SubscribeOrderly ==
    ASSUME NEW s \in NameState, NEW c \in Callbacks, Room(s) \/ s.tag # NoId,
           NEW ch \in Links \cup {NoLink}, NEW up \in BOOLEAN, up => ch # NoLink,
           NEW old \in SUBSET Links, ch \notin old, Orderly(s, ch, up, old)
    PROVE  Orderly(Subscribe(s, IF up THEN ch ELSE NoLink, c), ch, up, old)
<1>. DEFINE g == IF up THEN ch ELSE NoLink
<1>1. CASE s.tag # NoId
  BY <1>1, WaitOrderly DEF Subscribe
<1>2. CASE s.tag = NoId
  <2>. DEFINE i == CHOOSE j \in Spare(s) : TRUE
              o == [NoObject EXCEPT !.cb = c]
              p == [o EXCEPT !.stage = "assert", !.link = g]
              t == Subscribe(s, g, c)
  <2>1. i \in Ids /\ s.obj[i].stage = "idle" /\ i # NoId
    BY <1>2, IdsAssumption DEF Room, Spare
  <2>2. t.tag = i
    BY <1>2, <2>1 DEF Subscribe, Set, NameState
  <2>3. t.obj = [s.obj EXCEPT ![i] = IF up THEN p ELSE o]
    BY <1>2, <2>1 DEF Subscribe, Set, NameState
  <2>4. t.calls = IF up THEN Append(s.calls, i) ELSE s.calls
    BY <1>2, <2>1 DEF Subscribe, Set, NameState
  <2>5. /\ o.stage = "idle"
        /\ p.stage = "assert"
        /\ p.link = g
    BY DEF NoObject
  <2>6. /\ \A j \in Ids : j # i => t.obj[j] = s.obj[j]
        /\ t.obj[i] = IF up THEN p ELSE o
    BY <2>1, <2>3 DEF NameState
  <2>7. s.calls \in Seq(Ids)
    BY DEF NameState
  <2>8. \A k \in 1 .. Len(s.calls) : s.calls[k] \in Ids /\ s.calls[k] # i
    <3>1. \A k \in 1 .. Len(s.calls) : s.calls[k] \in Ids
      BY <2>7, ElementOfSeq
    <3>2. \A k \in 1 .. Len(s.calls) : s.obj[s.calls[k]].stage # "idle"
      BY DEF Orderly, InLine, Chain
    <3>. QED
      BY <2>1, <3>1, <3>2
  <2>. HIDE DEF i, o, p, t
  <2>9. InPlace(t, ch, up, old)
    BY <2>1, <2>5, <2>6 DEF Orderly, InPlace, Chain
  <2>10. InLine(t, ch, up)
    <3>1. CASE up
      <4>1. /\ t.calls = Append(s.calls, i)
            /\ Len(t.calls) = Len(s.calls) + 1
            /\ \A k \in 1 .. Len(s.calls) : t.calls[k] = s.calls[k]
            /\ t.calls[Len(s.calls) + 1] = i
        BY <3>1, <2>1, <2>4, <2>7, AppendProperties
      <4>2. \A k \in 1 .. Len(t.calls) :
              \/ k \in 1 .. Len(s.calls) /\ t.calls[k] = s.calls[k]
              \/ k = Len(s.calls) + 1 /\ t.calls[k] = i
        BY <4>1, <2>7
      <4>3. \A k \in 1 .. Len(t.calls) :
              /\ t.obj[t.calls[k]].stage \in Chain \cup {"cancelling"}
              /\ t.obj[t.calls[k]].link = ch
        BY <3>1, <4>2, <2>5, <2>6, <2>8 DEF Orderly, InLine, Chain
      <4>4. \A k, l \in 1 .. Len(t.calls) : t.calls[k] = t.calls[l] => k = l
        BY <4>2, <2>8 DEF Orderly, InLine
      <4>5. \A j \in Ids : t.obj[j].stage = "cancelling" =>
              t.tag # j /\ \E k \in 1 .. Len(t.calls) : t.calls[k] = j
        <5>1. SUFFICES ASSUME NEW j \in Ids, t.obj[j].stage = "cancelling"
                       PROVE  t.tag # j /\ \E k \in 1 .. Len(t.calls) : t.calls[k] = j
          OBVIOUS
        <5>2. j # i /\ s.obj[j].stage = "cancelling"
          BY <3>1, <5>1, <2>5, <2>6
        <5>3. PICK k \in 1 .. Len(s.calls) : s.calls[k] = j
          BY <5>2 DEF Orderly, InLine
        <5>4. k \in 1 .. Len(t.calls) /\ t.calls[k] = j
          BY <5>3, <4>1, <2>7
        <5>. QED
          BY <5>2, <5>4, <2>2
      <4>. QED
        BY <3>1, <4>3, <4>4, <4>5 DEF InLine
    <3>2. CASE ~up
      <4>1. t.calls = s.calls /\ s.calls = <<>>
        BY <3>2, <2>4 DEF Orderly, InLine
      <4>2. \A j \in Ids : t.obj[j].stage # "cancelling"
        BY <3>2, <2>5, <2>6 DEF Orderly, InPlace
      <4>. QED
        BY <4>1, <4>2 DEF InLine
    <3>. QED
      BY <3>1, <3>2
  <2>11. \A j \in Ids : s.obj[j].stage \in Chain => s.obj[j].link # ch
    BY <1>2, IdsAssumption DEF Orderly, ChainIsLast
  <2>12. ChainIsLast(t, ch)
    <3>1. CASE up
      <4>1. t.calls # <<>> /\ t.calls[Len(t.calls)] = i
        BY <3>1, <2>1, <2>4, <2>7, AppendProperties
      <4>. QED
        BY <4>1, <2>2, <2>6, <2>11 DEF ChainIsLast
    <3>2. CASE ~up
      BY <3>2, <2>5, <2>6, <2>11 DEF ChainIsLast, Chain
    <3>. QED
      BY <3>1, <3>2
  <2>13. \A j \in Ids : s.obj[j].stage # "active"
    BY <1>2, IdsAssumption DEF Orderly, Reachable
  <2>14. Reachable(t)
    BY <2>5, <2>6, <2>13 DEF Reachable
  <2>15. Single(t)
    BY <2>5, <2>6 DEF Orderly, Single, Consuming
  <2>16. Alive(t, ch, up)
    BY <2>1, <2>2, <2>5, <2>6 DEF Alive, Chain
  <2>17. Orderly(t, ch, up, old)
    BY <2>9, <2>10, <2>12, <2>14, <2>15, <2>16 DEF Orderly
  <2>. QED
    BY <2>17 DEF t
<1>. QED
  BY <1>1, <1>2

(* unsubscribe(): a consumer that is cancelled goes to the end of the line *)
(* and leaves _tags; nothing else was under way.                           *)
LEMMA WithdrawOrderly ==
    ASSUME NEW s \in NameState,
           NEW ch \in Links \cup {NoLink}, NEW up \in BOOLEAN, up => ch # NoLink,
           NEW old \in SUBSET Links, ch \notin old, Orderly(s, ch, up, old)
    PROVE  Orderly(Withdraw(s, IF up THEN ch ELSE NoLink), ch, up, old)
<1>. DEFINE g == IF up THEN ch ELSE NoLink
<1>1. CASE s.tag = NoId \/ (s.tag # NoId /\ g = NoLink
                            /\ s.obj[s.tag].stage \in {"active", "lost"})
  BY <1>1 DEF Withdraw
<1>2. CASE s.tag # NoId /\ s.obj[s.tag].stage \notin {"active", "lost"}
  BY <1>2, CancelLaterOrderly DEF Withdraw
<1>3. CASE s.tag # NoId /\ s.obj[s.tag].stage \in {"active", "lost"} /\ g # NoLink
  <2>. DEFINE i == s.tag
              o == [s.obj[i] EXCEPT !.stage = "cancelling"]
              t == Withdraw(s, g)
  <2>1. i \in Ids /\ i # NoId /\ up
    BY <1>3 DEF NameState
  <2>2. s.obj[i].stage = "active" /\ s.obj[i].link = ch
    BY <1>3, <2>1 DEF Orderly, InPlace
  <2>3. t.tag = NoId
    BY <1>3 DEF Withdraw, Set, NameState
  <2>4. t.obj = [s.obj EXCEPT ![i] = o]
    BY <1>3, <2>1 DEF Withdraw, Set, NameState
  <2>5. t.calls = Append(s.calls, i)
    BY <1>3 DEF Withdraw, Set, NameState
  <2>6. o.stage = "cancelling" /\ o.link = ch
    BY <2>1, <2>2 DEF NameState, Object
  <2>7. (\A j \in Ids : j # i => t.obj[j] = s.obj[j]) /\ t.obj[i] = o
    BY <2>1, <2>4 DEF NameState
  <2>8. s.calls \in Seq(Ids) /\ \A k \in 1 .. Len(s.calls) : s.calls[k] \in Ids
    BY ElementOfSeq DEF NameState
  <2>9. \A k \in 1 .. Len(s.calls) : s.calls[k] # i
    BY <2>2 DEF Orderly, InLine, Chain
  <2>. HIDE DEF o, t
  <2>10. /\ t.calls # <<>>
         /\ Len(t.calls) = Len(s.calls) + 1
         /\ \A k \in 1 .. Len(s.calls) : t.calls[k] = s.calls[k]
         /\ t.calls[Len(s.calls) + 1] = i
    BY <2>1, <2>5, <2>8, AppendProperties
  <2>11. \A k \in 1 .. Len(t.calls) :
           \/ k \in 1 .. Len(s.calls) /\ t.calls[k] = s.calls[k]
           \/ k = Len(s.calls) + 1 /\ t.calls[k] = i
    BY <2>8, <2>10
  <2>12. \A j \in Ids : s.obj[j].stage \in Chain => s.obj[j].link # ch
    BY <2>2 DEF Orderly, ChainIsLast, Chain
  <2>13. InPlace(t, ch, up, old)
    BY <2>1, <2>6, <2>7 DEF Orderly, InPlace, Chain
  <2>14. InLine(t, ch, up)
    <3>1. \A k \in 1 .. Len(t.calls) :
            /\ t.obj[t.calls[k]].stage \in Chain \cup {"cancelling"}
            /\ t.obj[t.calls[k]].link = ch
      BY <2>6, <2>7, <2>8, <2>9, <2>11 DEF Orderly, InLine
    <3>2. \A k, l \in 1 .. Len(t.calls) : t.calls[k] = t.calls[l] => k = l
      BY <2>9, <2>11 DEF Orderly, InLine
    <3>3. \A j \in Ids : t.obj[j].stage = "cancelling" =>
            t.tag # j /\ \E k \in 1 .. Len(t.calls) : t.calls[k] = j
      <4>1. SUFFICES ASSUME NEW j \in Ids, t.obj[j].stage = "cancelling"
                     PROVE  t.tag # j /\ \E k \in 1 .. Len(t.calls) : t.calls[k] = j
        OBVIOUS
      <4>2. t.tag # j
        BY <2>3, IdsAssumption
      <4>3. CASE j = i
        BY <4>2, <4>3, <2>8, <2>10
      <4>4. CASE j # i
        <5>1. PICK k \in 1 .. Len(s.calls) : s.calls[k] = j
          BY <4>1, <4>4, <2>7 DEF Orderly, InLine
        <5>2. k \in 1 .. Len(t.calls) /\ t.calls[k] = j
          BY <5>1, <2>8, <2>10
        <5>. QED
          BY <4>2, <5>2
      <4>. QED
        BY <4>3, <4>4
    <3>. QED
      BY <3>1, <3>2, <3>3, <2>1 DEF InLine
  <2>15. ChainIsLast(t, ch)
    BY <2>6, <2>7, <2>12 DEF ChainIsLast, Chain
  <2>16. Reachable(t)
    BY <2>6, <2>7, <2>1 DEF Orderly, Reachable
  <2>17. Single(t)
    BY <2>2, <2>6, <2>7 DEF Orderly, Single, Consuming
  <2>18. Alive(t, ch, up)
    BY <2>3 DEF Alive
  <2>19. Orderly(t, ch, up, old)
    BY <2>13, <2>14, <2>15, <2>16, <2>17, <2>18 DEF Orderly
  <2>. QED
    BY <2>19 DEF t
<1>. QED
  BY <1>1, <1>2, <1>3

(* An answer.  Whoever it is for leaves the head of the line; when it is a *)
(* chain it was alone there, so nothing else consumes as it starts to.     *)
LEMMA ReplyOrderly ==
    ASSUME NEW s \in NameState, s.calls # <<>>,
           NEW ch \in Links, NEW up, up,
           NEW old \in SUBSET Links, ch \notin old, Orderly(s, ch, up, old)
    PROVE  Orderly(Reply(s), ch, up, old)
<1>. DEFINE i == Head(s.calls)
            rest == Tail(s.calls)
<1>1. /\ i \in Ids
      /\ rest \in Seq(Ids)
      /\ i = s.calls[1]
      /\ Len(s.calls) \in Nat \ {0}
      /\ Len(rest) = Len(s.calls) - 1
      /\ \A k \in 1 .. Len(rest) : rest[k] = s.calls[k + 1]
  BY HeadTailProperties, EmptySeq DEF NameState
<1>2. s.obj[i].stage \in Chain \cup {"cancelling"} /\ s.obj[i].link = ch
  BY <1>1 DEF Orderly, InLine
<1>3. \A k \in 1 .. Len(rest) : rest[k] \in Ids /\ rest[k] # i
  BY <1>1, ElementOfSeq DEF Orderly, InLine
<1>4. ASSUME NEW j \in Ids, j # i, s.obj[j].stage = "cancelling"
      PROVE  \E k \in 1 .. Len(rest) : rest[k] = j
  <2>1. PICK k \in 1 .. Len(s.calls) : s.calls[k] = j
    BY <1>4 DEF Orderly, InLine
  <2>2. k - 1 \in 1 .. Len(rest) /\ rest[k - 1] = j
    BY <2>1, <1>1, <1>4
  <2>. QED
    BY <2>2
<1>5. ASSUME s.obj[i].stage \in Chain
      PROVE  /\ s.tag = i
             /\ rest = <<>>
             /\ \A j \in Ids : j # i => s.obj[j].stage \notin {"active", "cancelling"}
  <2>1. s.tag = i /\ s.calls[Len(s.calls)] = i
    BY <1>1, <1>2, <1>5 DEF Orderly, ChainIsLast
  <2>2. Len(s.calls) = 1
    <3>1. 1 \in 1 .. Len(s.calls) /\ Len(s.calls) \in 1 .. Len(s.calls)
      BY <1>1
    <3>2. s.calls[1] = s.calls[Len(s.calls)]
      BY <2>1, <1>1
    <3>. QED
      BY <3>1, <3>2 DEF Orderly, InLine
  <2>3. rest = <<>>
    <3>1. Len(rest) = 0
      BY <2>2, <1>1
    <3>. HIDE DEF rest
    <3>. QED
      BY <3>1, <1>1, EmptySeq
  <2>. QED
    BY <2>1, <2>2, <2>3, <1>1, <1>4 DEF Orderly, Reachable
<1>6. ASSUME s.obj[i].stage \in Chain,
             NEW t \in NameState, NEW stage \in {"bind", "consume", "cancelling"},
             t.tag = IF stage = "cancelling" THEN NoId ELSE i,
             t.calls = <<i>>,
             t.obj = [s.obj EXCEPT ![i] = [s.obj[i] EXCEPT !.stage = stage]]
      PROVE  Orderly(t, ch, up, old)
  <2>1. /\ \A j \in Ids : j # i => t.obj[j] = s.obj[j]
        /\ t.obj[i].stage = stage
        /\ t.obj[i].link = ch
    BY <1>1, <1>2, <1>6 DEF NameState, Object
  <2>2. \A j \in Ids : /\ j # i => s.obj[j].stage \notin {"active", "cancelling"}
                       /\ j # i /\ s.obj[j].stage \in Chain => s.obj[j].link # ch
    BY <1>5, <1>6 DEF Orderly, ChainIsLast
  <2>3. InPlace(t, ch, up, old)
    BY <1>1, <1>6, <2>1 DEF Orderly, InPlace, Chain
  <2>4. InLine(t, ch, up)
    <3>1. Len(t.calls) = 1 /\ t.calls[1] = i
      BY <1>6
    <3>2. \A j \in Ids : t.obj[j].stage = "cancelling" => j = i /\ t.tag # j
      BY <2>1, <2>2, <1>1, <1>6, IdsAssumption DEF Chain
    <3>. QED
      BY <3>1, <3>2, <2>1, <1>6 DEF InLine, Chain
  <2>5. ChainIsLast(t, ch)
    BY <2>1, <2>2, <1>6 DEF ChainIsLast, Chain
  <2>6. Reachable(t) /\ Single(t)
    BY <2>1, <2>2, <1>6 DEF Reachable, Single, Consuming, Chain
  <2>7. Alive(t, ch, up)
    BY <2>1, <1>6 DEF Alive, Chain
  <2>. QED
    BY <2>3, <2>4, <2>5, <2>6, <2>7 DEF Orderly
<1>7. Reply(s) \in NameState
  BY ReplyType
<1>8. Append(<<>>, i) = <<i>>
  OBVIOUS
<1>9. CASE s.obj[i].stage = "assert"
  <2>1. /\ Reply(s).tag = s.tag
        /\ Reply(s).calls = Append(rest, i)
        /\ Reply(s).obj = [s.obj EXCEPT ![i] = [s.obj[i] EXCEPT !.stage = "bind"]]
    BY <1>1, <1>9 DEF Reply, Step, Set, NameState
  <2>2. Reply(s).tag = i /\ Reply(s).calls = <<i>>
    BY <1>5, <1>8, <1>9, <2>1 DEF Chain
  <2>3. s.obj[i].stage \in Chain /\ "bind" \in Chain
    BY <1>9 DEF Chain
  <2>. QED
    BY <1>6, <1>7, <2>1, <2>2, <2>3
<1>10. CASE s.obj[i].stage = "bind"
  <2>1. /\ Reply(s).tag = s.tag
        /\ Reply(s).calls = Append(rest, i)
        /\ Reply(s).obj = [s.obj EXCEPT ![i] = [s.obj[i] EXCEPT !.stage = "consume"]]
    BY <1>1, <1>10 DEF Reply, Step, Set, NameState
  <2>2. Reply(s).tag = i /\ Reply(s).calls = <<i>>
    BY <1>5, <1>8, <1>10, <2>1 DEF Chain
  <2>3. s.obj[i].stage \in Chain /\ "consume" \in Chain
    BY <1>10 DEF Chain
  <2>. QED
    BY <1>6, <1>7, <2>1, <2>2, <2>3
<1>11. CASE s.obj[i].stage = "consume" /\ s.obj[i].cancel
  <2>1. /\ Reply(s).tag = NoId
        /\ Reply(s).calls = Append(rest, i)
        /\ Reply(s).obj = [s.obj EXCEPT ![i] = [s.obj[i] EXCEPT !.stage = "cancelling"]]
    BY <1>1, <1>11 DEF Reply, Consumed, Step, Set, NameState
  <2>. QED
    BY <1>5, <1>6, <1>7, <1>8, <1>11, <2>1 DEF Chain
<1>12. CASE s.obj[i].stage = "consume" /\ ~s.obj[i].cancel
  <2>. DEFINE t == Reply(s)
  <2>1. /\ t.tag = s.tag
        /\ t.calls = rest
        /\ t.obj = [s.obj EXCEPT ![i] = [s.obj[i] EXCEPT !.stage = "active"]]
    BY <1>1, <1>12 DEF Reply, Consumed, Step, Set, NameState
  <2>2. /\ \A j \in Ids : j # i => t.obj[j] = s.obj[j]
        /\ t.obj[i].stage = "active"
        /\ t.obj[i].link = ch
    BY <1>1, <1>2, <2>1 DEF NameState, Object
  <2>3. /\ s.tag = i /\ t.calls = <<>>
        /\ \A j \in Ids : j # i => s.obj[j].stage \notin {"active", "cancelling"}
    BY <1>5, <1>12, <2>1 DEF Chain
  <2>. HIDE DEF t
  <2>4. InPlace(t, ch, up, old)
    BY <1>1, <2>2 DEF Orderly, InPlace, Chain
  <2>5. InLine(t, ch, up)
    BY <2>2, <2>3 DEF InLine
  <2>6. ChainIsLast(t, ch)
    BY <2>2, <2>3 DEF Orderly, ChainIsLast, Chain
  <2>7. Reachable(t) /\ Single(t)
    BY <2>1, <2>2, <2>3 DEF Reachable, Single, Consuming
  <2>8. Alive(t, ch, up)
    BY <2>1, <2>2, <2>3 DEF Alive
  <2>9. Orderly(t, ch, up, old)
    BY <2>4, <2>5, <2>6, <2>7, <2>8 DEF Orderly
  <2>. QED
    BY <2>9 DEF t
<1>13. CASE s.obj[i].stage = "cancelling"
  <2>. DEFINE t == Reply(s)
  <2>1. /\ t.tag = s.tag
        /\ t.calls = rest
        /\ t.obj = [s.obj EXCEPT ![i] = [s.obj[i] EXCEPT !.stage = "idle"]]
    BY <1>1, <1>13 DEF Reply, Step, Set, NameState
  <2>2. /\ \A j \in Ids : j # i => t.obj[j] = s.obj[j]
        /\ t.obj[i].stage = "idle"
    BY <1>1, <2>1 DEF NameState, Object
  <2>3. s.tag # i
    BY <1>1, <1>13 DEF Orderly, InLine
  <2>. HIDE DEF t
  <2>4. InPlace(t, ch, up, old)
    BY <1>1, <2>2 DEF Orderly, InPlace, Chain
  <2>5. InLine(t, ch, up)
    <3>1. \A k \in 1 .. Len(rest) :
            /\ t.obj[rest[k]].stage \in Chain \cup {"cancelling"}
            /\ t.obj[rest[k]].link = ch
      BY <1>1, <1>3, <2>2 DEF Orderly, InLine
    <3>2. \A k, l \in 1 .. Len(rest) : rest[k] = rest[l] => k = l
      BY <1>1 DEF Orderly, InLine
    <3>3. \A j \in Ids : t.obj[j].stage = "cancelling" =>
            t.tag # j /\ \E k \in 1 .. Len(rest) : rest[k] = j
      BY <1>4, <2>1, <2>2 DEF Orderly, InLine
    <3>. QED
      BY <3>1, <3>2, <3>3, <2>1 DEF InLine
  <2>6. ChainIsLast(t, ch)
    <3>1. SUFFICES ASSUME NEW j \in Ids, t.obj[j].stage \in Chain, t.obj[j].link = ch
                   PROVE  t.tag = j /\ t.calls # <<>> /\ t.calls[Len(t.calls)] = j
      BY DEF ChainIsLast
    <3>2. j # i /\ s.tag = j /\ s.calls[Len(s.calls)] = j
      BY <3>1, <2>2 DEF Orderly, ChainIsLast, Chain
    <3>3. Len(s.calls) # 1
      BY <3>2, <1>1
    <3>4. Len(rest) \in Nat \ {0} /\ rest[Len(rest)] = s.calls[Len(s.calls)]
      <4>. HIDE DEF rest
      <4>1. Len(rest) \in Nat \ {0} /\ Len(s.calls) = Len(rest) + 1
        BY <3>3, <1>1
      <4>2. Len(rest) \in 1 .. Len(rest)
        BY <4>1
      <4>3. rest[Len(rest)] = s.calls[Len(rest) + 1]
        BY <4>2, <1>1
      <4>. QED
        BY <4>1, <4>3
    <3>5. rest # <<>>
      BY <3>4, EmptySeq
    <3>. QED
      BY <3>2, <3>4, <3>5, <2>1
  <2>7. Reachable(t)
    BY <2>1, <2>2 DEF Orderly, Reachable
  <2>8. Single(t)
    BY <2>2 DEF Orderly, Single, Consuming
  <2>9. Alive(t, ch, up)
    BY <2>1, <2>2, <2>3 DEF Orderly, Alive, NameState
  <2>10. Orderly(t, ch, up, old)
    BY <2>4, <2>5, <2>6, <2>7, <2>8, <2>9 DEF Orderly
  <2>. QED
    BY <2>10 DEF t
<1>. QED
  BY <1>2, <1>9, <1>10, <1>11, <1>12, <1>13 DEF Chain

(* The end of a link that is not the one in use, while there is one or a   *)
(* channel is being prepared: whatever is not crossed does not notice.     *)
LEMMA RejectElsewhereOrderly ==
    ASSUME NEW s \in NameState, NEW g \in Links, NEW h \in Links,
           NEW ch \in Links \cup {NoLink}, NEW up \in BOOLEAN, up => ch # g,
           NEW old \in SUBSET Links, Orderly(s, ch, up, old),
           ~Reject(s, g, h).crossed
    PROVE  Orderly(Reject(s, g, h), ch, up, old \ {g})
<1>. DEFINE t == Reject(s, g, h)
            here == {i \in Ids : s.obj[i].link = g}
            out == {i \in here : s.obj[i].stage \in Outstanding}
<1>1. h # NoLink
  BY DEF Links, NoLink
<1>2. out = {}
  BY <1>1 DEF Reject, NameState
<1>3. t.tag = s.tag
  BY <1>2 DEF Reject, NameState
<1>4. t.calls = s.calls
  <2>1. SetToSeq({}) = <<>>
    BY SetToSeqType, FS_EmptySet, EmptySeq, SeqDef
  <2>2. t.calls = s.calls \o SetToSeq({})
    BY <1>1, <1>2 DEF Reject, NameState
  <2>. QED
    BY <2>1, <2>2, ConcatEmptySeq DEF NameState
<1>5. \A i \in Ids : /\ s.obj[i].link # g => t.obj[i] = s.obj[i]
                     /\ t.obj[i].link = s.obj[i].link
                     /\ s.obj[i].link = g => t.obj[i].stage \in {"idle", "lost"}
                     /\ t.obj[i].stage = "lost" => s.obj[i].stage \in {"lost", "active"}
  BY <1>2 DEF Reject, NameState, Object, Stage
<1>6. \A i \in Ids : s.obj[i].stage \in Outstanding => s.obj[i].link # g
  BY <1>2
<1>. HIDE DEF t, here, out
<1>7. \A i \in Ids : s.obj[i].link = g => s.obj[i].stage \in {"idle", "lost"}
  BY <1>6 DEF Orderly, InPlace, NameState, Object, Stage
<1>8. \A i \in Ids : \/ t.obj[i].stage = s.obj[i].stage
                     \/ (s.obj[i].link = g /\ s.obj[i].stage \in {"idle", "lost"})
  BY <1>5, <1>7
<1>9. InPlace(t, ch, up, old \ {g})
  BY <1>5, <1>6, <1>7, <1>8 DEF Orderly, InPlace, Outstanding, Chain
<1>10. \A k \in 1 .. Len(s.calls) : s.calls[k] \in Ids /\ s.obj[s.calls[k]].link # g
  BY <1>6, ElementOfSeq DEF Orderly, InLine, NameState, Outstanding
<1>11. InLine(t, ch, up)
  <2>1. \A i \in Ids : t.obj[i].stage = "cancelling" => s.obj[i].stage = "cancelling"
    BY <1>5
  <2>2. \A k \in 1 .. Len(s.calls) : t.obj[s.calls[k]] = s.obj[s.calls[k]]
    BY <1>5, <1>10
  <2>. QED
    BY <1>3, <1>4, <2>1, <2>2 DEF Orderly, InLine
<1>12. ChainIsLast(t, ch)
  BY <1>3, <1>4, <1>5 DEF Orderly, ChainIsLast, Chain
<1>13. Reachable(t) /\ Single(t)
  BY <1>3, <1>5 DEF Orderly, Reachable, Single, Consuming
<1>14. Alive(t, ch, up)
  BY <1>3, <1>5 DEF Orderly, Alive, NameState
<1>15. Orderly(t, ch, up, old \ {g})
  BY <1>9, <1>11, <1>12, <1>13, <1>14 DEF Orderly
<1>. QED
  BY <1>15 DEF t

(* The end of a link when no channel can be used afterwards: no calls and  *)
(* no consumers are left.                                                  *)
LEMMA RejectAllOrderly ==
    ASSUME NEW s \in NameState, NEW g \in Links,
           NEW ch \in Links \cup {NoLink}, NEW up \in BOOLEAN, up => ch = g,
           NEW old \in SUBSET Links, Orderly(s, ch, up, old), ch \notin old
    PROVE  Orderly(Reject(s, g, NoLink), ch, FALSE, old \ {g})
<1>. DEFINE t == Reject(s, g, NoLink)
            here == {i \in Ids : s.obj[i].link = g}
<1>1. t.calls = <<>>
  <2>1. SetToSeq({}) = <<>>
    BY SetToSeqType, FS_EmptySet, EmptySeq, SeqDef
  <2>2. t.calls = <<>> \o SetToSeq({})
    BY DEF Reject, NameState
  <2>. QED
    BY <2>1, <2>2
<1>2. \A i \in Ids : /\ s.obj[i].link # g => t.obj[i] = s.obj[i]
                     /\ t.obj[i].link = s.obj[i].link
                     /\ s.obj[i].link = g => t.obj[i].stage \in {"idle", "lost"}
  BY DEF Reject, NameState, Object, Stage, NoLink
<1>. HIDE DEF t
<1>3. \A i \in Ids : t.obj[i].stage \notin {"active", "cancelling", "moved"}
  BY <1>2 DEF Orderly, InPlace
<1>4. \A i \in Ids : t.obj[i].stage \in Chain =>
        t.obj[i].link # g /\ t.obj[i].link \in old
  BY <1>2 DEF Orderly, InPlace, Chain
<1>5. InPlace(t, ch, FALSE, old \ {g})
  BY <1>3, <1>4 DEF InPlace
<1>6. InLine(t, ch, FALSE)
  BY <1>1, <1>3 DEF InLine
<1>7. ChainIsLast(t, ch)
  BY <1>4 DEF ChainIsLast
<1>8. Reachable(t) /\ Single(t) /\ Alive(t, ch, FALSE)
  BY <1>3 DEF Reachable, Single, Consuming, Alive
<1>9. Orderly(t, ch, FALSE, old \ {g})
  BY <1>5, <1>6, <1>7, <1>8 DEF Orderly
<1>. QED
  BY <1>9 DEF t

(* close(): what is under way is under way on a closing channel. *)
LEMMA ForgetOrderly ==
    ASSUME NEW s \in NameState, NEW ch \in Links,
           NEW old \in SUBSET Links, Orderly(s, ch, TRUE, old)
    PROVE  Orderly(Forget(s), NoLink, FALSE, old \cup {ch})
<1>. DEFINE t == Forget(s)
<1>1. t.tag = NoId /\ t.calls = <<>>
  BY DEF Forget, NameState
<1>2. \A i \in Ids :
        /\ t.obj[i].link = s.obj[i].link
        /\ t.obj[i].stage = IF s.obj[i].stage \in {"active", "lost", "cancelling"}
                            THEN "idle" ELSE s.obj[i].stage
  BY DEF Forget, NameState, Object
<1>. HIDE DEF t
<1>3. \A i \in Ids : t.obj[i].stage \notin {"active", "lost", "cancelling", "moved"}
  BY <1>2 DEF Orderly, InPlace
<1>4. \A i \in Ids : t.obj[i].stage \in Chain => t.obj[i].link \in old \cup {ch}
  BY <1>2 DEF Orderly, InPlace, Chain
<1>5. InPlace(t, NoLink, FALSE, old \cup {ch})
  BY <1>3, <1>4 DEF InPlace
<1>6. InLine(t, NoLink, FALSE)
  BY <1>1, <1>3 DEF InLine
<1>7. ChainIsLast(t, NoLink)
  BY <1>4 DEF ChainIsLast, Links, NoLink
<1>8. Reachable(t) /\ Single(t) /\ Alive(t, NoLink, FALSE)
  BY <1>3 DEF Reachable, Single, Consuming, Alive
<1>9. Orderly(t, NoLink, FALSE, old \cup {ch})
  BY <1>5, <1>6, <1>7, <1>8 DEF Orderly
<1>. QED
  BY <1>9 DEF t

(* A component that begins to use a channel has nothing under way on it. *)
LEMMA StartOrderly ==
    ASSUME NEW s \in NameState, NEW ch, NEW old, Orderly(s, ch, FALSE, old),
           s.tag = NoId, \A i \in Ids : s.obj[i].stage # "lost",
           NEW new, new \notin old, NEW up
    PROVE  Orderly(s, new, up, old)
<1>1. s.calls = <<>>
  BY DEF Orderly, InLine
<1>2. \A i \in Ids : /\ s.obj[i].stage \notin {"active", "cancelling"}
                     /\ s.obj[i].stage \in Chain => s.obj[i].link \in old
  BY DEF Orderly, InPlace
<1>3. InPlace(s, new, up, old)
  BY <1>2 DEF Orderly, InPlace
<1>4. InLine(s, new, up)
  BY <1>1, <1>2 DEF InLine
<1>5. ChainIsLast(s, new)
  BY <1>2 DEF ChainIsLast
<1>6. Reachable(s) /\ Single(s) /\ Alive(s, new, up)
  BY <1>2 DEF Reachable, Single, Consuming, Alive
<1>. QED
  BY <1>3, <1>4, <1>5, <1>6 DEF Orderly

(* The application's calls.  While the component is not connected they     *)
(* only touch the buffer.                                                  *)
LEMMA RequestOrderly ==
    ASSUME NEW s \in NameState, NEW c \in Callbacks, Room(s) \/ s.tag # NoId,
           NEW ch \in Links \cup {NoLink}, NEW up \in BOOLEAN, up => ch # NoLink,
           NEW old \in SUBSET Links, ch \notin old, Orderly(s, ch, up, old)
    PROVE  Orderly(Request(s, TRUE, IF up THEN ch ELSE NoLink, c), ch, up, old)
<1>. DEFINE g == IF up THEN ch ELSE NoLink
            t == Subscribe(s, g, c)
<1>1. t \in NameState
  BY SubscribeType
<1>2. Orderly(t, ch, up, old)
  BY SubscribeOrderly
<1>. DEFINE r == Request(s, TRUE, g, c)
<1>3. r.obj = t.obj /\ r.tag = t.tag /\ r.calls = t.calls
  <2>1. r = [t EXCEPT !.want = IF s.tag # NoId /\ ~s.obj[s.tag].cancel THEN s.want ELSE c]
    BY DEF Request
  <2>. HIDE DEF t
  <2>. QED
    BY <1>1, <2>1 DEF NameState
<1>. HIDE DEF t, r
<1>4. Orderly(r, ch, up, old)
  BY <1>2, <1>3, OrderlyFrame
<1>. QED
  BY <1>4 DEF r

LEMMA UnrequestOrderly ==
    ASSUME NEW s \in NameState,
           NEW ch \in Links \cup {NoLink}, NEW up \in BOOLEAN, up => ch # NoLink,
           NEW old \in SUBSET Links, ch \notin old, Orderly(s, ch, up, old)
    PROVE  Orderly(Unrequest(s, TRUE, IF up THEN ch ELSE NoLink), ch, up, old)
<1>. DEFINE g == IF up THEN ch ELSE NoLink
            t == Withdraw(s, g)
            r == Unrequest(s, TRUE, g)
<1>1. t \in NameState
  BY WithdrawType
<1>2. Orderly(t, ch, up, old)
  BY WithdrawOrderly
<1>3. r.obj = t.obj /\ r.tag = t.tag /\ r.calls = t.calls
  <2>1. r = [t EXCEPT !.want = None, !.stray = s.stray \/ Leftover(t)]
    BY DEF Unrequest
  <2>. HIDE DEF t
  <2>. QED
    BY <1>1, <2>1 DEF NameState
<1>. HIDE DEF t, r
<1>4. Orderly(r, ch, up, old)
  BY <1>2, <1>3, OrderlyFrame
<1>. QED
  BY <1>4 DEF r

LEMMA ListenOrderly ==
    ASSUME NEW s \in NameState, NEW e \in ListenerCalls, Room(s),
           NEW ch \in Links, NEW old \in SUBSET Links, ch \notin old,
           Orderly(s, ch, TRUE, old)
    PROVE  Orderly(Listen(s, ch, e), ch, TRUE, old)
<1>1. ch # NoLink /\ ch = IF TRUE THEN ch ELSE NoLink
  BY DEF Links, NoLink
<1>2. CASE e = "unsubscribe"
  <2>1. Listen(s, ch, e) = Unrequest(s, TRUE, ch)
    BY <1>2, ListenerAssumption DEF Listen
  <2>2. Orderly(Unrequest(s, TRUE, IF TRUE THEN ch ELSE NoLink), ch, TRUE, old)
    BY <1>1, UnrequestOrderly
  <2>. QED
    BY <2>1, <2>2
<1>3. CASE e \in Callbacks
  <2>1. Listen(s, ch, e) = Request(s, TRUE, ch, e)
    BY <1>3, ListenerAssumption DEF Listen
  <2>2. Orderly(Request(s, TRUE, IF TRUE THEN ch ELSE NoLink, e), ch, TRUE, old)
    BY <1>1, <1>3, RequestOrderly
  <2>. QED
    BY <2>1, <2>2
<1>4. CASE e = "nothing"
  <2>1. Listen(s, ch, e) = s
    BY <1>4, ListenerAssumption DEF Listen
  <2>. QED
    BY <2>1
<1>. QED
  BY <1>2, <1>3, <1>4, ListenerAssumption

LEMMA ApplyBufferOrderly ==
    ASSUME NEW s \in NameState, Room(s) \/ s.tag # NoId,
           NEW ch \in Links, NEW old \in SUBSET Links, ch \notin old,
           Orderly(s, ch, TRUE, old)
    PROVE  Orderly(ApplyBuffer(s, ch), ch, TRUE, old)
<1>. DEFINE t == Subscribe(s, ch, s.buffered)
            r == ApplyBuffer(s, ch)
<1>1. CASE s.buffered = None
  BY <1>1 DEF ApplyBuffer
<1>2. CASE s.buffered # None
  <2>1. s.buffered \in Callbacks
    BY <1>2 DEF NameState
  <2>2. t \in NameState
    BY <2>1, SubscribeType
  <2>3. Orderly(Subscribe(s, IF TRUE THEN ch ELSE NoLink, s.buffered), ch, TRUE, old)
    <3>1. ch # NoLink
      BY DEF Links, NoLink
    <3>. QED
      BY <2>1, <3>1, SubscribeOrderly
  <2>4. Orderly(t, ch, TRUE, old)
    BY <2>3
  <2>5. r.obj = t.obj /\ r.tag = t.tag /\ r.calls = t.calls
    <3>1. r = [t EXCEPT !.buffered = None]
      BY <1>2 DEF ApplyBuffer
    <3>. HIDE DEF t
    <3>. QED
      BY <2>2, <3>1 DEF NameState
  <2>. HIDE DEF t, r
  <2>6. Orderly(r, ch, TRUE, old)
    BY <2>4, <2>5, OrderlyFrame
  <2>. QED
    BY <2>6 DEF r
<1>. QED
  BY <1>1, <1>2

LEMMA ExpireOrderly ==
    ASSUME NEW s \in NameState, NEW i \in Timers(s), Room(s),
           NEW ch \in Links \cup {NoLink}, NEW up \in BOOLEAN, up => ch # NoLink,
           NEW old \in SUBSET Links, ch \notin old, Orderly(s, ch, up, old),
           NEW con \in BOOLEAN, NEW g, con => g = IF up THEN ch ELSE NoLink
    PROVE  Orderly(Expire(s, i, con, g), ch, up, old)
<1>. DEFINE c == s.obj[i].timer
            t == Set(s, i, [s.obj[i] EXCEPT !.timer = None])
            r == Expire(s, i, con, g)
<1>1. i \in Ids /\ c \in Callbacks
  BY DEF Timers, NameState, Object
<1>2. [s.obj[i] EXCEPT !.timer = None] \in Object
  BY <1>1 DEF NameState, Object
<1>3. t \in NameState
  BY <1>1, <1>2, SetType
<1>4. /\ t.tag = s.tag /\ t.calls = s.calls
      /\ \A j \in Ids : t.obj[j].stage = s.obj[j].stage /\ t.obj[j].link = s.obj[j].link
  BY <1>1 DEF Set, NameState, Object
<1>5. Room(t)
  BY <1>1 DEF Room, Spare, Set, NameState, Object, Timers
<1>6. r = IF con THEN Subscribe(t, g, c) ELSE [t EXCEPT !.buffered = c]
  BY DEF Expire
<1>. HIDE DEF t, r, c
<1>7. Orderly(t, ch, up, old)
  BY <1>3, <1>4, OrderlyMark
<1>8. CASE con
  <2>1. Orderly(Subscribe(t, IF up THEN ch ELSE NoLink, c), ch, up, old)
    BY <1>1, <1>3, <1>5, <1>7, SubscribeOrderly
  <2>2. Orderly(r, ch, up, old)
    BY <1>6, <1>8, <2>1
  <2>. QED
    BY <2>2 DEF r
<1>9. CASE ~con
  <2>1. r.obj = t.obj /\ r.tag = t.tag /\ r.calls = t.calls
    BY <1>3, <1>6, <1>9 DEF NameState
  <2>2. Orderly(r, ch, up, old)
    BY <1>7, <2>1, OrderlyFrame
  <2>. QED
    BY <2>2 DEF r
<1>. QED
  BY <1>8, <1>9

-----------------------------------------------------------------------------
(* The steps. *)

(* What the link's invariant says of the channel in use. *)
LEMMA UsableIsUp ==
    ASSUME ConnTypeOK, LinkInv
    PROVE  /\ Up \in BOOLEAN
           /\ Up => channel # NoLink
           /\ connected => Usable = IF Up THEN channel ELSE NoLink
           /\ channel \in Links \cup {NoLink}
           /\ channel \notin Closing
           /\ Closing \in SUBSET Links
BY DEF ConnTypeOK, LinkInv, Up, Usable, Sendable, Closing, ConnStage, ChanStage

(* Handlers of one name keep the record of what was crossed, and while the *)
(* component is not connected they begin and end nothing.                  *)
LEMMA SubscribeKeeps ==
    ASSUME NEW s \in NameState, NEW g \in Links \cup {NoLink}, NEW c \in Callbacks
    PROVE  Subscribe(s, g, c).crossed = s.crossed
BY DEF Subscribe, Wait, Set, NameState

LEMMA RequestKeeps ==
    ASSUME NEW s \in NameState, NEW con \in BOOLEAN, NEW g \in Links \cup {NoLink},
           NEW c \in Callbacks, Room(s) \/ s.tag # NoId
    PROVE  /\ Request(s, con, g, c).crossed = s.crossed
           /\ ~con => /\ Request(s, con, g, c).tag = s.tag
                      /\ Request(s, con, g, c).obj = s.obj
                      /\ Request(s, con, g, c).calls = s.calls
<1>. DEFINE t == Subscribe(s, g, c)
            w == IF s.tag # NoId /\ ~s.obj[s.tag].cancel THEN s.want ELSE c
<1>1. CASE con
  <2>1. Request(s, con, g, c) = [t EXCEPT !.want = w]
    BY <1>1 DEF Request
  <2>2. t \in NameState /\ t.crossed = s.crossed
    BY SubscribeType, SubscribeKeeps
  <2>. HIDE DEF t, w
  <2>3. [t EXCEPT !.want = w].crossed = t.crossed
    BY <2>2 DEF NameState
  <2>. QED
    BY <1>1, <2>1, <2>2, <2>3
<1>2. CASE ~con
  BY <1>2 DEF Request, NameState
<1>. QED
  BY <1>1, <1>2

LEMMA UnrequestKeeps ==
    ASSUME NEW s \in NameState, NEW con \in BOOLEAN, NEW g \in Links \cup {NoLink}
    PROVE  /\ Unrequest(s, con, g).crossed = s.crossed
           /\ ~con => /\ Unrequest(s, con, g).tag = s.tag
                      /\ Unrequest(s, con, g).obj = s.obj
                      /\ Unrequest(s, con, g).calls = s.calls
<1>. DEFINE t == IF con THEN Withdraw(s, g) ELSE [s EXCEPT !.buffered = None]
<1>1. t \in NameState /\ t.crossed = s.crossed
  <2>1. Withdraw(s, g) \in NameState
    BY WithdrawType
  <2>2. Withdraw(s, g).crossed = s.crossed
    BY DEF Withdraw, CancelLater, Set, NameState
  <2>. QED
    BY <2>1, <2>2 DEF NameState
<1>2. ~con => t.tag = s.tag /\ t.obj = s.obj /\ t.calls = s.calls
  BY DEF NameState
<1>3. Unrequest(s, con, g) = [t EXCEPT !.want = None, !.stray = s.stray \/ Leftover(t)]
  BY DEF Unrequest
<1>. HIDE DEF t
<1>. QED
  BY <1>1, <1>2, <1>3 DEF NameState

LEMMA ReplyKeeps ==
    ASSUME NEW s \in NameState, s.calls # <<>>
    PROVE  Reply(s).crossed = s.crossed
<1>1. \A i, stage, q : Step(s, i, stage, q).crossed = s.crossed
  BY DEF Step, Set, NameState
<1>2. \A i, rest : Consumed(s, i, rest).crossed = s.crossed
  BY <1>1 DEF Consumed, Step, Set, NameState
<1>. QED
  BY <1>1, <1>2 DEF Reply

LEMMA ExpireKeeps ==
    ASSUME NEW s \in NameState, NEW i \in Timers(s), NEW con \in BOOLEAN,
           NEW g \in Links \cup {NoLink}, Room(s)
    PROVE  /\ Expire(s, i, con, g).crossed = s.crossed
           /\ ~con => /\ Expire(s, i, con, g).tag = s.tag
                      /\ \A j \in Ids : Expire(s, i, con, g).obj[j].stage = s.obj[j].stage
<1>. DEFINE c == s.obj[i].timer
            t == Set(s, i, [s.obj[i] EXCEPT !.timer = None])
<1>1. i \in Ids /\ c \in Callbacks
  BY DEF Timers, NameState, Object
<1>2. [s.obj[i] EXCEPT !.timer = None] \in Object
  BY <1>1 DEF NameState, Object
<1>3. t \in NameState
  BY <1>1, <1>2, SetType
<1>4. t.tag = s.tag /\ t.crossed = s.crossed /\ \A j \in Ids : t.obj[j].stage = s.obj[j].stage
  BY <1>1 DEF Set, NameState, Object
<1>5. Expire(s, i, con, g) = IF con THEN Subscribe(t, g, c) ELSE [t EXCEPT !.buffered = c]
  BY DEF Expire
<1>. HIDE DEF t, c
<1>6. Subscribe(t, g, c).crossed = t.crossed
  BY <1>1, <1>3, SubscribeKeeps
<1>. QED
  BY <1>3, <1>4, <1>5, <1>6 DEF NameState

LEMMA ApplyBufferKeeps ==
    ASSUME NEW s \in NameState, NEW g \in Links, Room(s) \/ s.tag # NoId
    PROVE  ApplyBuffer(s, g).crossed = s.crossed
<1>1. CASE s.buffered = None
  BY <1>1 DEF ApplyBuffer
<1>2. CASE s.buffered # None
  <2>. DEFINE t == Subscribe(s, g, s.buffered)
  <2>1. s.buffered \in Callbacks
    BY <1>2 DEF NameState
  <2>2. t \in NameState /\ t.crossed = s.crossed
    BY <2>1, SubscribeType, SubscribeKeeps
  <2>3. ApplyBuffer(s, g) = [t EXCEPT !.buffered = None]
    BY <1>2 DEF ApplyBuffer
  <2>. HIDE DEF t
  <2>. QED
    BY <2>2, <2>3 DEF NameState
<1>. QED
  BY <1>1, <1>2

LEMMA ListenKeeps ==
    ASSUME NEW s \in NameState, NEW g \in Links, NEW e \in ListenerCalls, Room(s)
    PROVE  Listen(s, g, e).crossed = s.crossed
<1>1. \A con \in BOOLEAN : Unrequest(s, con, g).crossed = s.crossed
  BY UnrequestKeeps
<1>2. \A c \in Callbacks, con \in BOOLEAN : Request(s, con, g, c).crossed = s.crossed
  BY RequestKeeps
<1>. QED
  BY <1>1, <1>2 DEF Listen

LEMMA RejectKeeps ==
    ASSUME NEW s \in NameState, NEW g \in Links, NEW h \in Links \cup {NoLink}
    PROVE  /\ s.crossed => Reject(s, g, h).crossed
           /\ s.tag = NoId => Reject(s, g, h).tag = NoId
           /\ s.tag = NoId => \A i \in Ids :
                Reject(s, g, h).obj[i].stage = "lost" => s.obj[i].stage = "lost"
BY IdsAssumption DEF Reject, NameState, Object

(* A channel that is over, whether it was in use or not. *)
LEMMA LinkOver ==
    ASSUME ConnTypeOK, LinkInv, NEW s \in NameState, NEW g \in Links,
           chan' = [chan EXCEPT ![g] = "down"], connected' = connected, channel' = channel,
           NEW h, h = IF channel = g THEN NoLink ELSE Usable,
           Orderly(s, channel, Up, Closing), ~Reject(s, g, h).crossed
    PROVE  Orderly(Reject(s, g, h), channel', Up', Closing')
<1>1. Closing' = Closing \ {g}
  BY DEF Closing, ConnTypeOK
<1>2. CASE channel = g
  <2>1. ~Up' /\ Up' \in BOOLEAN
    BY <1>2 DEF Up, ConnTypeOK
  <2>2. Orderly(Reject(s, g, NoLink), channel, FALSE, Closing \ {g})
    BY <1>2, UsableIsUp, RejectAllOrderly
  <2>. QED
    BY <1>1, <1>2, <2>1, <2>2
<1>3. CASE channel # g /\ Usable = NoLink
  <2>1. ~Up
    BY <1>3, UsableIsUp DEF Up
  <2>2. ~Up' /\ Up' \in BOOLEAN
    BY <2>1, <1>3 DEF Up, ConnTypeOK
  <2>3. Orderly(Reject(s, g, NoLink), channel, FALSE, Closing \ {g})
    BY <2>1, UsableIsUp, RejectAllOrderly
  <2>. QED
    BY <1>1, <1>3, <2>2, <2>3
<1>4. CASE channel # g /\ Usable # NoLink
  <2>1. Up' = Up
    BY <1>4, UsableIsUp DEF Up, ConnTypeOK
  <2>2. Usable \in Links
    BY <1>4 DEF Usable, ConnTypeOK
  <2>3. Orderly(Reject(s, g, Usable), channel, Up, Closing \ {g})
    BY <1>4, <2>2, UsableIsUp, RejectElsewhereOrderly
  <2>. QED
    BY <1>1, <1>4, <2>1, <2>3
<1>. QED
  BY <1>2, <1>3, <1>4

LEMMA SubInvInit == Init => SubInv
<1>. SUFFICES ASSUME Init PROVE SubInv
  OBVIOUS
<1>1. ASSUME NEW n \in Names
      PROVE  /\ sub[n].tag = NoId /\ sub[n].calls = <<>>
             /\ \A i \in Ids : sub[n].obj[i].stage = "idle"
  BY DEF Init, NoSubscription, NoObject
<1>2. ASSUME NEW n \in Names, NEW ch, NEW old
      PROVE  Orderly(sub[n], ch, FALSE, old)
  BY <1>1 DEF Orderly, InPlace, InLine, ChainIsLast, Reachable, Single, Consuming,
              Alive, Chain
<1>3. ~Up /\ Up \in BOOLEAN
  BY DEF Up, Init, ConnInit
<1>. QED
  BY <1>1, <1>2, <1>3 DEF SubInv, NameInv

(* The link gets ready for use. *)
LEMMA SubInvLink ==
    ASSUME TypeOK, LinkInv, SubInv, sub' = sub, NEW g \in Links,
           \/ Open(g) \/ ConnectionOpened(g) \/ ConnectFailed(g)
           \/ ChannelOpened(g) \/ ConnectionClosed(g)
    PROVE  SubInv'
<1>. SUFFICES ASSUME NEW n \in Names PROVE NameInv(n)'
  BY DEF SubInv
<1>1. NameInv(n) /\ sub[n] \in NameState
  BY DEF SubInv, TypeOK
<1>2. connected' = connected
  BY DEF Open, Connect, ConnectionOpened, ConnectFailed, ChannelOpened, ConnectionClosed
<1>3. Closing' = Closing
  BY DEF Open, Connect, ConnectionOpened, ConnectFailed, ChannelOpened, ConnectionClosed,
         Closing, TypeOK, ConnTypeOK, LinkInv
<1>4. CASE channel' = channel
  <2>1. Up' = Up
    BY <1>2, <1>4 DEF Open, Connect, ConnectionOpened, ConnectFailed, ChannelOpened,
         ConnectionClosed, Up, TypeOK, ConnTypeOK, LinkInv, Attempting
  <2>. QED
    BY <1>1, <1>2, <1>3, <1>4, <2>1 DEF NameInv
<1>5. CASE channel' # channel
  <2>1. ~connected /\ channel' = g /\ g \notin Closing
    BY <1>5 DEF Open, Connect, ConnectionOpened, ConnectFailed, ChannelOpened,
         ConnectionClosed, Closing, LinkInv, Attempting
  <2>2. Up = FALSE /\ Up' = FALSE
    BY <1>2, <2>1 DEF Up
  <2>3. ~sub[n].crossed => Orderly(sub[n], g, FALSE, Closing)
    BY <1>1, <2>1, <2>2, StartOrderly DEF NameInv
  <2>. QED
    BY <1>1, <1>2, <1>3, <2>1, <2>2, <2>3 DEF NameInv
<1>. QED
  BY <1>4, <1>5

(* The component becomes connected. *)
LEMMA SubInvAttach ==
    ASSUME TypeOK, LinkInv, SubInv, NEW g \in Links, Attach(g)
    PROVE  SubInv'
<1>1. PICK e \in [Names -> ListenerCalls] :
        sub' = [n \in Names |-> ApplyBuffer(Listen(sub[n], g, e[n]), g)]
  BY DEF Attach
<1>2. /\ chan[g] = "declaring" /\ channel = g /\ channel' = g
      /\ ~connected /\ connected'
      /\ chan' = [chan EXCEPT ![g] = "up"]
  BY DEF Attach, ExchangeDeclared, LinkInv, Attempting
<1>3. Closing' = Closing /\ g \notin Closing /\ Closing \in SUBSET Links
  BY <1>2 DEF Closing, TypeOK, ConnTypeOK
<1>4. Up = FALSE /\ Up' = TRUE
  BY <1>2 DEF Up, TypeOK, ConnTypeOK, Links, NoLink
<1>. SUFFICES ASSUME NEW n \in Names PROVE NameInv(n)'
  BY DEF SubInv
<1>5. NameInv(n) /\ sub[n] \in NameState /\ Room(sub[n])
  BY DEF SubInv, TypeOK, Attach
<1>. DEFINE t == Listen(sub[n], g, e[n])
<1>6. t \in NameState /\ (Room(t) \/ t.tag # NoId)
  BY <1>5, ListenType
<1>7. t.crossed = sub[n].crossed /\ ApplyBuffer(t, g).crossed = t.crossed
  BY <1>5, <1>6, ListenKeeps, ApplyBufferKeeps
<1>8. ASSUME ~sub[n].crossed PROVE Orderly(ApplyBuffer(t, g), g, TRUE, Closing)
  <2>1. Orderly(sub[n], g, FALSE, Closing)
    BY <1>2, <1>4, <1>5, <1>8 DEF NameInv
  <2>2. Orderly(sub[n], g, TRUE, Closing)
    BY <1>2, <1>3, <1>5, <2>1, StartOrderly DEF NameInv
  <2>3. Orderly(t, g, TRUE, Closing)
    BY <1>3, <1>5, <2>2, ListenOrderly
  <2>. QED
    BY <1>3, <1>6, <2>3, ApplyBufferOrderly
<1>9. sub'[n] = ApplyBuffer(t, g)
  BY <1>1
<1>. QED
  BY <1>2, <1>3, <1>4, <1>7, <1>8, <1>9 DEF NameInv

(* A channel or connection is over. *)
LEMMA SubInvOver ==
    ASSUME TypeOK, LinkInv, SubInv, NEW g \in Links, Lose(g) \/ Settle(g)
    PROVE  SubInv'
<1>. DEFINE h == IF channel = g THEN NoLink ELSE Usable
<1>1. /\ chan' = [chan EXCEPT ![g] = "down"]
      /\ connected' = connected /\ channel' = channel
  BY DEF Lose, ChannelLost, ConnectionLost, Settle, ChannelClosed
<1>2. sub' = [n \in Names |-> Reject(sub[n], g, h)]
  BY DEF Lose, Settle, ChannelClosed, LinkInv
<1>3. h \in Links \cup {NoLink}
  BY DEF Usable, TypeOK, ConnTypeOK
<1>. HIDE DEF h
<1>. SUFFICES ASSUME NEW n \in Names PROVE NameInv(n)'
  BY DEF SubInv
<1>4. NameInv(n) /\ sub[n] \in NameState /\ sub'[n] = Reject(sub[n], g, h)
  BY <1>2 DEF SubInv, TypeOK
<1>5. ASSUME ~sub'[n].crossed
      PROVE  Orderly(sub'[n], channel', Up', Closing')
  <2>1. ~sub[n].crossed
    BY <1>3, <1>4, <1>5, RejectKeeps
  <2>2. Orderly(sub[n], channel, Up, Closing)
    BY <1>4, <2>1 DEF NameInv
  <2>. QED
    BY <1>1, <1>4, <1>5, <2>2, LinkOver DEF TypeOK, h
<1>6. ASSUME ~connected'
      PROVE  sub'[n].tag = NoId /\ \A i \in Ids : sub'[n].obj[i].stage # "lost"
  BY <1>1, <1>3, <1>4, <1>6, RejectKeeps DEF NameInv
<1>. QED
  BY <1>5, <1>6 DEF NameInv

LEMMA SubInvDetach ==
    ASSUME TypeOK, LinkInv, SubInv, Detach
    PROVE  SubInv'
<1>1. /\ connected /\ ~connected' /\ channel' = NoLink /\ channel \in Links
      /\ chan[channel] = "up" /\ chan' = [chan EXCEPT ![channel] = "closing"]
  BY DEF Detach, Close, Sendable, TypeOK, ConnTypeOK, LinkInv
<1>2. Up = TRUE /\ Up' = FALSE /\ Closing' = Closing \cup {channel}
      /\ Closing \in SUBSET Links
  BY <1>1 DEF Up, Closing, TypeOK, ConnTypeOK, Links, NoLink
<1>. SUFFICES ASSUME NEW n \in Names PROVE NameInv(n)'
  BY DEF SubInv
<1>3. NameInv(n) /\ sub[n] \in NameState /\ sub'[n] = Forget(sub[n])
  BY DEF SubInv, TypeOK, Detach
<1>4. /\ sub'[n].tag = NoId
      /\ sub'[n].crossed = sub[n].crossed
      /\ \A i \in Ids : sub'[n].obj[i].stage # "lost"
  BY <1>3 DEF Forget, NameState, Object
<1>5. ASSUME ~sub[n].crossed
      PROVE  Orderly(sub'[n], NoLink, FALSE, Closing \cup {channel})
  BY <1>1, <1>2, <1>3, <1>5, ForgetOrderly DEF NameInv
<1>. QED
  BY <1>1, <1>2, <1>4, <1>5 DEF NameInv

(* A step that leaves the link alone disturbs no name but its own. *)
LEMMA SubInvOne ==
    ASSUME TypeOK, LinkInv, SubInv, UNCHANGED connVars,
           NEW n \in Names, NEW t, sub' = [sub EXCEPT ![n] = t],
           ~connected => /\ t.tag = NoId
                         /\ \A i \in Ids : t.obj[i].stage # "lost",
           ~t.crossed => Orderly(t, channel, Up, Closing)
    PROVE  SubInv'
<1>1. connected' = connected /\ channel' = channel /\ Up' = Up /\ Closing' = Closing
  BY DEF connVars, Up, Closing
<1>. SUFFICES ASSUME NEW m \in Names PROVE NameInv(m)'
  BY DEF SubInv
<1>2. sub'[m] = IF m = n THEN t ELSE sub[m]
  BY DEF TypeOK
<1>3. CASE m = n
  BY <1>1, <1>2, <1>3 DEF NameInv
<1>4. CASE m # n
  <2>1. NameInv(m)
    BY DEF SubInv
  <2>. QED
    BY <1>1, <1>2, <1>4, <2>1 DEF NameInv
<1>. QED
  BY <1>3, <1>4

LEMMA SubInvStep ==
    ASSUME TypeOK, LinkInv, SubInv, [Next]_vars
    PROVE  SubInv'
<1>. DEFINE g == IF Up THEN channel ELSE NoLink
<1>1. /\ Up \in BOOLEAN /\ (Up => channel # NoLink)
      /\ connected => Usable = g
      /\ channel \in Links \cup {NoLink} /\ channel \notin Closing
      /\ Closing \in SUBSET Links /\ Usable \in Links \cup {NoLink}
      /\ connected \in BOOLEAN
  BY UsableIsUp DEF TypeOK, ConnTypeOK, Usable
<1>2. ASSUME NEW n \in Names
      PROVE  /\ sub[n] \in NameState
             /\ ~connected => /\ sub[n].tag = NoId
                              /\ \A i \in Ids : sub[n].obj[i].stage # "lost"
             /\ ~sub[n].crossed => Orderly(sub[n], channel, Up, Closing)
  BY DEF SubInv, NameInv, TypeOK
<1>3. CASE Detach
  BY <1>3, SubInvDetach
<1>4. CASE UNCHANGED vars
  BY <1>4 DEF vars, connVars, SubInv, NameInv, Up, Closing
<1>5. ASSUME NEW k \in Links,
             \/ Open(k)
             \/ ConnectionOpened(k) /\ UNCHANGED sub
             \/ ConnectFailed(k) /\ UNCHANGED sub
             \/ ChannelOpened(k) /\ UNCHANGED sub
             \/ ConnectionClosed(k) /\ UNCHANGED sub
      PROVE  SubInv'
  BY <1>5, SubInvLink DEF Open
<1>6. ASSUME NEW k \in Links, Attach(k) PROVE SubInv'
  BY <1>6, SubInvAttach
<1>7. ASSUME NEW k \in Links, Lose(k) \/ Settle(k) PROVE SubInv'
  BY <1>7, SubInvOver
<1>8. ASSUME NEW n \in Names, NEW c \in Callbacks, Ask(n, c) PROVE SubInv'
  <2>. DEFINE t == Request(sub[n], connected, Usable, c)
  <2>1. sub' = [sub EXCEPT ![n] = t] /\ UNCHANGED connVars /\ Room(sub[n])
    BY <1>8 DEF Ask
  <2>2. /\ t.crossed = sub[n].crossed
        /\ ~connected => /\ t.tag = sub[n].tag /\ t.obj = sub[n].obj
                         /\ t.calls = sub[n].calls
    BY <1>1, <1>2, <2>1, RequestKeeps
  <2>3. CASE connected
    <3>1. ~sub[n].crossed => Orderly(Request(sub[n], TRUE, g, c), channel, Up, Closing)
      BY <1>1, <1>2, <2>1, RequestOrderly
    <3>2. t = Request(sub[n], TRUE, g, c)
      BY <1>1, <2>3
    <3>. HIDE DEF t
    <3>. QED
      BY <2>1, <2>2, <2>3, <3>1, <3>2, SubInvOne
  <2>4. CASE ~connected
    <3>. HIDE DEF t
    <3>1. ~t.crossed => Orderly(t, channel, Up, Closing)
      BY <1>2, <2>2, <2>4, OrderlyFrame
    <3>. QED
      BY <1>2, <2>1, <2>2, <2>4, <3>1, SubInvOne
  <2>. QED
    BY <2>3, <2>4
<1>9. ASSUME NEW n \in Names, Unsubscribe(n) PROVE SubInv'
  <2>. DEFINE t == Unrequest(sub[n], connected, Usable)
  <2>1. sub' = [sub EXCEPT ![n] = t] /\ UNCHANGED connVars
    BY <1>9 DEF Unsubscribe
  <2>2. /\ t.crossed = sub[n].crossed
        /\ ~connected => /\ t.tag = sub[n].tag /\ t.obj = sub[n].obj
                         /\ t.calls = sub[n].calls
    BY <1>1, <1>2, UnrequestKeeps
  <2>3. CASE connected
    <3>1. ~sub[n].crossed => Orderly(Unrequest(sub[n], TRUE, g), channel, Up, Closing)
      BY <1>1, <1>2, UnrequestOrderly
    <3>2. t = Unrequest(sub[n], TRUE, g)
      BY <1>1, <2>3
    <3>. HIDE DEF t
    <3>. QED
      BY <2>1, <2>2, <2>3, <3>1, <3>2, SubInvOne
  <2>4. CASE ~connected
    <3>. HIDE DEF t
    <3>1. ~t.crossed => Orderly(t, channel, Up, Closing)
      BY <1>2, <2>2, <2>4, OrderlyFrame
    <3>. QED
      BY <1>2, <2>1, <2>2, <2>4, <3>1, SubInvOne
  <2>. QED
    BY <2>3, <2>4
<1>10. ASSUME NEW n \in Names, Answer(n) PROVE SubInv'
  <2>. DEFINE t == Reply(sub[n])
  <2>1. sub' = [sub EXCEPT ![n] = t] /\ UNCHANGED connVars /\ sub[n].calls # <<>>
    BY <1>10 DEF Answer
  <2>2. connected /\ Up /\ channel \in Links
    BY <1>1, <1>10 DEF Answer, Up, LinkInv
  <2>3. t.crossed = sub[n].crossed
    BY <1>2, <2>1, ReplyKeeps
  <2>4. ~sub[n].crossed => Orderly(t, channel, Up, Closing)
    BY <1>1, <1>2, <2>1, <2>2, ReplyOrderly
  <2>. HIDE DEF t
  <2>. QED
    BY <2>1, <2>2, <2>3, <2>4, SubInvOne
<1>11. ASSUME NEW n \in Names, NEW i \in Ids, TimerFires(n, i) PROVE SubInv'
  <2>. DEFINE t == Expire(sub[n], i, connected, Usable)
  <2>1. /\ sub' = [sub EXCEPT ![n] = t] /\ UNCHANGED connVars
        /\ Room(sub[n]) /\ i \in Timers(sub[n])
    BY <1>11 DEF TimerFires
  <2>2. /\ t.crossed = sub[n].crossed
        /\ ~connected => /\ t.tag = sub[n].tag
                         /\ \A j \in Ids : t.obj[j].stage = sub[n].obj[j].stage
    BY <1>1, <1>2, <2>1, ExpireKeeps
  <2>3. ~sub[n].crossed => Orderly(t, channel, Up, Closing)
    BY <1>1, <1>2, <2>1, ExpireOrderly
  <2>. HIDE DEF t
  <2>. QED
    BY <1>2, <2>1, <2>2, <2>3, SubInvOne
<1>. QED
  BY <1>3, <1>4, <1>5, <1>6, <1>7, <1>8, <1>9, <1>10, <1>11 DEF Next

-----------------------------------------------------------------------------

(* It holds at first, and every step keeps it.                             *)
LEMMA InvInit == Init => Inv
BY TypeInit, LinkInvInit, SubInvInit DEF Inv

LEMMA InvStep ==
    ASSUME Inv, [Next]_vars
    PROVE  Inv'
BY TypeStep, LinkInvStep, SubInvStep DEF Inv, TypeOK

(* The inductive invariant holds, for any names, callbacks, number of      *)
(* links, listeners, and kind of queues.                                   *)
THEOREM Invariance == Spec => []Inv
<1>1. Inv /\ [Next]_vars => Inv'
  BY InvStep
<1>. QED
  BY <1>1, InvInit, PTL DEF Spec

(* What the invariant is for.                                              *)
LEMMA InvHolds == Inv => OneConsumer /\ ConsumerIsReachable /\ NoDeadEntry /\ OneLink
<1>. SUFFICES ASSUME Inv PROVE OneConsumer /\ ConsumerIsReachable /\ NoDeadEntry /\ OneLink
  OBVIOUS
<1>1. OneConsumer
  BY DEF Inv, SubInv, NameInv, Orderly, Single, OneConsumer
<1>2. ConsumerIsReachable
  BY DEF Inv, SubInv, NameInv, Orderly, Reachable, ConsumerIsReachable
<1>3. NoDeadEntry
  <2>. SUFFICES ASSUME Linked, NEW n \in Names, ~sub[n].crossed, sub[n].tag # NoId
                PROVE  sub[n].obj[sub[n].tag].stage \in Chain \cup {"active"}
    BY DEF NoDeadEntry
  <2>1. Up
    BY UsableIsUp DEF Inv, TypeOK, Linked
  <2>. QED
    BY <2>1 DEF Inv, SubInv, NameInv, Orderly, Alive
<1>4. OneLink
  BY DEF Inv, LinkInv, OneLink
<1>. QED
  BY <1>1, <1>2, <1>3, <1>4

(* No notification is handled twice: two consumers of one name never       *)
(* coexist (notification.js:213-348), unless calls of a closed link were   *)
(* rejected while a later one was in use.                                  *)
THEOREM OneConsumerAlways == Spec => []OneConsumer
BY InvHolds, Invariance, PTL

(* Every consumer that is not being cancelled is the entry of _tags, where *)
(* unsubscribe() finds it (notification.js:332-347).                       *)
THEOREM ConsumerReachableAlways == Spec => []ConsumerIsReachable
BY InvHolds, Invariance, PTL

(* While the link can be used, the entry of _tags consumes or will         *)
(* (notification.js:249-318).                                              *)
THEOREM NoDeadEntryAlways == Spec => []NoDeadEntry
BY InvHolds, Invariance, PTL

(* A link in use is the one the component calls itself connected to        *)
(* (notification.js:354-442), when connect() is called serially.           *)
THEOREM OneLinkAlways == Spec => []OneLink
BY InvHolds, Invariance, PTL

-----------------------------------------------------------------------------
(* What is wanted.  Orderly does not say whose callback an entry has, nor  *)
(* what the timers are going to ask for; this does.                        *)

(* Nothing is said of an excused name but that it stays so.                *)
Excused(s) == s.stray \/ s.crossed

Active(s) == \E i \in Ids : s.obj[i].stage = "active"

(* Who consumes is not marked for its end.                                 *)
Marked(s) == \A i \in Ids : s.obj[i].stage = "active" => ~s.obj[i].cancel

(* The entry has the callback that is wanted; if it is being cancelled,    *)
(* its timer has, and without an entry the timers have that are left.      *)
Wanted(s) ==
    /\ s.tag = NoId => /\ \A i \in Timers(s) : s.obj[i].timer = s.want
                       /\ s.want # None => Timers(s) # {}
    /\ s.tag # NoId /\ s.obj[s.tag].cancel => /\ s.obj[s.tag].timer = s.want
                                              /\ Timers(s) \subseteq {s.tag}
    /\ s.tag # NoId /\ ~s.obj[s.tag].cancel => s.want # None /\ s.obj[s.tag].cb = s.want

(* Not connected, the buffer has what is wanted, and no timer runs.        *)
WantedFor(s, con, up) ==
    /\ Marked(s)
    /\ con => s.buffered = None
    /\ ~Excused(s) => /\ ~con => s.buffered = s.want /\ Timers(s) = {}
                      /\ up => Wanted(s)

(* What consumes is the entry, on the channel in use. *)
InUse(s, con, up) ==
    /\ s.crossed \/ (Reachable(s) /\ (Active(s) => up))
    /\ up => con

(* A name that consumes, before or after, is wanted as before or not at    *)
(* all, and excuses last.                                                  *)
Follows(s, t) ==
    /\ Excused(s) => Excused(t)
    /\ Active(s) \/ Active(t) => Excused(t) \/ t.want \in {s.want, None}

(* A subscription that is asked for: a new entry, nothing, or a timer.     *)
LEMMA SubscribeIs ==
    ASSUME NEW s \in NameState, NEW g \in Links \cup {NoLink}, NEW c \in Callbacks,
           Room(s) \/ s.tag # NoId, NEW t, t = Subscribe(s, g, c)
    PROVE  /\ t.want = s.want /\ t.stray = s.stray /\ t.crossed = s.crossed
           /\ t.buffered = s.buffered
           /\ Active(t) => Active(s)
           /\ Marked(s) => Marked(t)
           /\ t.tag # NoId
           /\ s.tag = NoId => ~t.obj[t.tag].cancel /\ t.obj[t.tag].cb = c
           /\ s.tag # NoId /\ ~s.obj[s.tag].cancel => t = s
           /\ s.tag # NoId /\ s.obj[s.tag].cancel =>
                 /\ t.tag = s.tag
                 /\ t.obj[t.tag].cancel
                 /\ t.obj[t.tag].timer = c
                 /\ Timers(t) \subseteq Timers(s) \cup {t.tag}
<1>1. CASE s.tag # NoId
  <2>1. s.tag \in Ids /\ s.obj \in [Ids -> Object]
    BY <1>1 DEF NameState
  <2>2. CASE ~s.obj[s.tag].cancel
    BY <1>1, <2>1, <2>2 DEF Subscribe, Wait
  <2>3. CASE s.obj[s.tag].cancel
    <3>1. t = Set(s, s.tag, [s.obj[s.tag] EXCEPT !.timer = c])
      BY <1>1, <2>3 DEF Subscribe, Wait
    <3>2. /\ t.want = s.want /\ t.stray = s.stray /\ t.crossed = s.crossed
          /\ t.buffered = s.buffered /\ t.tag = s.tag
          /\ t.obj = [s.obj EXCEPT ![s.tag] = [s.obj[s.tag] EXCEPT !.timer = c]]
      BY <3>1 DEF Set, NameState
    <3>3. \A i \in Ids : /\ t.obj[i].stage = s.obj[i].stage
                         /\ t.obj[i].cancel = s.obj[i].cancel
                         /\ i # s.tag => t.obj[i] = s.obj[i]
                         /\ i = s.tag => t.obj[i].timer = c
      BY <2>1, <3>2 DEF Object
    <3>4. QED
      BY <1>1, <2>1, <2>3, <3>2, <3>3 DEF Active, Marked, Timers
  <2>4. QED
    BY <2>2, <2>3
<1>2. CASE s.tag = NoId
  <2> DEFINE o == [NoObject EXCEPT !.cb = c]
             p == [o EXCEPT !.stage = "assert", !.link = g]
  <2>1. PICK i \in Spare(s) : i = CHOOSE j \in Spare(s) : TRUE
    BY <1>2 DEF Room
  <2>2. i \in Ids /\ i # NoId /\ s.obj \in [Ids -> Object]
    BY <2>1, IdsAssumption DEF Spare, NameState
  <2>3. PICK q \in {o, p} : t = [Set(s, i, q) EXCEPT !.tag = i, !.calls = t.calls]
    <3>1. CASE g = NoLink
      BY <1>2, <2>1, <3>1 DEF Subscribe, Set, NameState
    <3>2. CASE g # NoLink
      BY <1>2, <2>1, <3>2 DEF Subscribe, Set, NameState
    <3>3. QED
      BY <3>1, <3>2
  <2>4. q.stage \in {"idle", "assert"} /\ ~q.cancel /\ q.cb = c
    BY DEF NoObject
  <2>5. /\ t.want = s.want /\ t.stray = s.stray /\ t.crossed = s.crossed
        /\ t.buffered = s.buffered /\ t.tag = i
        /\ t.obj = [s.obj EXCEPT ![i] = q]
    BY <2>2, <2>3 DEF Set, NameState
  <2>6. \A j \in Ids : t.obj[j] = IF j = i THEN q ELSE s.obj[j]
    BY <2>2, <2>5
  <2>7. QED
    BY <1>2, <2>2, <2>4, <2>5, <2>6 DEF Active, Marked
<1>3. QED
  BY <1>1, <1>2

(* A request is wanted, unless an entry that stays takes its place. *)
LEMMA RequestWanted ==
    ASSUME NEW s \in NameState, NEW con \in BOOLEAN, NEW up \in BOOLEAN,
           NEW g \in Links \cup {NoLink}, NEW c \in Callbacks, Room(s) \/ s.tag # NoId,
           WantedFor(s, con, up), InUse(s, con, up),
           NEW r, r = Request(s, con, g, c)
    PROVE  WantedFor(r, con, up) /\ Follows(s, r)
<1>1. CASE ~con
  <2>1. /\ r.want = c /\ r.stray = s.stray /\ r.crossed = s.crossed /\ r.buffered = c
        /\ r.tag = s.tag /\ r.obj = s.obj
    BY <1>1 DEF Request, NameState
  <2>2. Marked(r) /\ Timers(r) = Timers(s) /\ (Active(r) <=> Active(s))
    BY <2>1 DEF WantedFor, Marked, Timers, Active
  <2>3. Excused(r) <=> Excused(s)
    BY <2>1 DEF Excused
  <2>4. Active(s) => Excused(s)
    BY <1>1 DEF InUse, Excused
  <2>5. QED
    BY <1>1, <2>1, <2>2, <2>3, <2>4 DEF WantedFor, Follows, InUse
<1>2. CASE con
  <2> PICK t \in NameState : t = Subscribe(s, g, c)
    BY SubscribeType
  <2> PICK w : w = IF s.tag # NoId /\ ~s.obj[s.tag].cancel THEN s.want ELSE c
    OBVIOUS
  <2>1. /\ r.want = w /\ r.stray = t.stray /\ r.crossed = t.crossed
        /\ r.buffered = t.buffered /\ r.tag = t.tag /\ r.obj = t.obj
    BY <1>2 DEF Request, NameState
  <2>2. /\ t.want = s.want /\ t.stray = s.stray /\ t.crossed = s.crossed
        /\ t.buffered = s.buffered
        /\ Active(t) => Active(s)
        /\ Marked(s) => Marked(t)
        /\ t.tag # NoId
        /\ s.tag = NoId => ~t.obj[t.tag].cancel /\ t.obj[t.tag].cb = c
        /\ s.tag # NoId /\ ~s.obj[s.tag].cancel => t = s
        /\ s.tag # NoId /\ s.obj[s.tag].cancel =>
              /\ t.tag = s.tag
              /\ t.obj[t.tag].cancel
              /\ t.obj[t.tag].timer = c
              /\ Timers(t) \subseteq Timers(s) \cup {t.tag}
    BY SubscribeIs
  <2>3. Marked(r) /\ Timers(r) = Timers(t) /\ (Active(r) <=> Active(t))
    BY <2>1, <2>2 DEF WantedFor, Marked, Timers, Active
  <2>4. (Excused(r) <=> Excused(s)) /\ r.buffered = None
    BY <1>2, <2>1, <2>2 DEF Excused, WantedFor
  <2>5. c # None
    BY NoneAssumption
  <2>6. ASSUME Wanted(s) PROVE Wanted(r)
    <3>1. CASE s.tag = NoId
      BY <2>1, <2>2, <2>5, <3>1 DEF Wanted
    <3>2. CASE s.tag # NoId /\ ~s.obj[s.tag].cancel
      BY <2>1, <2>2, <2>6, <3>2 DEF Wanted
    <3>3. CASE s.tag # NoId /\ s.obj[s.tag].cancel
      BY <2>1, <2>2, <2>3, <2>6, <3>3 DEF Wanted
    <3>4. QED
      BY <3>1, <3>2, <3>3
  <2>7. ASSUME Active(s), ~Excused(s) PROVE w = s.want
    <3>1. PICK i \in Ids : s.obj[i].stage = "active"
      BY <2>7 DEF Active
    <3>2. s.tag = i /\ i # NoId
      BY <2>7, <3>1, IdsAssumption DEF InUse, Reachable, Excused
    <3>3. ~s.obj[s.tag].cancel
      BY <3>1, <3>2 DEF WantedFor, Marked
    <3>4. QED
      BY <3>2, <3>3
  <2>8. QED
    BY <1>2, <2>1, <2>2, <2>3, <2>4, <2>6, <2>7 DEF WantedFor, Follows
<1>3. QED
  BY <1>1, <1>2

(* What unsubscribe() does to the entry: it leaves, or is marked and has   *)
(* no timer any more.                                                      *)
LEMMA WithdrawIs ==
    ASSUME NEW s \in NameState, NEW g \in Links \cup {NoLink},
           NEW t, t = Withdraw(s, g)
    PROVE  /\ t.stray = s.stray /\ t.crossed = s.crossed /\ t.buffered = s.buffered
           /\ Active(t) => Active(s)
           /\ Marked(s) => Marked(t)
           /\ t.tag \in Ids \cup {NoId}
           /\ t.tag # NoId /\ g # NoLink => t.obj[t.tag].cancel /\ t.obj[t.tag].timer = None
<1>1. CASE s.tag = NoId
  BY <1>1 DEF Withdraw
<1>2. CASE s.tag # NoId
  <2>1. s.tag \in Ids /\ s.obj \in [Ids -> Object] /\ s.tag # NoId
    BY <1>2 DEF NameState
  <2>2. CASE s.obj[s.tag].stage \notin {"active", "lost"}
    <3>1. t = Set(s, s.tag, [s.obj[s.tag] EXCEPT !.timer = None, !.cancel = TRUE])
      BY <1>2, <2>2 DEF Withdraw, CancelLater
    <3>2. /\ t.stray = s.stray /\ t.crossed = s.crossed
          /\ t.buffered = s.buffered /\ t.tag = s.tag
          /\ t.obj = [s.obj EXCEPT ![s.tag] =
                        [s.obj[s.tag] EXCEPT !.timer = None, !.cancel = TRUE]]
      BY <3>1 DEF Set, NameState
    <3>3. \A i \in Ids : /\ t.obj[i].stage = s.obj[i].stage
                         /\ i # s.tag => t.obj[i] = s.obj[i]
                         /\ i = s.tag => t.obj[i].timer = None /\ t.obj[i].cancel
      BY <2>1, <3>2 DEF Object
    <3>4. QED
      BY <2>1, <2>2, <3>2, <3>3 DEF Active, Marked
  <2>3. CASE s.obj[s.tag].stage \in {"active", "lost"} /\ g = NoLink
    BY <1>2, <2>1, <2>3 DEF Withdraw
  <2>4. CASE s.obj[s.tag].stage \in {"active", "lost"} /\ g # NoLink
    <3>1. t = [Set(s, s.tag, [s.obj[s.tag] EXCEPT !.stage = "cancelling"])
                 EXCEPT !.tag = NoId, !.calls = t.calls]
      BY <1>2, <2>4 DEF Withdraw, Set, NameState
    <3>2. /\ t.stray = s.stray /\ t.crossed = s.crossed
          /\ t.buffered = s.buffered /\ t.tag = NoId
          /\ t.obj = [s.obj EXCEPT ![s.tag] = [s.obj[s.tag] EXCEPT !.stage = "cancelling"]]
      BY <3>1 DEF Set, NameState
    <3>3. \A i \in Ids : /\ i # s.tag => t.obj[i] = s.obj[i]
                         /\ i = s.tag => t.obj[i].stage = "cancelling"
      BY <2>1, <3>2 DEF Object
    <3>4. QED
      BY <3>2, <3>3 DEF Active, Marked
  <2>5. QED
    BY <2>2, <2>3, <2>4
<1>3. QED
  BY <1>1, <1>2

(* What was withdrawn is not wanted, and its name excused if anything is   *)
(* still going to ask for it.                                              *)
LEMMA UnrequestWanted ==
    ASSUME NEW s \in NameState, NEW con \in BOOLEAN, NEW g \in Links \cup {NoLink},
           Marked(s), NEW r, r = Unrequest(s, con, g)
    PROVE  /\ Marked(r)
           /\ Follows(s, r)
           /\ Active(r) => Active(s)
           /\ r.want = None
           /\ ~Excused(r) => r.buffered = None
           /\ ~Excused(r) => ~Excused(s)
           /\ con => r.buffered = s.buffered
           /\ ~con => Timers(r) = Timers(s)
           /\ con /\ g # NoLink /\ ~Excused(r) => Wanted(r)
<1> PICK t \in NameState : t = IF con THEN Withdraw(s, g) ELSE [s EXCEPT !.buffered = None]
  BY WithdrawType DEF NameState
<1>1. r = [t EXCEPT !.want = None, !.stray = s.stray \/ Leftover(t)]
  BY DEF Unrequest
<1>2. /\ r.want = None /\ (r.stray <=> s.stray \/ Leftover(t)) /\ r.crossed = t.crossed
      /\ r.buffered = t.buffered /\ r.tag = t.tag /\ r.obj = t.obj
  BY <1>1 DEF NameState
<1>3. /\ t.stray = s.stray /\ t.crossed = s.crossed
      /\ Active(t) => Active(s)
      /\ Marked(t)
      /\ t.tag \in Ids \cup {NoId}
      /\ con => t.buffered = s.buffered
      /\ con /\ t.tag # NoId /\ g # NoLink => t.obj[t.tag].cancel /\ t.obj[t.tag].timer = None
  <2>1. CASE con
    BY <2>1, WithdrawIs
  <2>2. CASE ~con
    BY <2>2 DEF NameState, Active, Marked
  <2>3. QED
    BY <2>1, <2>2
<1>4. Marked(r) /\ Timers(r) = Timers(t) /\ (Active(r) <=> Active(t))
  BY <1>2, <1>3 DEF Marked, Timers, Active
<1>5. (Excused(s) => Excused(r)) /\ (Leftover(t) => Excused(r))
  BY <1>2, <1>3 DEF Excused
<1>6. ~Leftover(t) => t.buffered = None /\ Timers(t) \subseteq {t.tag}
  BY DEF Leftover
<1>7. ~con => Timers(r) = Timers(s)
  BY <1>4 DEF Timers, NameState
<1>8. ASSUME con, g # NoLink, ~Leftover(t) PROVE Wanted(r)
  <2>1. CASE r.tag = NoId
    <3>1. Timers(r) = {}
      BY <1>2, <1>4, <1>6, <1>8, <2>1, IdsAssumption DEF Timers
    <3>2. QED
      BY <1>2, <2>1, <3>1 DEF Wanted
  <2>2. CASE r.tag # NoId
    BY <1>2, <1>3, <1>4, <1>6, <1>8, <2>2 DEF Wanted
  <2>3. QED
    BY <2>1, <2>2
<1>9. Follows(s, r)
  BY <1>2, <1>5 DEF Follows
<1>10. QED
  BY <1>2, <1>3, <1>4, <1>5, <1>6, <1>7, <1>8, <1>9

(* An answer: the entry leaves only if it was being cancelled, and its     *)
(* timer stays.                                                            *)
LEMMA ReplyWanted ==
    ASSUME NEW s \in NameState, s.calls # <<>>,
           NEW ch \in Links, NEW up \in BOOLEAN, up,
           NEW old, Excused(s) \/ Orderly(s, ch, up, old),
           WantedFor(s, TRUE, up), InUse(s, TRUE, up),
           NEW t, t = Reply(s)
    PROVE  WantedFor(t, TRUE, up) /\ Follows(s, t)
<1> PICK i : i = Head(s.calls)
  OBVIOUS
<1>1. i \in Ids /\ s.obj \in [Ids -> Object]
  BY DEF NameState
<1> DEFINE Like(u) ==
             /\ u.want = s.want /\ u.stray = s.stray /\ u.crossed = s.crossed
             /\ u.buffered = s.buffered
             /\ \A j \in Ids : /\ u.obj[j].cancel = s.obj[j].cancel
                               /\ u.obj[j].timer = s.obj[j].timer
                               /\ u.obj[j].cb = s.obj[j].cb
                               /\ u.obj[j].stage = "active" =>
                                     s.obj[j].stage = "active" \/ ~s.obj[j].cancel
<1>2. /\ Like(t)
      /\ \/ t.tag = s.tag
         \/ t.tag = NoId /\ s.obj[i].cancel /\ s.obj[i].stage \notin {"assert", "bind", "cancelling"}
  <2> DEFINE rest == Tail(s.calls)
  <2>1. ASSUME NEW stage, NEW q, NEW u, u = Step(s, i, stage, q),
               stage # "active" \/ ~s.obj[i].cancel
        PROVE  Like(u) /\ u.tag = s.tag
    <3>1. /\ u.want = s.want /\ u.stray = s.stray /\ u.crossed = s.crossed
          /\ u.buffered = s.buffered /\ u.tag = s.tag
          /\ u.obj = [s.obj EXCEPT ![i] = [s.obj[i] EXCEPT !.stage = stage]]
      BY <2>1 DEF Step, Set, NameState
    <3>2. \A j \in Ids : /\ u.obj[j].cancel = s.obj[j].cancel
                         /\ u.obj[j].timer = s.obj[j].timer
                         /\ u.obj[j].cb = s.obj[j].cb
                         /\ u.obj[j].stage = IF j = i THEN stage ELSE s.obj[j].stage
      BY <1>1, <3>1 DEF Object
    <3>3. QED
      BY <2>1, <3>1, <3>2
  <2> HIDE DEF Like, rest
  <2>2. CASE s.obj[i].stage = "assert"
    <3>1. t = Step(s, i, "bind", Append(rest, i))
      BY <2>2 DEF Reply, rest
    <3>2. QED
      BY <2>1, <3>1
  <2>3. CASE s.obj[i].stage = "bind"
    <3>1. t = Step(s, i, "consume", Append(rest, i))
      BY <2>3 DEF Reply, rest
    <3>2. QED
      BY <2>1, <3>1
  <2>4. CASE s.obj[i].stage = "cancelling"
    <3>1. t = Step(s, i, "idle", rest)
      BY <2>4 DEF Reply, rest
    <3>2. QED
      BY <2>1, <3>1
  <2>5. CASE s.obj[i].stage \notin {"assert", "bind", "cancelling"}
    <3>1. t = Consumed(s, i, rest)
      BY <2>5 DEF Reply, rest
    <3>2. CASE ~s.obj[i].cancel
      <4>1. t = Step(s, i, "active", rest)
        BY <3>1, <3>2 DEF Consumed
      <4>2. QED
        BY <2>1, <3>2, <4>1
    <3>3. CASE s.obj[i].cancel
      <4>1. PICK u : u = Step(s, i, "cancelling", Append(rest, i))
        OBVIOUS
      <4>2. t = [u EXCEPT !.tag = NoId]
        BY <3>1, <3>3, <4>1 DEF Consumed
      <4>3. Like(u)
        BY <2>1, <4>1
      <4>4. t.tag = NoId /\ t.want = u.want /\ t.stray = u.stray /\ t.crossed = u.crossed
            /\ t.buffered = u.buffered /\ t.obj = u.obj
        BY <4>1, <4>2 DEF Step, Set, NameState
      <4>5. Like(t)
        BY <4>3, <4>4 DEF Like
      <4>6. QED
        BY <2>5, <3>3, <4>4, <4>5
    <3>4. QED
      BY <3>2, <3>3
  <2>6. QED
    BY <2>2, <2>3, <2>4, <2>5
<1>3. \A j \in Ids : /\ t.obj[j].cancel = s.obj[j].cancel
                     /\ t.obj[j].timer = s.obj[j].timer
                     /\ t.obj[j].cb = s.obj[j].cb
                     /\ t.obj[j].stage = "active" =>
                           s.obj[j].stage = "active" \/ ~s.obj[j].cancel
  BY <1>2
<1>4. Marked(t) /\ Timers(t) = Timers(s)
  BY <1>3 DEF WantedFor, Marked, Timers
<1>5. Excused(t) <=> Excused(s)
  BY <1>2 DEF Excused
<1>6. ASSUME Wanted(s), ~Excused(s) PROVE Wanted(t)
  <2>1. CASE t.tag = s.tag
    <3>1. s.tag # NoId => s.tag \in Ids
      BY DEF NameState
    <3>2. QED
      BY <1>2, <1>3, <1>4, <1>6, <2>1, <3>1 DEF Wanted, Timers
  <2>2. CASE t.tag = NoId /\ s.obj[i].cancel /\ s.obj[i].stage \notin {"assert", "bind", "cancelling"}
    <3>1. s.obj[i].stage \in Chain /\ s.obj[i].link = ch
      <4>1. i = s.calls[1] /\ Len(s.calls) \in Nat \ {0}
        BY HeadTailProperties, EmptySeq DEF NameState
      <4>2. 1 \in 1 .. Len(s.calls)
        BY <4>1
      <4>3. s.obj[i].stage \in Chain \cup {"cancelling"} /\ s.obj[i].link = ch
        <5>1. InLine(s, ch, up)
          BY <1>6 DEF Orderly
        <5>2. \A k \in 1 .. Len(s.calls) :
                 /\ s.obj[s.calls[k]].stage \in Chain \cup {"cancelling"}
                 /\ s.obj[s.calls[k]].link = ch
          BY <5>1 DEF InLine
        <5>3. QED
          BY <4>1, <4>2, <5>2
      <4>4. QED
        BY <2>2, <4>3
    <3>2. s.tag = i /\ i # NoId
      BY <1>1, <1>6, <3>1, IdsAssumption DEF Orderly, ChainIsLast
    <3>3. s.obj[i].timer = s.want /\ Timers(s) \subseteq {i}
      BY <1>6, <2>2, <3>2 DEF Wanted
    <3>4. QED
      BY <1>1, <1>2, <1>3, <1>4, <2>2, <3>3 DEF Wanted, Timers
  <2>3. QED
    BY <1>2, <2>1, <2>2
<1>7. QED
  BY <1>2, <1>4, <1>5, <1>6 DEF WantedFor, Follows

(* The end of a link takes nothing back that is wanted on another.         *)
LEMMA RejectWanted ==
    ASSUME NEW s \in NameState, NEW g \in Links, NEW h \in Links \cup {NoLink},
           NEW con \in BOOLEAN, NEW up \in BOOLEAN, NEW next \in BOOLEAN,
           next => up /\ h # NoLink,
           ~con => s.tag = NoId,
           WantedFor(s, con, up), InUse(s, con, up),
           NEW t, t = Reject(s, g, h)
    PROVE  WantedFor(t, con, next) /\ Follows(s, t)
<1> DEFINE here == {i \in Ids : s.obj[i].link = g}
           out == {i \in here : s.obj[i].stage \in Outstanding}
           caught == {i \in out : s.obj[i].stage \notin {"bind", "cancelling"}
                                  /\ s.obj[i].cancel}
<1>1. /\ t.want = s.want /\ t.stray = s.stray /\ t.buffered = s.buffered
      /\ t.crossed <=> s.crossed \/ (h # NoLink /\ out # {})
      /\ t.tag = IF caught # {} THEN NoId ELSE s.tag
  BY DEF Reject, NameState
<1>2. \A i \in Ids : /\ t.obj[i].cancel = s.obj[i].cancel
                     /\ t.obj[i].cb = s.obj[i].cb
                     /\ t.obj[i].timer \in {s.obj[i].timer, None}
                     /\ i \notin caught => t.obj[i].timer = s.obj[i].timer
                     /\ t.obj[i].stage = "active" => s.obj[i].stage = "active"
  BY DEF Reject, NameState, Object
<1> HIDE DEF caught, out
<1>3. Marked(t) /\ (Active(t) => Active(s)) /\ Timers(t) \subseteq Timers(s)
  BY <1>2 DEF WantedFor, Marked, Active, Timers
<1>4. Excused(s) => Excused(t)
  BY <1>1 DEF Excused
<1>5. ~con => s.tag = NoId /\ t.tag = NoId
  BY <1>1
<1>6. ASSUME next, ~Excused(t), Wanted(s) PROVE Wanted(t)
  <2>1. caught = {}
    BY <1>1, <1>6 DEF Excused, caught
  <2>2. s.tag # NoId => s.tag \in Ids
    BY DEF NameState
  <2>3. t.tag = s.tag /\ \A i \in Ids : t.obj[i].timer = s.obj[i].timer
    BY <1>1, <1>2, <2>1
  <2>4. Timers(t) = Timers(s)
    BY <2>3 DEF Timers
  <2>5. QED
    BY <1>1, <1>2, <1>6, <2>2, <2>3, <2>4 DEF Wanted, Timers
<1>7. ~con /\ Timers(s) = {} => Timers(t) = {}
  BY <1>3
<1>8. QED
  BY <1>1, <1>3, <1>4, <1>6, <1>7 DEF WantedFor, Follows

(* close(): what it forgets is not wanted, unless timers still run. *)
LEMMA ForgetWanted ==
    ASSUME NEW s \in NameState, Marked(s), NEW t, t = Forget(s)
    PROVE  WantedFor(t, FALSE, FALSE) /\ Follows(s, t)
<1>1. /\ t.want = None /\ t.buffered = None /\ t.crossed = s.crossed
      /\ t.stray <=> s.stray \/ Timers(s) # {}
  BY DEF Forget, NameState
<1>2. \A i \in Ids : /\ t.obj[i].cancel = s.obj[i].cancel
                     /\ t.obj[i].timer = s.obj[i].timer
                     /\ t.obj[i].stage # "active"
  BY DEF Forget, NameState, Object
<1>3. Marked(t) /\ Timers(t) = Timers(s)
  BY <1>2 DEF Marked, Timers
<1>4. QED
  BY <1>1, <1>3 DEF WantedFor, Follows, Excused

(* A timer that runs out asks for what is wanted, or in vain. *)
LEMMA ExpireWanted ==
    ASSUME NEW s \in NameState, NEW i \in Timers(s), Room(s),
           NEW con \in BOOLEAN, NEW up \in BOOLEAN,
           NEW g \in Links \cup {NoLink},
           WantedFor(s, con, up), InUse(s, con, up),
           NEW r, r = Expire(s, i, con, g)
    PROVE  WantedFor(r, con, up) /\ Follows(s, r)
<1> PICK c \in Callbacks : c = s.obj[i].timer
  BY DEF Timers, NameState, Object
<1> PICK u \in NameState : u = Set(s, i, [s.obj[i] EXCEPT !.timer = None])
  <2>1. i \in Ids /\ [s.obj[i] EXCEPT !.timer = None] \in Object
    BY DEF Timers, NameState, Object
  <2>2. QED
    BY <2>1, SetType
<1>1. /\ i \in Ids
      /\ u.want = s.want /\ u.stray = s.stray /\ u.crossed = s.crossed
      /\ u.buffered = s.buffered /\ u.tag = s.tag
      /\ \A j \in Ids : /\ u.obj[j].stage = s.obj[j].stage
                        /\ u.obj[j].cancel = s.obj[j].cancel
                        /\ u.obj[j].cb = s.obj[j].cb
                        /\ u.obj[j].timer = IF j = i THEN None ELSE s.obj[j].timer
                        /\ u.obj[j].link = s.obj[j].link
  BY DEF Set, NameState, Object, Timers
<1>2. Marked(u) /\ (Active(u) <=> Active(s)) /\ Timers(u) \subseteq Timers(s) \ {i}
  BY <1>1 DEF WantedFor, Marked, Active, Timers
<1>3. s.tag # NoId => s.tag \in Ids
  BY DEF NameState
<1>4. c # None
  BY NoneAssumption
<1>5. CASE ~con
  <2>1. /\ r.want = u.want /\ r.stray = u.stray /\ r.crossed = u.crossed
        /\ r.obj = u.obj
    BY <1>5 DEF Expire, NameState
  <2>2. Excused(s)
    BY <1>5 DEF WantedFor
  <2>3. Excused(r) /\ Marked(r)
    BY <1>1, <1>2, <2>1, <2>2 DEF Excused, Marked
  <2>4. QED
    BY <1>5, <2>3 DEF WantedFor, Follows
<1>6. CASE con
  <2>1. r = Subscribe(u, g, c)
    BY <1>6 DEF Expire
  <2>2. Room(u)
    BY <1>1 DEF Room, Spare
  <2>3. /\ r.want = u.want /\ r.stray = u.stray /\ r.crossed = u.crossed
        /\ r.buffered = u.buffered
        /\ Active(r) => Active(u)
        /\ Marked(u) => Marked(r)
        /\ r.tag # NoId
        /\ u.tag = NoId => ~r.obj[r.tag].cancel /\ r.obj[r.tag].cb = c
        /\ u.tag # NoId /\ ~u.obj[u.tag].cancel => r = u
        /\ u.tag # NoId /\ u.obj[u.tag].cancel =>
              /\ r.tag = u.tag
              /\ r.obj[r.tag].cancel
              /\ r.obj[r.tag].timer = c
              /\ Timers(r) \subseteq Timers(u) \cup {r.tag}
    BY <2>1, <2>2, SubscribeIs
  <2>4. (Excused(r) <=> Excused(s)) /\ r.buffered = None
    BY <1>1, <1>6, <2>3 DEF Excused, WantedFor
  <2>5. ASSUME Wanted(s) PROVE Wanted(r)
    <3>1. CASE s.tag = NoId
      <4>1. c = s.want
        BY <2>5, <3>1 DEF Wanted
      <4>2. QED
        BY <1>1, <1>4, <2>3, <3>1, <4>1 DEF Wanted
    <3>2. CASE s.tag # NoId /\ ~s.obj[s.tag].cancel
      <4>1. r = u
        BY <1>1, <1>3, <2>3, <3>2
      <4>2. u.obj[u.tag].cb = u.want /\ ~u.obj[u.tag].cancel /\ u.want # None
        BY <1>1, <1>3, <2>5, <3>2 DEF Wanted
      <4>3. QED
        BY <2>3, <4>1, <4>2 DEF Wanted
    <3>3. CASE s.tag # NoId /\ s.obj[s.tag].cancel
      <4>1. c = s.want /\ i = s.tag /\ Timers(s) \subseteq {s.tag}
        BY <2>5, <3>3 DEF Wanted
      <4>2. QED
        BY <1>1, <1>2, <1>3, <2>3, <3>3, <4>1 DEF Wanted
    <3>4. QED
      BY <3>1, <3>2, <3>3
  <2>6. QED
    BY <1>1, <1>2, <1>6, <2>3, <2>4, <2>5 DEF WantedFor, Follows
<1>7. QED
  BY <1>5, <1>6

(* As the component becomes connected, a listener may be ahead of the      *)
(* buffer; what that asks for then is wanted no more.                      *)
Ready(u) ==
    /\ Marked(u)
    /\ ~Excused(u) => \/ u.tag = NoId /\ Timers(u) = {} /\ u.buffered = u.want
                      \/ u.tag # NoId /\ ~u.obj[u.tag].cancel /\ Wanted(u)
                      \/ u.buffered = None /\ Wanted(u)

(* A listener leaves what the buffer can be applied to, ...                *)
LEMMA ListenReady ==
    ASSUME NEW s \in NameState, NEW g \in Links, NEW e \in ListenerCalls, Room(s),
           s.tag = NoId, WantedFor(s, FALSE, FALSE), NEW u, u = Listen(s, g, e)
    PROVE  Ready(u) /\ (Active(u) => Active(s)) /\ (Excused(s) => Excused(u))
<1>1. g # NoLink
  BY DEF Links, NoLink
<1>2. CASE e = "unsubscribe"
  <2> PICK con \in BOOLEAN : con = TRUE
    OBVIOUS
  <2>1. u = Unrequest(s, con, g)
    BY <1>2, ListenerAssumption DEF Listen
  <2>2. Marked(s) /\ g \in Links \cup {NoLink}
    BY DEF WantedFor
  <2>3. /\ Marked(u)
        /\ Follows(s, u)
        /\ Active(u) => Active(s)
        /\ ~Excused(u) => u.buffered = None
        /\ con /\ g # NoLink /\ ~Excused(u) => Wanted(u)
    <3>1. \A d \in BOOLEAN : u = Unrequest(s, d, g) =>
             /\ Marked(u)
             /\ Follows(s, u)
             /\ Active(u) => Active(s)
             /\ ~Excused(u) => u.buffered = None
             /\ d /\ g # NoLink /\ ~Excused(u) => Wanted(u)
      BY <2>2, UnrequestWanted
    <3>2. QED
      BY <2>1, <3>1, Zenon
  <2>4. QED
    BY <1>1, <2>3 DEF Ready, Follows
<1>3. CASE e \in Callbacks
  <2> PICK t \in NameState : t = Subscribe(s, g, e)
    BY <1>3, SubscribeType
  <2>1. u = Request(s, TRUE, g, e)
    BY <1>3, ListenerAssumption DEF Listen
  <2>2. /\ u.want = e /\ u.stray = t.stray /\ u.crossed = t.crossed
        /\ u.buffered = t.buffered /\ u.tag = t.tag /\ u.obj = t.obj
    BY <2>1 DEF Request, NameState
  <2>3. /\ t.stray = s.stray /\ t.crossed = s.crossed
        /\ Active(t) => Active(s)
        /\ Marked(s) => Marked(t)
        /\ t.tag # NoId
        /\ ~t.obj[t.tag].cancel /\ t.obj[t.tag].cb = e
    BY <1>3, SubscribeIs
  <2>4. Marked(u) /\ (Active(u) <=> Active(t)) /\ (Excused(u) <=> Excused(s))
    BY <2>2, <2>3 DEF Marked, Active, Excused, WantedFor
  <2>5. Wanted(u) /\ u.tag # NoId /\ ~u.obj[u.tag].cancel
    BY <1>3, <2>2, <2>3, NoneAssumption DEF Wanted
  <2>6. QED
    BY <2>3, <2>4, <2>5 DEF Ready
<1>4. CASE e = "nothing"
  <2>1. u = s
    BY <1>4, ListenerAssumption DEF Listen
  <2>2. QED
    BY <2>1 DEF WantedFor, Ready
<1>5. QED
  BY <1>2, <1>3, <1>4, ListenerAssumption

(* ... and that leaves what is wanted.                                     *)
LEMMA ApplyBufferWanted ==
    ASSUME NEW u \in NameState, NEW g \in Links, Room(u) \/ u.tag # NoId, Ready(u),
           NEW r, r = ApplyBuffer(u, g)
    PROVE  /\ WantedFor(r, TRUE, TRUE)
           /\ Active(r) => Active(u)
           /\ Excused(r) <=> Excused(u)
<1>1. CASE u.buffered = None
  <2>1. r = u
    BY <1>1 DEF ApplyBuffer
  <2>2. u.tag = NoId /\ Timers(u) = {} /\ u.buffered = u.want => Wanted(u)
    BY <1>1 DEF Wanted
  <2>3. QED
    BY <1>1, <2>1, <2>2 DEF Ready, WantedFor
<1>2. CASE u.buffered # None
  <2> PICK c \in Callbacks : c = u.buffered
    BY <1>2 DEF NameState
  <2> PICK t \in NameState : t = Subscribe(u, g, c)
    BY SubscribeType
  <2>1. /\ r.want = t.want /\ r.stray = t.stray /\ r.crossed = t.crossed
        /\ r.buffered = None /\ r.tag = t.tag /\ r.obj = t.obj
    BY <1>2 DEF ApplyBuffer, NameState
  <2>2. /\ t.want = u.want /\ t.stray = u.stray /\ t.crossed = u.crossed
        /\ Active(t) => Active(u)
        /\ Marked(u) => Marked(t)
        /\ t.tag # NoId
        /\ u.tag = NoId => ~t.obj[t.tag].cancel /\ t.obj[t.tag].cb = c
        /\ u.tag # NoId /\ ~u.obj[u.tag].cancel => t = u
    BY SubscribeIs
  <2>3. Marked(r) /\ (Active(r) <=> Active(t)) /\ (Excused(r) <=> Excused(u))
    BY <2>1, <2>2 DEF Marked, Active, Excused, Ready
  <2>4. ASSUME u.tag = NoId, u.want = c PROVE Wanted(r)
    BY <2>1, <2>2, <2>4, NoneAssumption DEF Wanted
  <2>5. ASSUME u.tag # NoId, ~u.obj[u.tag].cancel, Wanted(u) PROVE Wanted(r)
    BY <2>1, <2>2, <2>5 DEF Wanted
  <2>6. QED
    BY <1>2, <2>1, <2>2, <2>3, <2>4, <2>5 DEF Ready, WantedFor
<1>3. QED
  BY <1>1, <1>2

-----------------------------------------------------------------------------
(* What is wanted, step by step. *)

WantedInv == \A n \in Names : WantedFor(sub[n], connected, Up)

(* What the inductive invariant says of a name.                            *)
LEMMA NameInUse ==
    ASSUME Inv, NEW n \in Names
    PROVE  /\ InUse(sub[n], connected, Up)
           /\ sub[n] \in NameState
           /\ ~connected => sub[n].tag = NoId
           /\ ~sub[n].crossed => Orderly(sub[n], channel, Up, Closing)
<1>1. NameInv(n) /\ sub[n] \in NameState
  BY DEF Inv, SubInv, TypeOK
<1>2. ~sub[n].crossed => Reachable(sub[n]) /\ (Active(sub[n]) => Up)
  BY <1>1 DEF NameInv, Orderly, InPlace, Active
<1>3. QED
  BY <1>1, <1>2 DEF InUse, NameInv, Up

(* A step keeps what is wanted of a name, and follows what it was.         *)
Steps(n) == WantedFor(sub[n], connected, Up)' /\ Follows(sub[n], sub'[n])

(* A name that is left alone, or of which nothing is kept in another way.  *)
LEMMA NothingWanted ==
    ASSUME NEW s, NEW con, NEW up, NEW con2, NEW up2, WantedFor(s, con, up),
           con2 <=> con, up2 => up
    PROVE  WantedFor(s, con2, up2) /\ Follows(s, s)
BY DEF WantedFor, Follows

(* A step of one name, and then the steps of the link.                     *)
LEMMA StepsOne ==
    ASSUME Inv, WantedInv, UNCHANGED connVars, NEW m \in Names, NEW n \in Names,
           NEW t, sub' = [sub EXCEPT ![m] = t],
           WantedFor(t, connected, Up), Follows(sub[m], t)
    PROVE  Steps(n)
<1>1. connected' = connected /\ Up' = Up
  BY DEF connVars, Up
<1>2. sub'[n] = IF n = m THEN t ELSE sub[n]
  BY DEF Inv, TypeOK
<1>3. WantedFor(sub[n], connected, Up)
  BY DEF WantedInv
<1>4. Follows(sub[n], sub[n])
  BY <1>3, NothingWanted
<1>5. WantedFor(sub'[n], connected, Up) /\ Follows(sub[n], sub'[n])
  BY <1>2, <1>3, <1>4
<1>6. QED
  BY <1>1, <1>5 DEF Steps

LEMMA StepsLink ==
    ASSUME Inv, WantedInv, NEW g \in Links, NEW n \in Names, sub' = sub,
           \/ Open(g) \/ ConnectionOpened(g) \/ ConnectFailed(g)
           \/ ChannelOpened(g) \/ ConnectionClosed(g)
    PROVE  Steps(n)
<1>1. connected' = connected
  BY DEF Open, Connect, ConnectionOpened, ConnectFailed, ChannelOpened, ConnectionClosed
<1>2. Up' => Up
  BY <1>1 DEF Open, Connect, ConnectionOpened, ConnectFailed, ChannelOpened,
     ConnectionClosed, Up, Inv, TypeOK, ConnTypeOK, LinkInv, Attempting
<1>3. WantedFor(sub[n], connected, Up)
  BY DEF WantedInv
<1>4. WantedFor(sub[n], connected', Up') /\ Follows(sub[n], sub[n])
  BY <1>1, <1>2, <1>3, NothingWanted
<1>5. QED
  BY <1>4 DEF Steps

LEMMA StepsAttach ==
    ASSUME Inv, WantedInv, NEW g \in Links, Attach(g), NEW n \in Names
    PROVE  Steps(n)
<1>1. PICK e \in [Names -> ListenerCalls] :
        sub' = [m \in Names |-> ApplyBuffer(Listen(sub[m], g, e[m]), g)]
  BY DEF Attach
<1>2. chan[g] = "declaring" /\ channel' = g /\ chan' = [chan EXCEPT ![g] = "up"] /\ connected'
  BY DEF Attach, ExchangeDeclared, Inv, LinkInv
<1>3. ~connected /\ ~Up
  BY <1>2 DEF Inv, LinkInv, Attempting, Up
<1>4. connected' = TRUE /\ Up' = TRUE
  BY <1>2 DEF Up, Attach, ExchangeDeclared, Inv, TypeOK, ConnTypeOK, Links, NoLink
<1> PICK s \in NameState : s = sub[n]
  BY DEF Inv, TypeOK
<1>5. /\ Room(s) /\ s.tag = NoId
      /\ WantedFor(s, connected, Up) /\ InUse(s, connected, Up)
  BY <1>3, NameInUse DEF Attach, WantedInv
<1>6. WantedFor(s, FALSE, FALSE) /\ (Active(s) => Excused(s))
  BY <1>3, <1>5 DEF WantedFor, InUse, Excused
<1> PICK u \in NameState : u = Listen(s, g, e[n])
  BY <1>5, ListenType
<1>7. Room(u) \/ u.tag # NoId
  BY <1>5, ListenType
<1>8. Ready(u) /\ (Active(u) => Active(s)) /\ (Excused(s) => Excused(u))
  BY <1>5, <1>6, ListenReady
<1> PICK r : r = ApplyBuffer(u, g)
  OBVIOUS
<1>9. WantedFor(r, TRUE, TRUE) /\ (Active(r) => Active(u)) /\ (Excused(r) <=> Excused(u))
  BY <1>7, <1>8, ApplyBufferWanted
<1>10. Follows(s, r)
  BY <1>6, <1>8, <1>9 DEF Follows
<1>11. sub'[n] = r
  BY <1>1
<1>12. QED
  BY <1>4, <1>9, <1>10, <1>11 DEF Steps

LEMMA StepsOver ==
    ASSUME Inv, WantedInv, NEW g \in Links, Lose(g) \/ Settle(g), NEW n \in Names
    PROVE  Steps(n)
<1> PICK h \in Links \cup {NoLink} : h = IF channel = g THEN NoLink ELSE Usable
  BY DEF Usable, Inv, TypeOK, ConnTypeOK
<1>1. /\ chan' = [chan EXCEPT ![g] = "down"]
      /\ connected' = connected /\ channel' = channel
  BY DEF Lose, ChannelLost, ConnectionLost, Settle, ChannelClosed
<1>2. sub' = [m \in Names |-> Reject(sub[m], g, h)]
  BY DEF Lose, Settle, ChannelClosed, Inv, LinkInv
<1> PICK next \in BOOLEAN : next <=> Up'
  OBVIOUS
<1>3. next => Up /\ h # NoLink
  <2>1. Up' => channel # g /\ chan[channel] = "up" /\ connected /\ channel # NoLink
    BY <1>1 DEF Up, Inv, TypeOK, ConnTypeOK
  <2>2. QED
    BY <2>1 DEF Up, Usable, Sendable
<1> PICK s \in NameState : s = sub[n]
  BY DEF Inv, TypeOK
<1>4. /\ InUse(s, connected, Up) /\ WantedFor(s, connected, Up)
      /\ ~connected => s.tag = NoId
      /\ connected \in BOOLEAN /\ Up \in BOOLEAN
  BY NameInUse DEF WantedInv, Inv, TypeOK, ConnTypeOK, Up
<1> PICK t : t = Reject(s, g, h)
  OBVIOUS
<1>5. WantedFor(t, connected, next) /\ Follows(s, t)
  BY <1>3, <1>4, RejectWanted
<1>6. WantedFor(t, connected', Up')
  BY <1>1, <1>5, NothingWanted
<1>7. sub'[n] = t
  BY <1>2
<1>8. QED
  BY <1>5, <1>6, <1>7 DEF Steps

LEMMA StepsDetach ==
    ASSUME Inv, WantedInv, Detach, NEW n \in Names
    PROVE  Steps(n)
<1>1. connected' = FALSE /\ Up' = FALSE
  BY DEF Detach, Close, Up
<1>2. sub[n] \in NameState /\ sub'[n] = Forget(sub[n]) /\ Marked(sub[n])
  BY DEF Detach, Inv, TypeOK, WantedInv, WantedFor
<1>3. WantedFor(sub'[n], FALSE, FALSE) /\ Follows(sub[n], sub'[n])
  BY <1>2, ForgetWanted
<1>4. QED
  BY <1>1, <1>3 DEF Steps

(* Every step.                                                             *)
LEMMA StepWanted ==
    ASSUME Inv, WantedInv, [Next]_vars, NEW n \in Names
    PROVE  Steps(n)
<1>1. /\ connected \in BOOLEAN /\ Up \in BOOLEAN
      /\ Up => connected /\ channel \in Links
      /\ Usable \in Links \cup {NoLink}
      /\ Up => Usable # NoLink
  BY UsableIsUp DEF Inv, TypeOK, ConnTypeOK, Usable, Up
<1>2. ASSUME NEW m \in Names
      PROVE  /\ WantedFor(sub[m], connected, Up) /\ InUse(sub[m], connected, Up)
             /\ sub[m] \in NameState
             /\ ~sub[m].crossed => Orderly(sub[m], channel, Up, Closing)
  BY NameInUse DEF WantedInv
<1>3. CASE Detach
  BY <1>3, StepsDetach
<1>4. CASE UNCHANGED vars
  <2>1. connected' = connected /\ Up' = Up /\ sub' = sub
    BY <1>4 DEF vars, connVars, Up
  <2>2. WantedFor(sub[n], connected', Up') /\ Follows(sub[n], sub[n])
    BY <1>2, <2>1, NothingWanted
  <2>3. QED
    BY <2>1, <2>2 DEF Steps
<1>5. ASSUME NEW k \in Links,
             \/ Open(k)
             \/ ConnectionOpened(k) /\ UNCHANGED sub
             \/ ConnectFailed(k) /\ UNCHANGED sub
             \/ ChannelOpened(k) /\ UNCHANGED sub
             \/ ConnectionClosed(k) /\ UNCHANGED sub
      PROVE  Steps(n)
  BY <1>5, StepsLink DEF Open
<1>6. ASSUME NEW k \in Links, Attach(k) PROVE Steps(n)
  BY <1>6, StepsAttach
<1>7. ASSUME NEW k \in Links, Lose(k) \/ Settle(k) PROVE Steps(n)
  BY <1>7, StepsOver
<1>8. ASSUME NEW m \in Names, NEW c \in Callbacks, Ask(m, c) PROVE Steps(n)
  <2> PICK t : t = Request(sub[m], connected, Usable, c)
    OBVIOUS
  <2>1. sub' = [sub EXCEPT ![m] = t] /\ UNCHANGED connVars /\ Room(sub[m])
    BY <1>8 DEF Ask
  <2>2. WantedFor(t, connected, Up) /\ Follows(sub[m], t)
    BY <1>1, <1>2, <2>1, RequestWanted
  <2>3. QED
    BY <2>1, <2>2, StepsOne
<1>9. ASSUME NEW m \in Names, Unsubscribe(m) PROVE Steps(n)
  <2> PICK t : t = Unrequest(sub[m], connected, Usable)
    OBVIOUS
  <2>1. sub' = [sub EXCEPT ![m] = t] /\ UNCHANGED connVars
    BY <1>9 DEF Unsubscribe
  <2>2. Marked(sub[m]) /\ sub[m] \in NameState
    BY <1>2 DEF WantedFor
  <2>3. /\ Marked(t)
        /\ Follows(sub[m], t)
        /\ t.want = None
        /\ ~Excused(t) => t.buffered = None
        /\ ~Excused(t) => ~Excused(sub[m])
        /\ connected => t.buffered = sub[m].buffered
        /\ ~connected => Timers(t) = Timers(sub[m])
        /\ connected /\ Usable # NoLink /\ ~Excused(t) => Wanted(t)
    BY <1>1, <2>2, UnrequestWanted
  <2>4. WantedFor(t, connected, Up)
    BY <1>1, <1>2, <2>3 DEF WantedFor
  <2>5. QED
    BY <2>1, <2>3, <2>4, StepsOne
<1>10. ASSUME NEW m \in Names, Answer(m) PROVE Steps(n)
  <2> PICK t : t = Reply(sub[m])
    OBVIOUS
  <2>1. sub' = [sub EXCEPT ![m] = t] /\ UNCHANGED connVars /\ sub[m].calls # <<>>
    BY <1>10 DEF Answer
  <2>2. connected /\ Up /\ channel \in Links
    <3>1. channel \in Links /\ chan[channel] = "up"
      BY <1>10 DEF Answer, Inv, TypeOK, ConnTypeOK
    <3>2. QED
      BY <3>1 DEF Up, Inv, LinkInv, Links, NoLink
  <2>3. Excused(sub[m]) \/ Orderly(sub[m], channel, Up, Closing)
    BY <1>2 DEF Excused
  <2>4. WantedFor(t, connected, Up) /\ Follows(sub[m], t)
    <3>1. connected = TRUE
      BY <1>1, <2>2
    <3>2. WantedFor(sub[m], TRUE, Up) /\ InUse(sub[m], TRUE, Up) /\ sub[m] \in NameState
      BY <1>2, <3>1
    <3>3. WantedFor(t, TRUE, Up) /\ Follows(sub[m], t)
      BY <1>1, <2>1, <2>2, <2>3, <3>2, ReplyWanted
    <3>4. QED
      BY <3>1, <3>3
  <2>5. QED
    BY <2>1, <2>2, <2>4, StepsOne
<1>11. ASSUME NEW m \in Names, NEW i \in Ids, TimerFires(m, i) PROVE Steps(n)
  <2> PICK t : t = Expire(sub[m], i, connected, Usable)
    OBVIOUS
  <2>1. /\ sub' = [sub EXCEPT ![m] = t] /\ UNCHANGED connVars
        /\ Room(sub[m]) /\ i \in Timers(sub[m])
    BY <1>11 DEF TimerFires
  <2>2. WantedFor(t, connected, Up) /\ Follows(sub[m], t)
    BY <1>1, <1>2, <2>1, ExpireWanted
  <2>3. QED
    BY <2>1, <2>2, StepsOne
<1>12. QED
  BY <1>3, <1>4, <1>5, <1>6, <1>7, <1>8, <1>9, <1>10, <1>11 DEF Next

(* Nothing is wanted at first.                                             *)
LEMMA WantedInit == Init => WantedInv
<1> SUFFICES ASSUME Init, NEW n \in Names PROVE WantedFor(sub[n], connected, Up)
  BY DEF WantedInv
<1>1. sub[n] = NoSubscription /\ ~connected /\ ~Up
  BY DEF Init, ConnInit, Up
<1>2. \A i \in Ids : sub[n].obj[i].stage = "idle" /\ sub[n].obj[i].timer = None
  BY <1>1 DEF NoSubscription, NoObject
<1>3. sub[n].buffered = None /\ sub[n].want = None
  BY <1>1 DEF NoSubscription
<1>4. QED
  BY <1>1, <1>2, <1>3 DEF WantedFor, Marked, Timers

(* What is wanted is always kept.                                          *)
LEMMA WantedAlways == Spec => []WantedInv
<1>1. Inv /\ WantedInv /\ [Next]_vars => WantedInv'
  BY StepWanted DEF Steps, WantedInv
<1>2. QED
  BY <1>1, WantedInit, Invariance, PTL DEF Spec

-----------------------------------------------------------------------------

(* A name at rest agrees with its wish.                                    *)
LEMMA RestAgrees ==
    ASSUME Inv, WantedInv
    PROVE  Agreement
<1> SUFFICES ASSUME Inv, WantedInv, NEW n \in Names, NEW s, s = sub[n],
                    Linked, s.calls = <<>>, Timers(s) = {}, ~s.stray, ~s.crossed
             PROVE  IF s.want = None
                    THEN s.tag = NoId /\ Consuming(s) = {}
                    ELSE s.tag \in Consuming(s) /\ s.obj[s.tag].cb = s.want
  BY DEF Agreement
<1>1. Up
  BY UsableIsUp DEF Inv, TypeOK, Linked
<1>2. s \in NameState /\ Orderly(s, channel, Up, Closing)
  BY NameInUse
<1>3. Marked(s) /\ Wanted(s)
  BY <1>1 DEF WantedInv, WantedFor, Excused
<1>4. \A i \in Ids : s.obj[i].stage # "cancelling"
  <2>1. \A i \in Ids : s.obj[i].stage = "cancelling" =>
           \E k \in 1 .. Len(s.calls) : s.calls[k] = i
    BY <1>2 DEF Orderly, InLine
  <2>2. 1 .. Len(s.calls) = {}
    OBVIOUS
  <2>3. QED
    BY <2>1, <2>2
<1>5. CASE s.tag = NoId
  <2>1. \A i \in Ids : s.obj[i].stage # "active"
    BY <1>2, <1>5, IdsAssumption DEF Orderly, Reachable
  <2>2. s.want = None
    BY <1>3, <1>5 DEF Wanted
  <2>3. QED
    BY <1>4, <1>5, <2>1, <2>2 DEF Consuming
<1>6. CASE s.tag # NoId
  <2>1. s.tag \in Ids
    BY <1>2, <1>6 DEF NameState
  <2>2. s.obj[s.tag].stage \in Chain \cup {"active"} /\ s.obj[s.tag].link = channel
    BY <1>1, <1>2, <1>6 DEF Orderly, Alive
  <2>3. s.obj[s.tag].stage = "active"
    BY <1>2, <2>1, <2>2 DEF Orderly, ChainIsLast
  <2>4. ~s.obj[s.tag].cancel
    BY <1>3, <2>1, <2>3 DEF Marked
  <2>5. s.want # None /\ s.obj[s.tag].cb = s.want
    BY <1>3, <1>6, <2>4 DEF Wanted
  <2>6. QED
    BY <2>1, <2>3, <2>5 DEF Consuming
<1>7. QED
  BY <1>5, <1>6

(* Once all calls are answered and no timer runs, what consumes is what    *)
(* the application asked for last, and nothing if it withdrew that         *)
(* (notification.js:198-348), for names that no link or timer excuses.     *)
THEOREM AgreementAlways == Spec => []Agreement
BY RestAgrees, Invariance, WantedAlways, PTL

(* What is served is what is wanted. *)
LEMMA ServingIs ==
    ASSUME NEW s \in NameState, Active(s) => Reachable(s) /\ Marked(s) /\ Wanted(s)
    PROVE  /\ Serving(s) = IF Active(s) THEN s.want ELSE None
           /\ Active(s) => s.want \in Callbacks
<1>1. CASE ~Active(s)
  <2>1. {i \in Ids : s.obj[i].stage = "active"} = {}
    BY <1>1 DEF Active
  <2>2. QED
    BY <1>1, <2>1 DEF Serving
<1>2. CASE Active(s)
  <2> PICK i \in Ids : s.obj[i].stage = "active"
    BY <1>2 DEF Active
  <2>1. \A j \in Ids : s.obj[j].stage = "active" => j = i
    BY <1>2 DEF Reachable
  <2>2. {j \in Ids : s.obj[j].stage = "active"} = {i}
    BY <2>1
  <2>3. Serving(s) = s.obj[i].cb
    BY <2>2 DEF Serving
  <2>4. s.tag = i /\ i # NoId /\ ~s.obj[i].cancel
    BY <1>2, IdsAssumption DEF Reachable, Marked
  <2>5. s.want # None /\ s.obj[i].cb = s.want
    BY <1>2, <2>4 DEF Wanted
  <2>6. QED
    BY <1>2, <2>3, <2>5 DEF NameState
<1>3. QED
  BY <1>1, <1>2

(* The same of a name, before a step and after it.                         *)
LEMMA NameServing ==
    ASSUME Inv, WantedInv, NEW n \in Names, NEW s, s = sub[n], ~Excused(s)
    PROVE  /\ Serving(s) = IF Active(s) THEN s.want ELSE None
           /\ Active(s) => s.want \in Callbacks
           /\ s.want \in Callbacks \cup {None}
<1>1. s \in NameState /\ InUse(s, connected, Up) /\ WantedFor(s, connected, Up)
  BY NameInUse DEF WantedInv
<1>2. Active(s) => Reachable(s) /\ Marked(s) /\ Wanted(s)
  BY <1>1 DEF InUse, WantedFor, Excused
<1>3. QED
  BY <1>1, <1>2, ServingIs DEF NameState

(* Every step serves each name as a Roster does.                           *)

LEMMA NameServingNext ==
    ASSUME Inv', WantedInv', NEW n \in Names, ~Excused(sub[n])'
    PROVE  /\ Serving(sub[n])' = IF Active(sub[n])' THEN sub'[n].want ELSE None
           /\ Active(sub[n])' => sub'[n].want \in Callbacks
           /\ sub'[n].want \in Callbacks \cup {None}
<1> PICK t : t = sub'[n]
  OBVIOUS
<1>1. t \in NameState /\ NameInv(n)' /\ WantedFor(t, connected', Up')
  BY DEF Inv, SubInv, TypeOK, WantedInv
<1>2. ~Excused(t)
  BY DEF Excused
<1>3. Reachable(t) /\ Marked(t) /\ (Active(t) => Up')
  BY <1>1, <1>2 DEF NameInv, Orderly, InPlace, Active, Excused, WantedFor
<1>4. Active(t) => Wanted(t)
  BY <1>1, <1>2, <1>3 DEF WantedFor
<1>5. /\ Serving(t) = IF Active(t) THEN t.want ELSE None
      /\ Active(t) => t.want \in Callbacks
  BY <1>1, <1>3, <1>4, ServingIs
<1>6. t.want \in Callbacks \cup {None}
  BY <1>1 DEF NameState
<1>7. /\ Serving(sub[n])' = Serving(t)
      /\ Active(sub[n])' <=> Active(t)
  BY DEF Serving, Active
<1>8. QED
  BY <1>5, <1>6, <1>7

(* Every step serves each name as a Roster does. *)
LEMMA StepIsPromised ==
    ASSUME Inv, WantedInv, Inv', WantedInv', [Next]_vars
    PROVE  Promise!Next
<1>1. ASSUME NEW n \in Names
      PROVE  /\ Excused(sub[n]) => Excused(sub[n])'
             /\ \/ Excused(sub[n])'
                \/ Promise!Ask(n) \/ Promise!Withdraw(n) \/ Promise!Start(n)
                \/ Promise!Stop(n) \/ Promise!Keep(n)
  <2> PICK s : s = sub[n]
    OBVIOUS
  <2> PICK t : t = sub'[n]
    OBVIOUS
  <2> PICK a \in BOOLEAN : a <=> Active(s)
    OBVIOUS
  <2> PICK b \in BOOLEAN : b <=> Active(t)
    OBVIOUS
  <2>1. Follows(s, t)
    BY StepWanted DEF Steps
  <2>2. (Excused(t) <=> Excused(sub[n])') /\ (Active(t) <=> Active(sub[n])')
    BY DEF Excused, Active
  <2>3. ASSUME ~Excused(t)
        PROVE  \/ Promise!Ask(n) \/ Promise!Withdraw(n) \/ Promise!Start(n)
               \/ Promise!Stop(n) \/ Promise!Keep(n)
    <3>1. ~Excused(s)
      BY <2>1, <2>3 DEF Follows
    <3>2. /\ Serving(sub[n]) = IF a THEN s.want ELSE None
          /\ a => s.want \in Callbacks
          /\ s.want \in Callbacks \cup {None}
      BY <3>1, NameServing
    <3>3. /\ Serving(sub[n])' = IF b THEN t.want ELSE None
          /\ b => t.want \in Callbacks
          /\ t.want \in Callbacks \cup {None}
      BY <2>2, <2>3, NameServingNext
    <3>4. a \/ b => t.want \in {s.want, None}
      BY <2>1, <2>3 DEF Follows
    <3>5. CASE ~a /\ ~b
      <4>1. Promise!Ask(n) \/ Promise!Withdraw(n)
        BY <3>2, <3>3, <3>5 DEF Promise!Ask, Promise!Withdraw
      <4>2. QED
        BY <4>1
    <3>6. CASE a /\ ~b
      <4>1. Promise!Stop(n) \/ Promise!Withdraw(n)
        BY <3>3, <3>4, <3>6 DEF Promise!Stop, Promise!Withdraw
      <4>2. QED
        BY <4>1
    <3>7. CASE b
      <4>1. t.want = s.want /\ s.want \in Callbacks
        BY <3>2, <3>3, <3>4, <3>7, NoneAssumption
      <4>2. Promise!Start(n) \/ Promise!Keep(n)
        BY <3>2, <3>3, <3>7, <4>1 DEF Promise!Start, Promise!Keep
      <4>3. QED
        BY <4>2
    <3>8. QED
      BY <3>5, <3>6, <3>7
  <2>4. QED
    BY <2>1, <2>2, <2>3 DEF Follows
<1>2. QED
  BY <1>1 DEF Promise!Next, Excused

(* Names are served as a Roster promises (notification.js:198-348): one    *)
(* callback at a time, the one that is wanted, and none any more once it   *)
(* is withdrawn, until a name is excused.                                  *)
THEOREM NamesAreRoster == Spec => ImplementsRoster
<1>1. Init => Promise!Init
  <2> SUFFICES ASSUME Init
               PROVE  Promise!Init
    OBVIOUS
  <2>1. ASSUME NEW n \in Names
        PROVE  /\ sub[n].want = None
               /\ Serving(sub[n]) = None
               /\ (sub[n].stray \/ sub[n].crossed) = FALSE
    <3>1. sub[n] = NoSubscription
      BY DEF Init
    <3>2. {i \in Ids : sub[n].obj[i].stage = "active"} = {}
      BY <3>1 DEF NoSubscription, NoObject
    <3>3. QED
      BY <3>1, <3>2 DEF NoSubscription, Serving
  <2>2. QED
    BY <2>1 DEF Promise!Init
<1>2. Inv /\ WantedInv /\ Inv' /\ WantedInv' /\ [Next]_vars => [Promise!Next]_(Promise!vars)
  BY StepIsPromised
<1>3. QED
  BY <1>1, <1>2, Invariance, WantedAlways, PTL DEF Spec, ImplementsRoster, Promise!Spec
-----------------------------------------------------------------------------
(* The channel.  Its steps are those of a Notification component, but for  *)
(* a start, which is two of them at once.                                  *)

(* All that the invariants say of one name.                                *)
Fits(s) ==
    /\ s \in NameState
    /\ ~connected => s.tag = NoId /\ \A i \in Ids : s.obj[i].stage # "lost"
    /\ ~s.crossed => Orderly(s, channel, Up, Closing)
    /\ WantedFor(s, connected, Up)

(* Every name fits.                                                        *)
LEMMA NamesFit ==
    ASSUME Inv, WantedInv, NEW n \in Names
    PROVE  Fits(sub[n])
BY DEF Inv, TypeOK, SubInv, NameInv, WantedInv, Fits

(* What the invariant of the link says where the channel calls.            *)
LEMMA InvUsable ==
    ASSUME Inv
    PROVE  /\ connected \in BOOLEAN /\ Up \in BOOLEAN
           /\ Usable \in Links \cup {NoLink}
           /\ channel \in Links \cup {NoLink} /\ channel \notin Closing
           /\ Closing \in SUBSET Links
           /\ Up => connected /\ channel # NoLink
           /\ connected => Usable = IF Up THEN channel ELSE NoLink
           /\ connected => (Up <=> Usable # NoLink)
BY UsableIsUp DEF Inv, TypeOK, ConnTypeOK, Usable, Up, Links, NoLink

(* What consumes of a name that fits is in use.                            *)
LEMMA FitsInUse ==
    ASSUME Inv, NEW s, Fits(s)
    PROVE  InUse(s, connected, Up)
BY DEF Fits, InUse, Orderly, InPlace, Active, Up

(* One name may be given another state that fits.                          *)
LEMMA FitsOne ==
    ASSUME Inv, WantedInv, UNCHANGED connVars,
           NEW n \in Names, NEW t, sub' = [sub EXCEPT ![n] = t], Fits(t)
    PROVE  Inv' /\ WantedInv'
<1>1. SubInv'
  BY SubInvOne DEF Inv, Fits
<1>2. TypeOK' /\ LinkInv'
  <2>1. TypeOK'
    BY DEF Inv, TypeOK, ConnTypeOK, connVars, Fits
  <2>2. LinkInv'
    BY DEF Inv, LinkInv, connVars, Attempting
  <2>3. QED
    BY <2>1, <2>2
<1>3. WantedInv'
  <2>1. SUFFICES ASSUME NEW m \in Names PROVE WantedFor(sub[m], connected, Up)'
    BY DEF WantedInv
  <2>2. connected' = connected /\ Up' = Up
    BY DEF connVars, Up
  <2>3. sub'[m] = IF m = n THEN t ELSE sub[m]
    BY DEF Inv, TypeOK
  <2>4. WantedFor(sub'[m], connected, Up)
    BY <2>3 DEF Fits, WantedInv
  <2>5. QED
    BY <2>2, <2>4
<1>4. QED
  BY <1>1, <1>2, <1>3 DEF Inv

(* unsubscribe() of a name that fits; it needs no room.                    *)
LEMMA UnrequestFits ==
    ASSUME Inv, NEW s, Fits(s), NEW r, r = Unrequest(s, connected, Usable)
    PROVE  Fits(r) /\ r.want = None
<1>1. s \in NameState /\ Marked(s) /\ InUse(s, connected, Up) /\ WantedFor(s, connected, Up)
  BY FitsInUse DEF Fits, WantedFor
<1>2. r \in NameState
  BY <1>1, InvUsable, UnrequestType
<1>3. /\ r.crossed = s.crossed
      /\ ~connected => r.tag = s.tag /\ r.obj = s.obj /\ r.calls = s.calls
  BY <1>1, InvUsable, UnrequestKeeps
<1>4. ~r.crossed => Orderly(r, channel, Up, Closing)
  <2>1. CASE connected
    <3>1. r = Unrequest(s, TRUE, IF Up THEN channel ELSE NoLink)
      BY <2>1, InvUsable
    <3>2. QED
      BY <1>1, <1>3, <3>1, InvUsable, UnrequestOrderly DEF Fits
  <2>2. CASE ~connected
    BY <1>3, <2>2, OrderlyFrame DEF Fits
  <2>3. QED
    BY <2>1, <2>2
<1>5. /\ Marked(r) /\ r.want = None
      /\ ~Excused(r) => r.buffered = None
      /\ ~Excused(r) => ~Excused(s)
      /\ connected => r.buffered = s.buffered
      /\ ~connected => Timers(r) = Timers(s)
      /\ connected /\ Usable # NoLink /\ ~Excused(r) => Wanted(r)
  BY <1>1, InvUsable, UnrequestWanted
<1>6. WantedFor(r, connected, Up)
  BY <1>1, <1>5, InvUsable DEF WantedFor
<1>7. QED
  BY <1>2, <1>3, <1>4, <1>5, <1>6 DEF Fits

(* ... and leaves as much room.                                            *)
LEMMA UnrequestRoom ==
    ASSUME NEW s \in NameState, NEW con \in BOOLEAN, NEW g \in Links \cup {NoLink}, Room(s)
    PROVE  Room(Unrequest(s, con, g))
<1>1. PICK i \in Ids : s.obj[i].stage = "idle" /\ s.obj[i].timer = None /\ s.tag # i
  BY DEF Room, Spare
<1> PICK t : t = IF con THEN Withdraw(s, g) ELSE [s EXCEPT !.buffered = None]
  OBVIOUS
<1>2. t.obj[i] = s.obj[i] /\ t.tag \in {s.tag, NoId}
  <2>1. CASE ~con \/ s.tag = NoId
    BY <2>1 DEF Withdraw, NameState
  <2>2. CASE con /\ s.tag # NoId
    <3>1. \A o : /\ Set(s, s.tag, o).obj[i] = s.obj[i]
                 /\ Set(s, s.tag, o).tag = s.tag
      BY <1>1 DEF Set, NameState
    <3>2. CASE s.obj[s.tag].stage \notin {"active", "lost"}
      BY <2>2, <3>1, <3>2 DEF Withdraw, CancelLater
    <3>3. CASE s.obj[s.tag].stage \in {"active", "lost"}
      BY <1>1, <2>2, <3>3 DEF Withdraw, Set, NameState
    <3>4. QED
      BY <3>2, <3>3
  <2>3. QED
    BY <2>1, <2>2
<1> PICK r : r = Unrequest(s, con, g)
  OBVIOUS
<1>3. r = [t EXCEPT !.want = None, !.stray = s.stray \/ Leftover(t)]
  BY DEF Unrequest
<1>4. t \in NameState
  BY WithdrawType DEF NameState
<1>5. r.obj = t.obj /\ r.tag = t.tag
  BY <1>3, <1>4 DEF NameState
<1>6. i \in Spare(r)
  BY <1>1, <1>2, <1>5, IdsAssumption DEF Spare
<1>7. QED
  BY <1>6 DEF Room

(* subscribe() of a name that fits.                                        *)
LEMMA RequestFits ==
    ASSUME Inv, NEW s, Fits(s), Room(s) \/ s.tag # NoId, NEW c \in Callbacks,
           NEW r, r = Request(s, connected, Usable, c)
    PROVE  Fits(r)
<1>1. s \in NameState /\ InUse(s, connected, Up) /\ WantedFor(s, connected, Up)
  BY FitsInUse DEF Fits
<1>2. r \in NameState
  BY <1>1, InvUsable, RequestType
<1>3. /\ r.crossed = s.crossed
      /\ ~connected => r.tag = s.tag /\ r.obj = s.obj /\ r.calls = s.calls
  BY <1>1, InvUsable, RequestKeeps
<1>4. ~r.crossed => Orderly(r, channel, Up, Closing)
  <2>1. CASE connected
    <3>1. r = Request(s, TRUE, IF Up THEN channel ELSE NoLink, c)
      BY <2>1, InvUsable
    <3>2. QED
      BY <1>1, <1>3, <3>1, InvUsable, RequestOrderly DEF Fits
  <2>2. CASE ~connected
    BY <1>3, <2>2, OrderlyFrame DEF Fits
  <2>3. QED
    BY <2>1, <2>2
<1>5. WantedFor(r, connected, Up)
  BY <1>1, InvUsable, RequestWanted
<1>6. QED
  BY <1>2, <1>3, <1>4, <1>5 DEF Fits

(* onStart(): what is started is wanted, unless amqplib throws.            *)
LEMMA StartedFits ==
    ASSUME Inv, NEW s, Fits(s), Room(s), NEW c \in Callbacks, NEW r, r = Started(s, c)
    PROVE  Fits(r) /\ (r.want = c \/ (connected /\ ~Up))
<1> PICK u : u = Unrequest(s, connected, Usable)
  OBVIOUS
<1>1. Fits(u) /\ u.want = None /\ u \in NameState /\ s \in NameState
  BY UnrequestFits DEF Fits
<1>2. CASE Throws(s)
  <2>1. r = u /\ connected /\ ~Up
    BY <1>2, InvUsable DEF Throws, Started, Stopped
  <2>2. QED
    BY <1>1, <2>1
<1>3. CASE ~Throws(s)
  <2>1. r = Request(u, connected, Usable, c)
    BY <1>3 DEF Started, Stopped
  <2>2. Room(u)
    BY <1>1, InvUsable, UnrequestRoom
  <2>3. Fits(r)
    BY <1>1, <2>1, <2>2, RequestFits
  <2>4. connected => u.tag = NoId \/ u.obj[u.tag].cancel
    <3>1. SUFFICES ASSUME connected PROVE u.tag = NoId \/ u.obj[u.tag].cancel
      OBVIOUS
    <3> PICK t : t = Withdraw(s, Usable)
      OBVIOUS
    <3>2. t \in NameState
      BY <1>1, InvUsable, WithdrawType
    <3>3. u = [t EXCEPT !.want = None, !.stray = s.stray \/ Leftover(t)]
      BY <3>1 DEF Unrequest
    <3>4. u.tag = t.tag /\ u.obj = t.obj
      BY <3>2, <3>3 DEF NameState
    <3>5. t.tag = NoId \/ t.obj[t.tag].cancel
      <4>1. CASE s.tag = NoId
        BY <4>1 DEF Withdraw
      <4>2. CASE s.tag # NoId /\ s.obj[s.tag].stage \notin {"active", "lost"}
        BY <1>1, <4>2 DEF Withdraw, CancelLater, Set, NameState, Object
      <4>3. CASE s.tag # NoId /\ s.obj[s.tag].stage \in {"active", "lost"}
        <5>1. Usable # NoLink
          BY <1>3, <3>1, <4>3 DEF Throws
        <5>2. t = [Set(s, s.tag, [s.obj[s.tag] EXCEPT !.stage = "cancelling"])
                     EXCEPT !.tag = NoId, !.calls = Append(s.calls, s.tag)]
          BY <4>3, <5>1 DEF Withdraw
        <5>3. QED
          BY <1>1, <5>2 DEF Set, NameState
      <4>4. QED
        BY <4>1, <4>2, <4>3
    <3>6. QED
      BY <3>4, <3>5
  <2>5. r.want = c
    <3>1. CASE connected
      <4>1. Subscribe(u, Usable, c) \in NameState
        BY <1>1, <2>2, InvUsable, SubscribeType
      <4>2. r = [Subscribe(u, Usable, c) EXCEPT !.want = c]
        BY <2>1, <2>4, <3>1 DEF Request
      <4>3. QED
        BY <4>1, <4>2 DEF NameState
    <3>2. CASE ~connected
      BY <1>1, <2>1, <3>2 DEF Request, NameState
    <3>3. QED
      BY <3>1, <3>2
  <2>6. QED
    BY <2>3, <2>5
<1>4. QED
  BY <1>2, <1>3

(* Nothing is asked for by a socket that is not there; what is asked for   *)
(* is wanted of the component, but where amqplib threw on a lost channel,  *)
(* which is not used again.                                                *)
AskedInv ==
    /\ socket \in [Names -> {"expected", "connected", "gone"}]
    /\ asked \in [Names -> Callbacks \cup {None}]
    /\ \A n \in Names :
          /\ socket[n] # "connected" => asked[n] = None
          /\ asked[n] = sub[n].want \/ (connected /\ ~Up)

(* subscribe() by a timer or of the buffer changes no wish.                *)
LEMMA SubscribeWish ==
    ASSUME NEW s \in NameState, NEW g, NEW c
    PROVE  Subscribe(s, g, c).want = s.want
BY DEF Subscribe, Wait, Set, NameState

(* What the component does by itself changes no wish.                      *)
LEMMA WishStays ==
    ASSUME Inv, Below, NEW n \in Names
    PROVE  sub'[n].want = sub[n].want
<1>1. \A m \in Names : sub[m] \in NameState
  BY DEF Inv, TypeOK
<1>2. CASE sub' = sub
  BY <1>2
<1>3. ASSUME NEW g \in Links, Attach(g)
      PROVE  sub'[n].want = sub[n].want
  <2>1. PICK e \in [Names -> ListenerCalls] :
          sub' = [m \in Names |-> ApplyBuffer(Listen(sub[m], g, e[m]), g)]
    BY <1>3 DEF Attach
  <2>2. e[n] = "nothing"
    BY SocketsAssumption
  <2>3. Listen(sub[n], g, e[n]) = sub[n]
    BY <2>2, ListenerAssumption DEF Listen
  <2>4. sub'[n] = ApplyBuffer(sub[n], g)
    BY <2>1, <2>3
  <2>5. CASE sub[n].buffered = None
    BY <2>4, <2>5 DEF ApplyBuffer
  <2>6. CASE sub[n].buffered # None
    <3> PICK c \in Callbacks : c = sub[n].buffered
      BY <1>1, <2>6 DEF NameState
    <3> PICK t : t = Subscribe(sub[n], g, c)
      OBVIOUS
    <3>1. Room(sub[n])
      BY <1>3 DEF Attach
    <3>2. t \in NameState /\ t.want = sub[n].want
      BY <1>1, <3>1, SubscribeType, SubscribeWish
    <3>3. sub'[n] = [t EXCEPT !.buffered = None]
      BY <2>4, <2>6 DEF ApplyBuffer
    <3>4. QED
      BY <3>2, <3>3 DEF NameState
  <2>7. QED
    BY <2>5, <2>6
<1>4. ASSUME NEW g \in Links, Lose(g) \/ Settle(g)
      PROVE  sub'[n].want = sub[n].want
  <2>1. \A h : Reject(sub[n], g, h).want = sub[n].want
    BY <1>1 DEF Reject, NameState
  <2>2. \E h : sub'[n] = Reject(sub[n], g, h)
    BY <1>4 DEF Lose, Settle
  <2>3. QED
    BY <2>1, <2>2
<1>5. ASSUME NEW m \in Names, Answer(m)
      PROVE  sub'[n].want = sub[n].want
  <2>1. sub' = [sub EXCEPT ![m] = Reply(sub[m])]
    BY <1>5 DEF Answer
  <2>2. Reply(sub[m]).want = sub[m].want
    <3> PICK s \in NameState : s = sub[m]
      BY <1>1
    <3>1. \A i, stage, q : /\ Step(s, i, stage, q).want = s.want
                           /\ [Step(s, i, stage, q) EXCEPT !.tag = NoId].want = s.want
      BY DEF Step, Set, NameState
    <3>2. \A i, q : Consumed(s, i, q).want = s.want
      BY <3>1 DEF Consumed
    <3>3. QED
      BY <3>1, <3>2 DEF Reply
  <2>3. QED
    BY <1>1, <2>1, <2>2 DEF Inv, TypeOK
<1>6. ASSUME NEW m \in Names, NEW i \in Ids, TimerFires(m, i)
      PROVE  sub'[n].want = sub[n].want
  <2> PICK s \in NameState : s = sub[m]
    BY <1>1
  <2>1. sub' = [sub EXCEPT ![m] = Expire(s, i, connected, Usable)] /\ Room(s) /\ i \in Timers(s)
    BY <1>6 DEF TimerFires
  <2>2. Expire(s, i, connected, Usable).want = s.want
    <3> PICK c : c = s.obj[i].timer
      OBVIOUS
    <3>1. i \in Ids /\ c \in Callbacks
      BY <2>1 DEF Timers, NameState, Object
    <3>2. [s.obj[i] EXCEPT !.timer = None] \in Object
      BY <3>1 DEF NameState, Object
    <3> PICK t : t = Set(s, i, [s.obj[i] EXCEPT !.timer = None])
      OBVIOUS
    <3>3. t \in NameState /\ t.want = s.want
      BY <3>1, <3>2, SetType DEF Set, NameState
    <3>4. Subscribe(t, Usable, c).want = t.want
      BY <3>3, SubscribeWish
    <3>5. Expire(s, i, connected, Usable) =
             IF connected THEN Subscribe(t, Usable, c) ELSE [t EXCEPT !.buffered = c]
      BY DEF Expire
    <3>6. QED
      BY <3>3, <3>4, <3>5 DEF NameState
  <2>3. QED
    BY <1>1, <2>1, <2>2 DEF Inv, TypeOK
<1>7. QED
  BY <1>2, <1>3, <1>4, <1>5, <1>6 DEF Below, Open

(* ... and a component whose channel was lost stays as it is.              *)
LEMMA LostStays ==
    ASSUME Inv, Below, connected, ~Up
    PROVE  connected' /\ ~Up'
<1>1. ASSUME NEW g \in Links,
             \/ Open(g) \/ ConnectionOpened(g) \/ ConnectFailed(g)
             \/ ChannelOpened(g) \/ ConnectionClosed(g)
      PROVE  connected' /\ ~Up'
  BY <1>1 DEF Open, Connect, ConnectionOpened, ConnectFailed, ChannelOpened,
     ConnectionClosed, Up, Inv, TypeOK, ConnTypeOK, LinkInv, Attempting
<1>2. ASSUME NEW g \in Links, Attach(g)
      PROVE  FALSE
  BY <1>2 DEF Attach, ExchangeDeclared, Inv, LinkInv, Attempting
<1>3. ASSUME NEW g \in Links, Lose(g) \/ Settle(g)
      PROVE  connected' /\ ~Up'
  BY <1>3 DEF Lose, Settle, ChannelLost, ConnectionLost, ChannelClosed, Up,
     Inv, TypeOK, ConnTypeOK
<1>4. ASSUME UNCHANGED connVars
      PROVE  connected' /\ ~Up'
  BY <1>4 DEF connVars, Up
<1>5. QED
  BY <1>1, <1>2, <1>3, <1>4 DEF Below, Answer, TimerFires

(* What a socket asks for changes its own name only.                       *)
LEMMA SocketAsks ==
    ASSUME Inv, WantedInv, AskedInv, UNCHANGED connVars,
           NEW n \in Names, NEW t, NEW k \in {"connected", "gone"},
           NEW c \in Callbacks \cup {None}, k = "gone" => c = None,
           Fits(t), t.want = c \/ (connected /\ ~Up),
           sub' = [sub EXCEPT ![n] = t],
           socket' = [socket EXCEPT ![n] = k],
           asked' = [asked EXCEPT ![n] = c]
    PROVE  Inv' /\ WantedInv' /\ AskedInv'
<1>1. Inv' /\ WantedInv'
  BY FitsOne
<1>2. connected' = connected /\ Up' = Up
  BY DEF connVars, Up
<1>3. /\ socket' \in [Names -> {"expected", "connected", "gone"}]
      /\ asked' \in [Names -> Callbacks \cup {None}]
  BY DEF AskedInv
<1>4. ASSUME NEW m \in Names
      PROVE  /\ socket'[m] # "connected" => asked'[m] = None
             /\ asked'[m] = sub'[m].want \/ (connected /\ ~Up)
  <2>1. CASE m = n
    BY <2>1 DEF AskedInv, Inv, TypeOK
  <2>2. CASE m # n
    BY <2>2 DEF AskedInv, Inv, TypeOK
  <2>3. QED
    BY <2>1, <2>2
<1>5. AskedInv'
  BY <1>2, <1>3, <1>4 DEF AskedInv
<1>6. QED
  BY <1>1, <1>5

(* onStop(), for a socket that stops, disconnects, or is long gone.        *)
LEMMA SocketStops ==
    ASSUME Inv, WantedInv, AskedInv, UNCHANGED connVars, NEW n \in Names, OnStop(n),
           NEW k \in {"connected", "gone"}, socket' = [socket EXCEPT ![n] = k]
    PROVE  Inv' /\ WantedInv' /\ AskedInv'
<1> PICK t : t = Stopped(sub[n])
  OBVIOUS
<1>1. Fits(t) /\ t.want = None
  BY NamesFit, UnrequestFits DEF Stopped
<1>2. sub' = [sub EXCEPT ![n] = t] /\ asked' = [asked EXCEPT ![n] = None]
  BY DEF OnStop
<1>3. QED
  BY <1>1, <1>2, SocketAsks

(* Every step of a channel keeps the invariant.                            *)
LEMMA ChannelStep ==
    ASSUME Inv, WantedInv, AskedInv, [ChannelNext]_chanVars
    PROVE  Inv' /\ WantedInv' /\ AskedInv'
<1>1. ASSUME [Next]_vars
      PROVE  Inv' /\ WantedInv'
  BY <1>1, InvStep, StepWanted DEF Steps, WantedInv
<1>2. socket \in [Names -> {"expected", "connected", "gone"}] /\ sub \in [Names -> NameState]
  BY DEF AskedInv, Inv, TypeOK
<1>3. ASSUME UNCHANGED <<vars, asked>>,
             socket' \in [Names -> {"expected", "connected", "gone"}],
             \A n \in Names : socket'[n] # "connected" => socket'[n] = socket[n]
      PROVE  Inv' /\ WantedInv' /\ AskedInv'
  <2>1. Inv' /\ WantedInv'
    BY <1>1, <1>3
  <2>2. connected' = connected /\ Up' = Up /\ sub' = sub
    BY <1>3 DEF vars, connVars, Up
  <2>3. AskedInv'
    BY <1>3, <2>2 DEF AskedInv
  <2>4. QED
    BY <2>1, <2>3
<1>4. CASE Below /\ UNCHANGED <<socket, asked>>
  <2>1. Next
    BY <1>4 DEF Below, Next
  <2>2. \A n \in Names : sub'[n].want = sub[n].want
    BY <1>4, WishStays
  <2>3. connected /\ ~Up => connected' /\ ~Up'
    BY <1>4, LostStays
  <2>4. AskedInv'
    BY <1>4, <2>2, <2>3 DEF AskedInv
  <2>5. QED
    BY <1>1, <2>1, <2>4
<1>5. CASE Detach /\ asked' = [n \in Names |-> None] /\ UNCHANGED socket
  <2>1. Next
    BY <1>5 DEF Next
  <2>2. \A n \in Names : sub'[n].want = None
    BY <1>2, <1>5 DEF Detach, Forget, NameState
  <2>3. AskedInv'
    BY <1>5, <2>2 DEF AskedInv
  <2>4. QED
    BY <1>1, <2>1, <2>3
<1>6. ASSUME NEW n \in Names, SocketConnects(n)
      PROVE  Inv' /\ WantedInv' /\ AskedInv'
  BY <1>2, <1>3, <1>6 DEF SocketConnects
<1>7. ASSUME NEW n \in Names, NEW c \in Callbacks, OnStart(n, c)
      PROVE  Inv' /\ WantedInv' /\ AskedInv'
  <2> PICK t : t = Started(sub[n], c)
    OBVIOUS
  <2>1. Fits(t) /\ (t.want = c \/ (connected /\ ~Up))
    BY <1>7, NamesFit, StartedFits DEF OnStart
  <2>2. /\ sub' = [sub EXCEPT ![n] = t] /\ asked' = [asked EXCEPT ![n] = c]
        /\ UNCHANGED connVars
        /\ socket' = [socket EXCEPT ![n] = "connected"]
    BY <1>2, <1>7 DEF OnStart
  <2>3. QED
    BY <2>1, <2>2, SocketAsks
<1>8. ASSUME NEW n \in Names, Stop(n) \/ Disconnect(n)
      PROVE  Inv' /\ WantedInv' /\ AskedInv'
  <2>1. OnStop(n) /\ UNCHANGED connVars
    BY <1>8 DEF Stop, Disconnect
  <2>2. PICK k \in {"connected", "gone"} : socket' = [socket EXCEPT ![n] = k]
    BY <1>2, <1>8 DEF Stop, Disconnect
  <2>3. QED
    BY <2>1, <2>2, SocketStops
<1>9. ASSUME NEW n \in Names, Notified(n)
      PROVE  Inv' /\ WantedInv' /\ AskedInv'
  <2>1. CASE socket[n] = "gone"
    <3>1. OnStop(n) /\ UNCHANGED connVars /\ socket' = [socket EXCEPT ![n] = "gone"]
      BY <1>2, <1>9, <2>1 DEF Notified, Receive
    <3>2. QED
      BY <3>1, SocketStops
  <2>2. CASE socket[n] # "gone"
    BY <1>2, <1>3, <1>9, <2>2 DEF Notified, Receive, vars
  <2>3. QED
    BY <2>1, <2>2
<1>10. CASE UNCHANGED chanVars
  BY <1>2, <1>3, <1>10 DEF chanVars
<1>11. QED
  BY <1>4, <1>5, <1>6, <1>7, <1>8, <1>9, <1>10 DEF ChannelNext

(* In a channel all that holds of a Notification component still does, and *)
(* sockets ask for what is wanted.                                         *)
LEMMA ChannelInvariance == ChannelSpec => [](Inv /\ WantedInv /\ AskedInv)
<1>1. ChannelInit => Inv /\ WantedInv /\ AskedInv
  <2> SUFFICES ASSUME ChannelInit PROVE Inv /\ WantedInv /\ AskedInv
    OBVIOUS
  <2>1. Inv /\ WantedInv
    BY InvInit, WantedInit DEF ChannelInit
  <2>2. AskedInv
    BY DEF ChannelInit, AskedInv, Init, NoSubscription
  <2>3. QED
    BY <2>1, <2>2
<1>2. Inv /\ WantedInv /\ AskedInv /\ [ChannelNext]_chanVars => (Inv /\ WantedInv /\ AskedInv)'
  BY ChannelStep
<1>3. QED
  BY <1>1, <1>2, PTL DEF ChannelSpec

(* A channel's sockets have one consumer each at most, none that a stop    *)
(* would not find, and none that waits for nothing (channel.js:84-147 over *)
(* notification.js:198-348).                                               *)
THEOREM ChannelConsumers ==
    ChannelSpec => [](OneConsumer /\ ConsumerIsReachable /\ NoDeadEntry /\ OneLink)
BY InvHolds, ChannelInvariance, PTL

(* No socket hears of a target that it has stopped, left for another, or   *)
(* asked for before it was gone, and it hears of the one it started last   *)
(* when all answers are there (channel.js:86-145), unless its name is      *)
(* excused.                                                                *)
THEOREM SocketsHear == ChannelSpec => []Hears
<1>1. Inv /\ WantedInv /\ AskedInv => Hears
  <2> SUFFICES ASSUME Inv, WantedInv, AskedInv, NEW n \in Names, ~Excused(sub[n])
               PROVE  /\ \A i \in Ids : sub[n].obj[i].stage = "active" =>
                            socket[n] = "connected" /\ sub[n].obj[i].cb = asked[n]
                      /\ Linked /\ sub[n].calls = <<>> /\ Timers(sub[n]) = {} /\ asked[n] # None =>
                            \E i \in Ids : sub[n].obj[i].stage = "active"
    BY DEF Hears, Excused
  <2> PICK s \in NameState : s = sub[n]
    BY DEF Inv, TypeOK
  <2>1. InUse(s, connected, Up) /\ WantedFor(s, connected, Up) /\ ~s.crossed
    BY NameInUse DEF WantedInv, Excused
  <2>2. Up => connected /\ asked[n] = s.want
    BY InvUsable DEF AskedInv
  <2>3. ASSUME NEW i \in Ids, s.obj[i].stage = "active"
        PROVE  socket[n] = "connected" /\ s.obj[i].cb = asked[n]
    <3>1. Up /\ s.tag = i /\ ~s.obj[i].cancel
      BY <2>1, <2>3 DEF InUse, Active, Reachable, WantedFor, Marked
    <3>2. s.want # None /\ s.obj[i].cb = s.want
      BY <2>1, <3>1, IdsAssumption DEF WantedFor, Wanted
    <3>3. QED
      BY <2>2, <3>1, <3>2 DEF AskedInv
  <2>4. ASSUME Linked, s.calls = <<>>, Timers(s) = {}, asked[n] # None
        PROVE  \E i \in Ids : s.obj[i].stage = "active"
    <3>1. Up /\ s.want # None
      BY <2>2, <2>4, InvUsable DEF Linked
    <3>2. s.tag \in Consuming(s)
      BY <2>4, <3>1, RestAgrees DEF Agreement, Excused
    <3>3. s.tag \in Ids /\ s.obj[s.tag].stage # "cancelling"
      <4>1. Orderly(s, channel, Up, Closing)
        BY <2>1, NameInUse
      <4>2. QED
        BY <3>2, <4>1 DEF Orderly, InLine, Consuming
    <3>4. QED
      BY <3>2, <3>3 DEF Consuming
  <2>5. QED
    BY <2>3, <2>4
<1>2. QED
  BY <1>1, ChannelInvariance, PTL
=============================================================================
