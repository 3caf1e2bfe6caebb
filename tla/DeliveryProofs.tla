---------------------------- MODULE DeliveryProofs ----------------------------
(***************************************************************************)
(* Notifications in flight, for any number of links and notifications:     *)
(* publications leave in order, and the shared queue gives and settles as  *)
(* a WorkQueue promises, however the links come and go.                    *)
(***************************************************************************)
EXTENDS Delivery, FiniteSetTheorems, SequenceTheorems, TLAPS

(* One link is in use or being built at a time; a channel in use is the    *)
(* component's, on the component's connection.                             *)
LinkInv ==
    /\ \A g, h \in Links : Attempting(g) /\ Attempting(h) => g = h
    /\ connected => /\ channel # NoLink
                    /\ chan[channel] \in {"up", "down"}
                    /\ connection = channel
    /\ ~connected /\ channel # NoLink => chan[channel] \in {"declaring", "down"}
    /\ \A g \in Links :
          /\ Attempting(g) => ~connected
          /\ conn[g] \in {"none", "dialing"} => chan[g] = "none"
          /\ chan[g] \in {"opening", "declaring", "up"} => conn[g] = "open"
          /\ chan[g] \in {"opening", "declaring"} => connection = g
          /\ chan[g] = "declaring" => channel = g
          /\ chan[g] = "up" => connected /\ channel = g
          /\ conn[g] = "closing" => chan[g] = "down"
          /\ closeNext[g] # NoLink => closeNext[g] = g /\ chan[g] = "closing"

(* What was written waits on channels that the broker still reads; before  *)
(* the exchange is declared there are only acknowledgments.                *)
WrittenInv ==
    \A g \in Links : \A i \in DOMAIN pipe[g] :
        /\ chan[g] \in {"declaring", "up", "closing"}
        /\ pipe[g][i].do = "publish" => chan[g] # "declaring"

(* Publications are in order on each link, and in the buffer, which is     *)
(* empty while the component is connected.                                 *)
OrderInv ==
    /\ \A g \in Links : \A i, j \in DOMAIN pipe[g] :
          i < j /\ Ordinary(pipe[g][i]) /\ Ordinary(pipe[g][j]) => pipe[g][i].msg < pipe[g][j].msg
    /\ \A i, j \in DOMAIN outbox : i < j => outbox[i] < outbox[j]
    /\ outbox # <<>> => ~connected

(* A notification is at one place at most, ...                             *)
Placed(m) ==
    /\ Sent(m) \/ Queued(m) \/ Given(m) \/ m \in settled => m <= published
    /\ Queued(m) \/ Given(m) \/ m \in settled => ~Sent(m)
    /\ Queued(m) => ~Given(m) /\ m \notin settled
    /\ Given(m) => m \notin settled
    /\ \A g \in Links : Piped(g, m) => ~Out(m) /\ \A h \in Links \ {g} : ~Piped(h, m)

(* ... and there once.                                                     *)
Once(s) == \A i, j \in DOMAIN s : s[i] = s[j] => i = j

PublishedOnce(s) == \A i, j \in DOMAIN s : s[i].do = "publish" /\ s[i] = s[j] => i = j

PlaceInv ==
    /\ \A m \in Messages : Placed(m)
    /\ Once(queue)
    /\ Once(outbox)
    /\ \A g \in Links : PublishedOnce(pipe[g])

(* Tags tell deliveries of a link apart, the broker waits for one of each  *)
(* link, and what it is told to forget was acknowledged.                   *)
TagsInv ==
    /\ \A d, e \in unacked \cup hand : d.link = e.link /\ d.tag = e.tag => d = e
    /\ \A d \in unacked \cup hand : d.tag <= tags[d.link]
    /\ \A d, e \in unacked : d.link = e.link \/ d.msg = e.msg => d = e
    /\ ~mixed => \A g \in Links : \A i \in DOMAIN pipe[g] :
          pipe[g][i].do = "ack" => /\ pipe[g][i].tag <= tags[g]
                                   /\ \A d \in unacked : d.link = g /\ d.tag = pipe[g][i].tag
                                                         => d.msg \in acked

Inv == TypeOK /\ LinkInv /\ WrittenInv /\ OrderInv /\ PlaceInv /\ TagsInv
-----------------------------------------------------------------------------
(* Links. *)

(* What a step does to the links.                                          *)
LinkStep ==
    \/ Close
    \/ \E g \in Links :
          \/ Open(g) \/ ConnectionOpened(g) \/ ConnectFailed(g) \/ ChannelOpened(g)
          \/ ExchangeDeclared(g) \/ ChannelLost(g) \/ ConnectionLost(g)
          \/ ChannelClosed(g) \/ ConnectionClosed(g)

(* The links and channels have their types.                                *)
LEMMA LinkTypes ==
    ASSUME ConnTypeOK, LinkStep
    PROVE  ConnTypeOK'
<1>1. CASE Close
  BY <1>1 DEF ConnTypeOK, Close, Sendable, ChanStage
<1>2. ASSUME NEW g \in Links,
             \/ Open(g) \/ ConnectionOpened(g) \/ ConnectFailed(g) \/ ChannelOpened(g)
             \/ ExchangeDeclared(g) \/ ChannelLost(g) \/ ConnectionLost(g)
             \/ ChannelClosed(g) \/ ConnectionClosed(g)
      PROVE  ConnTypeOK'
  <2>1. CASE ExchangeDeclared(g)
    BY <2>1 DEF ConnTypeOK, ExchangeDeclared, ChanStage
  <2>2. CASE ~ExchangeDeclared(g)
    BY <1>2, <2>2 DEF ConnTypeOK, Open, Connect, ConnectionOpened, ConnectFailed, ChannelOpened,
       ChannelLost, ConnectionLost, ChannelClosed, ConnectionClosed, ConnStage, ChanStage
  <2>3. QED
    BY <2>1, <2>2
<1>3. QED
  BY <1>1, <1>2 DEF LinkStep

(* The component gives up the link it uses, or one ends.                   *)
LEMMA LinkEnds ==
    ASSUME ConnTypeOK, LinkInv,
           \/ Close
           \/ \E g \in Links : \/ ConnectFailed(g) \/ ChannelLost(g) \/ ConnectionLost(g)
                               \/ ChannelClosed(g) \/ ConnectionClosed(g)
    PROVE  LinkInv'
<1>1. CASE Close
  BY <1>1 DEF ConnTypeOK, LinkInv, Close, Attempting, Sendable, NoLink, Links
<1>2. ASSUME NEW g \in Links, ConnectFailed(g)
      PROVE  LinkInv'
  BY <1>2 DEF ConnTypeOK, LinkInv, ConnectFailed, Attempting, NoLink, Links
<1>3. ASSUME NEW g \in Links, ChannelLost(g)
      PROVE  LinkInv'
  BY <1>3 DEF ConnTypeOK, LinkInv, ChannelLost, Attempting, NoLink, Links
<1>4. ASSUME NEW g \in Links, ConnectionLost(g)
      PROVE  LinkInv'
  BY <1>4 DEF ConnTypeOK, LinkInv, ConnectionLost, Attempting, NoLink, Links
<1>5. ASSUME NEW g \in Links, ChannelClosed(g)
      PROVE  LinkInv'
  BY <1>5 DEF ConnTypeOK, LinkInv, ChannelClosed, Attempting, NoLink, Links
<1>6. ASSUME NEW g \in Links, ConnectionClosed(g)
      PROVE  LinkInv'
  BY <1>6 DEF ConnTypeOK, LinkInv, ConnectionClosed, Attempting, NoLink, Links
<1>7. QED
  BY <1>1, <1>2, <1>3, <1>4, <1>5, <1>6

(* A link is being built.                                                  *)
LEMMA LinkBuilt ==
    ASSUME ConnTypeOK, LinkInv, NEW g \in Links,
           Open(g) \/ ConnectionOpened(g) \/ ChannelOpened(g) \/ ExchangeDeclared(g)
    PROVE  LinkInv'
<1>1. CASE Open(g)
  BY <1>1 DEF ConnTypeOK, LinkInv, Open, Connect, Attempting, NoLink, Links
<1>2. CASE ConnectionOpened(g)
  BY <1>2 DEF ConnTypeOK, LinkInv, ConnectionOpened, Attempting, NoLink, Links
<1>3. CASE ChannelOpened(g)
  BY <1>3 DEF ConnTypeOK, LinkInv, ChannelOpened, Attempting, NoLink, Links
<1>4. CASE ExchangeDeclared(g)
  BY <1>4 DEF ConnTypeOK, LinkInv, ExchangeDeclared, Attempting, NoLink, Links
<1>5. QED
  BY <1>1, <1>2, <1>3, <1>4

(* A step of the connection keeps the invariant of the links.              *)
LEMMA LinkKeeps ==
    ASSUME ConnTypeOK, LinkInv, LinkStep \/ UNCHANGED connVars
    PROVE  ConnTypeOK' /\ LinkInv'
<1>1. CASE LinkStep
  BY <1>1, LinkTypes, LinkEnds, LinkBuilt DEF LinkStep
<1>2. CASE UNCHANGED connVars
  BY <1>2 DEF connVars, ConnTypeOK, LinkInv, Attempting
<1>3. QED
  BY <1>1, <1>2

-----------------------------------------------------------------------------
(* Sequences without what was added, or taken, twice. *)

(* What an appended element adds.                                          *)
LEMMA InAppend ==
    ASSUME NEW S, NEW s \in Seq(S), NEW e \in S
    PROVE  /\ Append(s, e) \in Seq(S)
           /\ \A x : Contains(Append(s, e), x) <=> Contains(s, x) \/ x = e
           /\ Once(s) /\ ~Contains(s, e) => Once(Append(s, e))
           /\ PublishedOnce(s) /\ (Contains(s, e) => e.do # "publish") => PublishedOnce(Append(s, e))
<1>1. /\ Append(s, e) \in Seq(S) /\ Len(s) \in Nat /\ Len(Append(s, e)) = Len(s) + 1
      /\ \A i \in 1 .. Len(s) : Append(s, e)[i] = s[i]
      /\ Append(s, e)[Len(s) + 1] = e
      /\ DOMAIN s = 1 .. Len(s) /\ DOMAIN Append(s, e) = 1 .. Len(s) + 1
  BY AppendProperties
<1>2. ASSUME NEW x
      PROVE  Contains(Append(s, e), x) <=> Contains(s, x) \/ x = e
  BY <1>1 DEF Contains
<1>3. ASSUME Once(s), ~Contains(s, e)
      PROVE  Once(Append(s, e))
  BY <1>1, <1>3 DEF Once, Contains
<1>4. ASSUME PublishedOnce(s), Contains(s, e) => e.do # "publish"
      PROVE  PublishedOnce(Append(s, e))
  BY <1>1, <1>4 DEF PublishedOnce, Contains
<1>5. QED
  BY <1>1, <1>2, <1>3, <1>4

(* What the tail of a sequence keeps.                                      *)
LEMMA InTail ==
    ASSUME NEW S, NEW s \in Seq(S), s # <<>>
    PROVE  /\ Tail(s) \in Seq(S) /\ Head(s) \in S
           /\ \A x : Contains(s, x) <=> x = Head(s) \/ Contains(Tail(s), x)
           /\ Once(s) => Once(Tail(s)) /\ ~Contains(Tail(s), Head(s))
           /\ PublishedOnce(s) => /\ PublishedOnce(Tail(s))
                                  /\ Head(s).do = "publish" => ~Contains(Tail(s), Head(s))
<1>1. /\ Tail(s) \in Seq(S) /\ Head(s) \in S /\ Head(s) = s[1] /\ Len(s) \in Nat \ {0}
      /\ Len(Tail(s)) = Len(s) - 1 /\ \A i \in 1 .. Len(Tail(s)) : Tail(s)[i] = s[i + 1]
  BY HeadTailProperties
<1>2. ASSUME NEW x
      PROVE  Contains(s, x) <=> x = Head(s) \/ Contains(Tail(s), x)
  <2>1. ASSUME NEW i \in 1 .. Len(s), s[i] = x, x # Head(s)
        PROVE  Contains(Tail(s), x)
    <3>1. i - 1 \in 1 .. Len(Tail(s)) /\ Tail(s)[i - 1] = s[i]
      BY <1>1, <2>1
    <3>2. QED
      BY <2>1, <3>1 DEF Contains
  <2>2. QED
    BY <1>1, <2>1 DEF Contains
<1>3. ASSUME Once(s)
      PROVE  Once(Tail(s)) /\ ~Contains(Tail(s), Head(s))
  BY <1>1, <1>3 DEF Once, Contains
<1>4. ASSUME PublishedOnce(s)
      PROVE  /\ PublishedOnce(Tail(s))
             /\ Head(s).do = "publish" => ~Contains(Tail(s), Head(s))
  BY <1>1, <1>4 DEF PublishedOnce, Contains
<1>5. QED
  BY <1>1, <1>2, <1>3, <1>4

(* Where the elements of a concatenation are.                              *)
LEMMA InConcat ==
    ASSUME NEW S, NEW s \in Seq(S), NEW t \in Seq(S)
    PROVE  /\ s \o t \in Seq(S)
           /\ \A x : Contains(s \o t, x) <=> Contains(s, x) \/ Contains(t, x)
<1>1. /\ s \o t \in Seq(S) /\ Len(s \o t) = Len(s) + Len(t) /\ Len(s) \in Nat /\ Len(t) \in Nat
      /\ \A i \in 1 .. Len(s) + Len(t) : (s \o t)[i] = IF i <= Len(s) THEN s[i] ELSE t[i - Len(s)]
  BY ConcatProperties
<1>2. ASSUME NEW x
      PROVE  Contains(s \o t, x) <=> Contains(s, x) \/ Contains(t, x)
  <2>1. ASSUME NEW i \in 1 .. Len(t), t[i] = x
        PROVE  Contains(s \o t, x)
    <3>1. i + Len(s) \in 1 .. Len(s \o t) /\ (s \o t)[i + Len(s)] = t[i]
      BY <1>1, <2>1
    <3>2. QED
      BY <2>1, <3>1 DEF Contains
  <2>2. QED
    BY <1>1, <2>1 DEF Contains
<1>3. QED
  BY <1>1, <1>2

(* Two sequences without a common element, one after the other.            *)
LEMMA ConcatOnce ==
    ASSUME NEW S, NEW s \in Seq(S), NEW t \in Seq(S), \A x : Contains(s, x) => ~Contains(t, x)
    PROVE  /\ Once(s) /\ Once(t) => Once(s \o t)
           /\ PublishedOnce(s) /\ PublishedOnce(t) => PublishedOnce(s \o t)
<1>1. /\ s \o t \in Seq(S) /\ Len(s \o t) = Len(s) + Len(t) /\ Len(s) \in Nat /\ Len(t) \in Nat
      /\ \A i \in 1 .. Len(s) + Len(t) : (s \o t)[i] = IF i <= Len(s) THEN s[i] ELSE t[i - Len(s)]
      /\ DOMAIN s = 1 .. Len(s) /\ DOMAIN t = 1 .. Len(t) /\ DOMAIN (s \o t) = 1 .. Len(s) + Len(t)
  BY ConcatProperties
<1>2. ASSUME NEW i \in DOMAIN (s \o t), NEW j \in DOMAIN (s \o t), (s \o t)[i] = (s \o t)[j]
      PROVE  \/ i \in DOMAIN s /\ j \in DOMAIN s /\ s[i] = s[j] /\ (s \o t)[i] = s[i]
             \/ /\ i - Len(s) \in DOMAIN t /\ j - Len(s) \in DOMAIN t
                /\ t[i - Len(s)] = t[j - Len(s)] /\ (s \o t)[i] = t[i - Len(s)]
  BY <1>1, <1>2 DEF Contains
<1>3. Once(s) /\ Once(t) => Once(s \o t)
  BY <1>1, <1>2 DEF Once
<1>4. PublishedOnce(s) /\ PublishedOnce(t) => PublishedOnce(s \o t)
  BY <1>1, <1>2 DEF PublishedOnce
<1>5. QED
  BY <1>3, <1>4

(* The same of three sequences.                                            *)
LEMMA ThreeConcat ==
    ASSUME NEW S, NEW p \in Seq(S), NEW q \in Seq(S), NEW r \in Seq(S)
    PROVE  /\ p \o q \o r \in Seq(S)
           /\ \A x : Contains(p \o q \o r, x) <=> Contains(p, x) \/ Contains(q, x) \/ Contains(r, x)
           /\ \A i \in DOMAIN (p \o q \o r) :
                 \/ i \in DOMAIN p /\ (p \o q \o r)[i] = p[i]
                 \/ i - Len(p) \in DOMAIN q /\ (p \o q \o r)[i] = q[i - Len(p)]
                 \/ LET j == i - (Len(p) + Len(q)) IN j \in DOMAIN r /\ (p \o q \o r)[i] = r[j]
<1>1. /\ p \o q \in Seq(S) /\ Len(p \o q) = Len(p) + Len(q)
      /\ Len(p) \in Nat /\ Len(q) \in Nat /\ Len(r) \in Nat
      /\ DOMAIN p = 1 .. Len(p) /\ DOMAIN q = 1 .. Len(q) /\ DOMAIN r = 1 .. Len(r)
      /\ \A i \in 1 .. Len(p) + Len(q) : (p \o q)[i] = IF i <= Len(p) THEN p[i] ELSE q[i - Len(p)]
      /\ \A x : Contains(p \o q, x) <=> Contains(p, x) \/ Contains(q, x)
  BY ConcatProperties, InConcat
<1> PICK t \in Seq(S) : t = p \o q
  BY <1>1
<1>2. /\ t \o r \in Seq(S) /\ DOMAIN (t \o r) = 1 .. Len(t) + Len(r) /\ Len(t) = Len(p) + Len(q)
      /\ \A i \in 1 .. Len(t) + Len(r) : (t \o r)[i] = IF i <= Len(t) THEN t[i] ELSE r[i - Len(t)]
      /\ \A x : Contains(t \o r, x) <=> Contains(t, x) \/ Contains(r, x)
  <2>1. Len(t) = Len(p) + Len(q)
    BY <1>1
  <2>2. /\ t \o r \in Seq(S) /\ DOMAIN (t \o r) = 1 .. Len(t) + Len(r)
        /\ \A i \in 1 .. Len(t) + Len(r) : (t \o r)[i] = IF i <= Len(t) THEN t[i] ELSE r[i - Len(t)]
    BY ConcatProperties
  <2>3. \A x : Contains(t \o r, x) <=> Contains(t, x) \/ Contains(r, x)
    BY InConcat
  <2>4. QED
    BY <2>1, <2>2, <2>3
<1>3. ASSUME NEW i \in DOMAIN (t \o r)
      PROVE  \/ i \in DOMAIN p /\ (t \o r)[i] = p[i]
             \/ i - Len(p) \in DOMAIN q /\ (t \o r)[i] = q[i - Len(p)]
             \/ LET j == i - (Len(p) + Len(q)) IN j \in DOMAIN r /\ (t \o r)[i] = r[j]
  <2>1. i \in Nat /\ 1 <= i /\ i <= Len(p) + Len(q) + Len(r)
    BY <1>1, <1>2
  <2>2. CASE i <= Len(p)
    BY <1>1, <1>2, <2>1, <2>2
  <2>3. CASE i > Len(p) /\ i <= Len(p) + Len(q)
    BY <1>1, <1>2, <2>1, <2>3
  <2>4. CASE i > Len(p) + Len(q)
    BY <1>1, <1>2, <2>1, <2>4
  <2>5. QED
    BY <1>1, <2>1, <2>2, <2>3, <2>4
<1>4. QED
  BY <1>1, <1>2, <1>3

(* What is written to a link as it attaches: acknowledgments, a listener's *)
(* publications, the buffer.                                               *)
LEMMA ThreeConcatOnce ==
    ASSUME NEW S, NEW p \in Seq(S), NEW q \in Seq(S), NEW r \in Seq(S),
           PublishedOnce(p), PublishedOnce(q), PublishedOnce(r),
           \A x : Contains(p, x) => ~Contains(q, x) /\ ~Contains(r, x),
           \A x : Contains(q, x) => ~Contains(r, x)
    PROVE  PublishedOnce(p \o q \o r)
<1>1. p \o q \in Seq(S) /\ \A x : Contains(p \o q, x) <=> Contains(p, x) \/ Contains(q, x)
  BY InConcat
<1>2. PublishedOnce(p \o q)
  BY ConcatOnce
<1>3. QED
  BY <1>1, <1>2, ConcatOnce

(* What goes back to the queue when a channel ends.                        *)
LEMMA FirstIs ==
    ASSUME NEW S \in SUBSET Messages, \A m, n \in S : m = n
    PROVE  /\ SetToSeq(S) \in Seq(Messages)
           /\ \A x : Contains(SetToSeq(S), x) <=> x \in S
           /\ Len(SetToSeq(S)) <= 1
<1>1. CASE S = {}
  <2>1. Cardinality(S) = 0
    BY <1>1, FS_EmptySet
  <2>2. SetToSeq(S) \in [1 .. 0 -> S]
    <3>1. \E f \in [1 .. 0 -> S] : IsInjective(f)
      <4>1. [i \in 1 .. 0 |-> i] \in [1 .. 0 -> S] /\ IsInjective([i \in 1 .. 0 |-> i])
        BY DEF IsInjective
      <4>2. QED
        BY <4>1
    <3>2. QED
      BY <2>1, <3>1 DEF SetToSeq
  <2>3. SetToSeq(S) = <<>>
    BY <2>2
  <2>4. SetToSeq(S) \in Seq(Messages) /\ Len(SetToSeq(S)) = 0
    BY <2>3
  <2>5. QED
    BY <1>1, <2>4 DEF Contains
<1>2. CASE S # {}
  <2>1. PICK m \in S : S = {m}
    BY <1>2
  <2>2. Cardinality(S) = 1
    BY <2>1, FS_Singleton
  <2>3. SetToSeq(S) \in [1 .. 1 -> S]
    <3>1. \E f \in [1 .. 1 -> S] : IsInjective(f)
      <4>1. [i \in 1 .. 1 |-> m] \in [1 .. 1 -> S] /\ IsInjective([i \in 1 .. 1 |-> m])
        BY DEF IsInjective
      <4>2. QED
        BY <4>1
    <3>2. QED
      BY <2>2, <3>1 DEF SetToSeq
  <2>4. SetToSeq(S) \in Seq(Messages)
    <3>1. SetToSeq(S) \in Seq(S)
      BY <2>3, SeqDef
    <3>2. QED
      BY <3>1, SeqMonotonic
  <2>5. DOMAIN SetToSeq(S) = 1 .. 1 /\ SetToSeq(S)[1] = m
    BY <2>1, <2>3
  <2>6. Len(SetToSeq(S)) = 1
    <3>1. Len(SetToSeq(S)) \in Nat /\ DOMAIN SetToSeq(S) = 1 .. Len(SetToSeq(S))
      BY <2>4, LenProperties
    <3>2. 1 .. Len(SetToSeq(S)) = 1 .. 1
      BY <2>5, <3>1
    <3>3. QED
      BY <3>1, <3>2
  <2>7. ASSUME NEW x
        PROVE  Contains(SetToSeq(S), x) <=> x = m
    BY <2>5, <2>6 DEF Contains
  <2>8. \A x : x \in S <=> x = m
    BY <2>1
  <2>9. QED
    BY <2>4, <2>6, <2>7, <2>8
<1>3. QED
  BY <1>1, <1>2

(* A publication is known by its number.                                   *)
LEMMA PubIs ==
    /\ \A m \in Messages : Pub(m) \in Command /\ Pub(m).do = "publish" /\ Pub(m).msg = m
    /\ \A c \in Command : c.do = "publish" => c.msg \in Messages /\ c = Pub(c.msg)
    /\ \A c \in Command : c.do = "ack" => c.tag \in Tags
    /\ \A c \in Command : c.do \in {"publish", "ack"}
BY DEF Pub, Command

(* What is written was published.                                          *)
LEMMA PipedIs ==
    ASSUME TypeOK, PlaceInv, NEW g \in Links, NEW i \in DOMAIN pipe[g], pipe[g][i].do = "publish"
    PROVE  /\ pipe[g][i].msg \in Messages
           /\ Piped(g, pipe[g][i].msg)
           /\ pipe[g][i].msg <= published
<1> DEFINE m == pipe[g][i].msg
<1>1. pipe[g] \in Seq(Command)
  BY DEF TypeOK
<1>2. pipe[g][i] \in Command /\ i \in 1 .. Len(pipe[g])
  BY <1>1
<1>3. m \in Messages /\ pipe[g][i] = Pub(m)
  BY <1>2, PubIs
<1>4. Piped(g, m)
  BY <1>2, <1>3 DEF Piped, Contains
<1>5. QED
  BY <1>3, <1>4 DEF PlaceInv, Placed, Sent

(* A notification that a step leaves where it is.                          *)
Same(m) ==
    /\ Out(m)' <=> Out(m)
    /\ \A g \in Links : Piped(g, m)' <=> Piped(g, m)
    /\ Queued(m)' <=> Queued(m)
    /\ Given(m)' <=> Given(m)
    /\ m \in settled' <=> m \in settled

(* A step that leaves every notification where it is keeps the invariant.  *)
LEMMA SameKeeps ==
    ASSUME NEW m \in Messages, Placed(m), Same(m),
           published \in Nat, published' \in Nat, published' >= published
    PROVE  Placed(m)'
<1>1. Sent(m)' <=> Sent(m)
  BY DEF Same, Sent
<1>2. m \in Nat
  BY DEF Messages
<1>3. QED
  BY <1>1, <1>2 DEF Placed, Same

-----------------------------------------------------------------------------
(* Each step keeps the invariant. *)

(* Every action takes one step of the links, or none.                      *)
LEMMA NextLinks ==
    ASSUME [Next]_vars
    PROVE  LinkStep \/ UNCHANGED connVars
<1>1. ASSUME NEW g \in Links,
             Deliver(g) \/ Arrive(g) \/ Attach(g) \/ Lose(g) \/ Settle(g)
      PROVE  LinkStep \/ UNCHANGED connVars
  BY <1>1 DEF Deliver, Arrive, Attach, Lose, Settle, LinkStep
<1>2. ASSUME NEW d \in hand, Ack(d) \/ Reject(d)
      PROVE  UNCHANGED connVars
  BY <1>2 DEF Ack, Reject
<1>3. QED
  BY <1>1, <1>2 DEF Next, vars, LinkStep, Publish, Consume, Elsewhere, Detach

(* Nothing that was published moves.                                       *)
LEMMA NothingMoves ==
    ASSUME Inv, ConnTypeOK', LinkInv', connected' = connected,
           \A g \in Links : chan'[g] = chan[g] \/ pipe[g] = <<>>,
           UNCHANGED <<published, outbox, pipe, queue, tags, unacked, settled, acked, early, mixed>>,
           hand' \subseteq hand, consuming' \subseteq Links, rejected' \subseteq Delivery
    PROVE  Inv'
<1>1. TypeOK'
  BY DEF Inv, TypeOK
<1>2. WrittenInv'
  BY DEF Inv, WrittenInv
<1>3. OrderInv'
  BY DEF Inv, OrderInv, Ordinary
<1>4. PlaceInv'
  BY DEF Inv, PlaceInv, Placed, Sent, Out, Piped, Queued, Given
<1>5. TagsInv'
  BY DEF Inv, TagsInv
<1>6. QED
  BY <1>1, <1>2, <1>3, <1>4, <1>5 DEF Inv

(* A link is being built, or is over.                                      *)
LEMMA BuildKeeps ==
    ASSUME Inv, ConnTypeOK', LinkInv', UNCHANGED deliveryVars, NEW g \in Links,
           Open(g) \/ ConnectionOpened(g) \/ ConnectFailed(g) \/ ChannelOpened(g) \/ ConnectionClosed(g)
    PROVE  Inv'
<1>1. UNCHANGED <<published, outbox, pipe, queue, tags, unacked, settled, acked, early, mixed>>
      /\ hand' = hand /\ consuming' = consuming /\ rejected' = rejected
  BY DEF deliveryVars
<1>2. \A h \in Links : chan[h] \notin {"declaring", "up", "closing"} => pipe[h] = <<>>
  <2>1. ASSUME NEW h \in Links, pipe[h] # <<>>
        PROVE  chan[h] \in {"declaring", "up", "closing"}
    <3>1. pipe[h] \in Seq(Command)
      BY DEF Inv, TypeOK
    <3>2. 1 \in DOMAIN pipe[h]
      BY <2>1, <3>1
    <3>3. QED
      BY <3>2 DEF Inv, WrittenInv
  <2>2. QED
    BY <2>1
<1>3. chan \in [Links -> ChanStage] /\ LinkInv
  BY DEF Inv, TypeOK, ConnTypeOK
<1>4. connected' = connected
      /\ \A h \in Links : chan'[h] = chan[h] \/ chan[h] \notin {"declaring", "up", "closing"}
  <2>1. CASE ConnectionClosed(g)
    BY <1>3, <2>1 DEF LinkInv, ConnectionClosed
  <2>2. CASE Open(g) \/ ConnectFailed(g)
    BY <2>2 DEF Open, Connect, ConnectFailed
  <2>3. CASE ConnectionOpened(g)
    BY <1>3, <2>3 DEF LinkInv, ConnectionOpened
  <2>4. CASE ChannelOpened(g)
    BY <1>3, <2>4 DEF ChannelOpened
  <2>5. QED
    BY <2>1, <2>2, <2>3, <2>4
<1>5. QED
  BY <1>1, <1>2, <1>4, NothingMoves DEF Inv, TypeOK

(* The component consumes, or the application rejects.                     *)
LEMMA ConsumeKeeps ==
    ASSUME Inv, ConnTypeOK', LinkInv', Consume \/ \E d \in hand : Reject(d)
    PROVE  Inv'
<1>1. Sendable(channel) => channel \in Links
  BY DEF Sendable, Inv, TypeOK, ConnTypeOK
<1>2. CASE Consume
  <2>1. consuming' \subseteq Links
    BY <1>1, <1>2 DEF Consume, Usable, Inv, TypeOK
  <2>2. QED
    BY <1>2, <2>1, NothingMoves DEF Consume, connVars, Inv, TypeOK
<1>3. ASSUME NEW d \in hand, Reject(d)
      PROVE  Inv'
  BY <1>3, NothingMoves DEF Reject, connVars, Inv, TypeOK
<1>4. QED
  BY <1>2, <1>3

(* The component is closed; what was still in its buffer is dropped.       *)
LEMMA DetachMoves ==
    ASSUME Inv, Detach
    PROVE  \A m \in Messages : Same(m)
<1>1. outbox = <<>> /\ outbox' = <<>>
  BY DEF Inv, OrderInv, Detach, Close
<1>2. QED
  BY <1>1 DEF Detach, Same, Out, Piped, Queued, Given

(* One lemma for each action: it keeps the invariant.                      *)
LEMMA DetachKeeps ==
    ASSUME Inv, ConnTypeOK', LinkInv', Detach
    PROVE  Inv'
<1>1. /\ connected /\ channel \in Links /\ chan' = [chan EXCEPT ![channel] = "closing"]
      /\ chan \in [Links -> ChanStage]
      /\ Sendable(channel)
      /\ outbox = <<>> /\ outbox' = <<>>
      /\ UNCHANGED <<published, pipe, queue, consuming, tags, unacked, hand, settled,
                     acked, rejected, early, mixed>>
  BY DEF Inv, TypeOK, ConnTypeOK, OrderInv, Detach, Close, Sendable
<1>2. TypeOK'
  BY <1>1 DEF Inv, TypeOK
<1>3. WrittenInv'
  BY <1>1 DEF Inv, WrittenInv
<1>4. OrderInv'
  BY <1>1 DEF Inv, OrderInv, Ordinary
<1>5. PlaceInv'
  BY <1>1 DEF Inv, PlaceInv, Placed, Sent, Out, Piped, Queued, Given
<1>6. TagsInv'
  BY <1>1 DEF Inv, TagsInv
<1>7. QED
  BY <1>2, <1>3, <1>4, <1>5, <1>6 DEF Inv

(* Another worker takes the next notification.                             *)
LEMMA ElsewhereMoves ==
    ASSUME Inv, Elsewhere, NEW n, n = Head(queue)
    PROVE  /\ n \in Messages /\ Queued(n) /\ ~Queued(n)' /\ n \in settled' /\ n \in acked'
           /\ \A m \in Messages : /\ Out(m)' <=> Out(m)
                                  /\ Given(m)' <=> Given(m)
                                  /\ \A g \in Links : Piped(g, m)' <=> Piped(g, m)
           /\ \A m \in Messages \ {n} : Same(m)
           /\ queue' \in Seq(Messages) /\ Once(queue')
<1>1. /\ queue \in Seq(Messages) /\ queue # <<>> /\ Once(queue) /\ queue' = Tail(queue)
      /\ settled' = settled \cup {n}
      /\ acked' = acked \cup {n}
      /\ UNCHANGED <<outbox, pipe, unacked>>
  BY DEF Inv, TypeOK, PlaceInv, Elsewhere
<1>2. /\ queue' \in Seq(Messages) /\ Once(queue') /\ n \in Messages
      /\ \A m : Queued(m) <=> m = n \/ Queued(m)'
      /\ ~Queued(n)'
  BY <1>1, InTail DEF Queued
<1>3. \A m \in Messages : /\ Out(m)' <=> Out(m)
                          /\ Given(m)' <=> Given(m)
                          /\ \A g \in Links : Piped(g, m)' <=> Piped(g, m)
  BY <1>1 DEF Out, Given, Piped
<1>4. QED
  BY <1>1, <1>2, <1>3 DEF Same

LEMMA ElsewhereKeeps ==
    ASSUME Inv, ConnTypeOK', LinkInv', Elsewhere
    PROVE  Inv'
<1> PICK n : n = Head(queue)
  OBVIOUS
<1>1. /\ settled' = settled \cup {n}
      /\ acked' = acked \cup {n}
      /\ UNCHANGED <<connVars, published, outbox, pipe, consuming, tags, unacked, hand,
                     rejected, early, mixed>>
  BY DEF Elsewhere
<1>2. /\ n \in Messages /\ Queued(n) /\ ~Queued(n)' /\ n \in settled'
      /\ \A m \in Messages : /\ Out(m)' <=> Out(m)
                             /\ Given(m)' <=> Given(m)
                             /\ \A g \in Links : Piped(g, m)' <=> Piped(g, m)
      /\ \A m \in Messages \ {n} : Same(m)
      /\ queue' \in Seq(Messages) /\ Once(queue')
  BY ElsewhereMoves
<1>3. TypeOK'
  BY <1>1, <1>2 DEF Inv, TypeOK
<1>4. WrittenInv' /\ OrderInv'
  BY <1>1 DEF Inv, WrittenInv, OrderInv, Ordinary, connVars
<1>5. PlaceInv'
  <2>1. published \in Nat /\ published' = published
    BY <1>1 DEF Inv, TypeOK
  <2>2. ASSUME NEW m \in Messages \ {n}
        PROVE  Placed(m)'
    BY <1>2, <2>1, <2>2, SameKeeps DEF Inv, PlaceInv
  <2>3. Placed(n)'
    <3>1. Placed(n)
      BY <1>2 DEF Inv, PlaceInv
    <3>2. Sent(n)' <=> Sent(n)
      BY <1>2 DEF Sent
    <3>3. QED
      BY <1>2, <2>1, <3>1, <3>2 DEF Placed
  <2>4. QED
    BY <1>1, <1>2, <2>2, <2>3 DEF Inv, PlaceInv
<1>6. TagsInv'
  BY <1>1 DEF Inv, TagsInv
<1>7. QED
  BY <1>3, <1>4, <1>5, <1>6 DEF Inv

(* A notification is published: on the channel in use, into the buffer, or *)
(* nowhere.                                                                *)
LEMMA PublishMoves ==
    ASSUME Inv, Publish, NEW n, n = published + 1
    PROVE  /\ n \in Messages /\ published' = n
           /\ \A m \in Messages \ {n} : Same(m)
           /\ ~Queued(n)' /\ ~Given(n)' /\ n \notin settled'
           /\ \A g \in Links : Piped(g, n)' => ~Out(n)' /\ \A h \in Links \ {g} : ~Piped(h, n)'
           /\ outbox' \in Seq(Messages) /\ pipe' \in [Links -> Seq(Command)]
           /\ Once(outbox') /\ \A g \in Links : PublishedOnce(pipe'[g])
<1>1. /\ published \in Nat /\ published' = n /\ n \in Messages /\ n > published
      /\ UNCHANGED <<queue, unacked, settled>>
  BY MaxMessagesAssumption DEF Inv, TypeOK, Publish, Messages
<1>2. /\ ~Out(n) /\ ~Queued(n) /\ ~Given(n) /\ n \notin settled
      /\ \A g \in Links : ~Piped(g, n)
  BY <1>1 DEF Inv, PlaceInv, Placed, Sent
<1>3. /\ outbox \in Seq(Messages) /\ pipe \in [Links -> Seq(Command)]
      /\ Once(outbox) /\ \A g \in Links : PublishedOnce(pipe[g])
  BY DEF Inv, TypeOK, PlaceInv
<1>4. \A m \in Messages : Pub(m) \in Command /\ (Pub(m) = Pub(n) => m = n)
  BY <1>1, PubIs
<1>5. /\ ~Queued(n)' /\ ~Given(n)' /\ n \notin settled'
      /\ \A m \in Messages : /\ Queued(m)' <=> Queued(m)
                             /\ Given(m)' <=> Given(m)
                             /\ m \in settled' <=> m \in settled
  BY <1>1, <1>2 DEF Queued, Given
<1>6. CASE ~connected
  <2>1. outbox' = Append(outbox, n) /\ pipe' = pipe
    BY <1>1, <1>6 DEF Publish
  <2>2. /\ outbox' \in Seq(Messages) /\ Once(outbox')
        /\ \A m : Out(m)' <=> Out(m) \/ m = n
    BY <1>1, <1>2, <1>3, <2>1, InAppend DEF Out
  <2>3. \A g \in Links : \A m \in Messages : Piped(g, m)' <=> Piped(g, m)
    BY <2>1 DEF Piped
  <2>4. QED
    BY <1>1, <1>2, <1>3, <1>5, <2>1, <2>2, <2>3 DEF Same
<1>7. CASE connected /\ Usable # NoLink
  <2> DEFINE g == channel
  <2>1. /\ g \in Links /\ Usable = g /\ outbox' = outbox
        /\ pipe' = [pipe EXCEPT ![g] = Append(@, Pub(n))]
    BY <1>1, <1>7 DEF Publish, Usable, Inv, TypeOK, ConnTypeOK
  <2> PICK h \in Links : h = g
    BY <2>1
  <2>2. /\ pipe'[h] = Append(pipe[h], Pub(n)) /\ \A k \in Links \ {h} : pipe'[k] = pipe[k]
        /\ pipe[h] \in Seq(Command)
    BY <1>3, <2>1
  <2>3. ~Contains(pipe[h], Pub(n))
    BY <1>2 DEF Piped
  <2>4. /\ pipe'[h] \in Seq(Command) /\ PublishedOnce(pipe'[h])
        /\ \A x : Contains(pipe'[h], x) <=> Contains(pipe[h], x) \/ x = Pub(n)
    BY <1>1, <1>3, <1>4, <2>2, <2>3, InAppend
  <2>5. pipe' \in [Links -> Seq(Command)] /\ \A k \in Links : PublishedOnce(pipe'[k])
    BY <1>3, <2>1, <2>2, <2>4
  <2>6. \A m \in Messages : /\ Piped(h, m)' <=> Piped(h, m) \/ m = n
                            /\ \A k \in Links \ {h} : Piped(k, m)' <=> Piped(k, m)
    BY <1>4, <2>2, <2>4 DEF Piped
  <2>7. \A m : Out(m)' <=> Out(m)
    BY <2>1 DEF Out
  <2>8. QED
    BY <1>1, <1>2, <1>3, <1>5, <2>1, <2>5, <2>6, <2>7 DEF Same
<1>8. CASE connected /\ Usable = NoLink
  <2>1. outbox' = outbox /\ pipe' = pipe
    BY <1>8 DEF Publish
  <2>2. /\ \A m : Out(m)' <=> Out(m)
        /\ \A k \in Links : \A m \in Messages : Piped(k, m)' <=> Piped(k, m)
    BY <2>1 DEF Out, Piped
  <2>3. QED
    BY <1>1, <1>2, <1>3, <1>5, <2>1, <2>2 DEF Same
<1>9. QED
  BY <1>6, <1>7, <1>8

LEMMA PublishKeeps ==
    ASSUME Inv, ConnTypeOK', LinkInv', Publish
    PROVE  Inv'
<1> PICK n : n = published + 1
  OBVIOUS
<1>1. /\ n \in Messages /\ published' = n
      /\ \A m \in Messages \ {n} : Same(m)
      /\ ~Queued(n)' /\ ~Given(n)' /\ n \notin settled'
      /\ \A g \in Links : Piped(g, n)' => ~Out(n)' /\ \A h \in Links \ {g} : ~Piped(h, n)'
      /\ outbox' \in Seq(Messages) /\ pipe' \in [Links -> Seq(Command)]
      /\ Once(outbox') /\ \A g \in Links : PublishedOnce(pipe'[g])
  BY PublishMoves
<1>2. /\ published \in Nat /\ n \in Nat /\ published' \in 0 .. MaxMessages
      /\ outbox' = (IF connected THEN outbox ELSE Append(outbox, n))
      /\ pipe' = (IF connected /\ Usable # NoLink
                  THEN [pipe EXCEPT ![Usable] = Append(@, Pub(n))] ELSE pipe)
      /\ UNCHANGED <<connVars, queue, consuming, tags, unacked, hand, settled, acked,
                     rejected, early, mixed>>
      /\ pipe \in [Links -> Seq(Command)] /\ outbox \in Seq(Messages)
  BY <1>1, MaxMessagesAssumption DEF Inv, TypeOK, Publish, Messages
<1>3. TypeOK'
  BY <1>1, <1>2 DEF Inv, TypeOK
<1>4. PlaceInv'
  <2>1. ASSUME NEW m \in Messages \ {n}
        PROVE  Placed(m)'
    BY <1>1, <1>2, <2>1, SameKeeps DEF Inv, PlaceInv
  <2>2. Placed(n)'
    BY <1>1, <1>2 DEF Placed
  <2>3. Once(queue')
    BY <1>2 DEF Inv, PlaceInv
  <2>4. QED
    BY <1>1, <2>1, <2>2, <2>3 DEF PlaceInv
<1>5. Pub(n) \in Command /\ Pub(n).do = "publish" /\ Pub(n).msg = n
  BY <1>1, PubIs
<1>6. ASSUME connected, Usable # NoLink
      PROVE  /\ channel \in Links /\ Usable = channel /\ chan[channel] = "up"
             /\ Len(pipe[channel]) \in Nat
             /\ DOMAIN pipe'[channel] = 1 .. Len(pipe[channel]) + 1
             /\ DOMAIN pipe[channel] = 1 .. Len(pipe[channel])
             /\ pipe'[channel][Len(pipe[channel]) + 1] = Pub(n)
             /\ \A i \in DOMAIN pipe[channel] : pipe'[channel][i] = pipe[channel][i]
             /\ \A h \in Links \ {channel} : pipe'[h] = pipe[h]
  <2>1. /\ channel \in Links /\ Usable = channel /\ chan[channel] = "up"
    BY <1>6 DEF Inv, TypeOK, ConnTypeOK, LinkInv, Usable, Sendable
  <2>2. pipe'[channel] = Append(pipe[channel], Pub(n)) /\ pipe[channel] \in Seq(Command)
        /\ \A h \in Links \ {channel} : pipe'[h] = pipe[h]
    BY <1>2, <1>6, <2>1
  <2>3. QED
    BY <1>5, <2>1, <2>2
<1>7. WrittenInv'
  <2>1. CASE connected /\ Usable # NoLink
    BY <1>2, <1>6, <2>1 DEF Inv, WrittenInv, connVars
  <2>2. CASE ~(connected /\ Usable # NoLink)
    BY <1>2, <2>2 DEF Inv, WrittenInv, connVars
  <2>3. QED
    BY <2>1, <2>2
<1>8. OrderInv'
  <2>1. CASE connected /\ Usable # NoLink
    <3>1. \A i \in DOMAIN pipe[channel] :
             Ordinary(pipe[channel][i]) => pipe[channel][i].msg < n
      BY <1>1, <1>2, <1>6, <2>1, PipedIs DEF Ordinary, Inv, Messages
    <3>2. \A c : Ordinary(c)' <=> Ordinary(c)
      BY <1>2 DEF Ordinary
    <3>3. \A g \in Links : \A i, j \in DOMAIN pipe'[g] :
             i < j /\ Ordinary(pipe'[g][i]) /\ Ordinary(pipe'[g][j]) => pipe'[g][i].msg < pipe'[g][j].msg
      <4>1. ASSUME NEW g \in Links, g # channel
            PROVE  pipe'[g] = pipe[g]
        BY <1>6, <2>1, <4>1
      <4>2. ASSUME NEW i \in DOMAIN pipe'[channel], NEW j \in DOMAIN pipe'[channel], i < j
            PROVE  i \in DOMAIN pipe[channel] /\ (j \in DOMAIN pipe[channel] \/ pipe'[channel][j] = Pub(n))
        BY <1>6, <2>1, <4>2
      <4>3. \A i \in DOMAIN pipe[channel] : pipe'[channel][i] = pipe[channel][i]
        BY <1>6, <2>1
      <4>4. ASSUME NEW i \in DOMAIN pipe'[channel], NEW j \in DOMAIN pipe'[channel], i < j,
                   Ordinary(pipe'[channel][i]), Ordinary(pipe'[channel][j])
            PROVE  pipe'[channel][i].msg < pipe'[channel][j].msg
        <5>1. CASE j \in DOMAIN pipe[channel]
          BY <1>6, <2>1, <4>2, <4>3, <4>4, <5>1 DEF Inv, OrderInv
        <5>2. CASE pipe'[channel][j] = Pub(n)
          BY <1>5, <3>1, <4>2, <4>3, <4>4, <5>2
        <5>3. QED
          BY <4>2, <4>4, <5>1, <5>2
      <4>5. QED
        BY <4>1, <4>4 DEF Inv, OrderInv
    <3>4. QED
      BY <1>2, <2>1, <3>2, <3>3 DEF Inv, OrderInv, connVars
  <2>2. CASE connected /\ Usable = NoLink
    BY <1>2, <2>2 DEF Inv, OrderInv, Ordinary, connVars
  <2>3. CASE ~connected
    <3>1. \A i \in DOMAIN outbox : outbox[i] <= published
      <4>1. ASSUME NEW i \in DOMAIN outbox
            PROVE  outbox[i] \in Messages /\ Out(outbox[i])
        BY <1>2 DEF Out, Contains
      <4>2. QED
        BY <4>1 DEF Inv, PlaceInv, Placed, Sent
    <3>2. /\ Len(outbox) \in Nat /\ DOMAIN outbox = 1 .. Len(outbox)
          /\ DOMAIN outbox' = 1 .. Len(outbox) + 1
          /\ outbox'[Len(outbox) + 1] = n
          /\ \A i \in DOMAIN outbox : outbox'[i] = outbox[i] /\ outbox[i] \in Nat
      <4>1. outbox' = Append(outbox, n) /\ outbox \in Seq(Messages)
        BY <1>2, <2>3
      <4>2. \A i \in DOMAIN outbox : outbox[i] \in Messages
        BY <4>1
      <4>3. QED
        BY <1>1, <4>1, <4>2 DEF Messages
    <3>3. \A i, j \in DOMAIN outbox' : i < j => outbox'[i] < outbox'[j]
      BY <1>1, <1>2, <3>1, <3>2 DEF Inv, OrderInv
    <3>4. QED
      BY <1>2, <2>3, <3>3 DEF Inv, OrderInv, Ordinary, connVars
  <2>4. QED
    BY <2>1, <2>2, <2>3
<1>9. TagsInv'
  <2>1. \A g \in Links : \A i \in DOMAIN pipe'[g] : pipe'[g][i].do = "ack" =>
           i \in DOMAIN pipe[g] /\ pipe'[g][i] = pipe[g][i]
    <3>1. CASE connected /\ Usable # NoLink
      BY <1>2, <1>5, <1>6, <3>1
    <3>2. CASE ~(connected /\ Usable # NoLink)
      BY <1>2, <3>2
    <3>3. QED
      BY <3>1, <3>2
  <2>2. QED
    BY <1>2, <2>1 DEF Inv, TagsInv
<1>10. QED
  BY <1>3, <1>4, <1>7, <1>8, <1>9 DEF Inv

(* What the buffer holds when it is written.                               *)
LEMMA FlushIs ==
    ASSUME NEW s \in Seq(Messages)
    PROVE  /\ Flush(s) \in Seq(Command) /\ Len(Flush(s)) = Len(s)
           /\ \A i \in 1 .. Len(s) : Flush(s)[i] = Pub(s[i]) /\ s[i] \in Messages
           /\ \A m \in Messages : Contains(Flush(s), Pub(m)) <=> Contains(s, m)
           /\ \A x : Contains(Flush(s), x) => x.do = "publish"
           /\ Once(s) => PublishedOnce(Flush(s))
<1>1. Len(s) \in Nat /\ DOMAIN s = 1 .. Len(s) /\ \A i \in 1 .. Len(s) : s[i] \in Messages
  OBVIOUS
<1>2. \A i \in 1 .. Len(s) : Pub(s[i]) \in Command /\ Pub(s[i]).do = "publish" /\ Pub(s[i]).msg = s[i]
  BY <1>1, PubIs
<1>3. Flush(s) \in Seq(Command)
  <2>1. Flush(s) \in [1 .. Len(s) -> Command]
    BY <1>1, <1>2 DEF Flush
  <2>2. QED
    BY <1>1, <2>1, SeqDef
<1>4. /\ DOMAIN Flush(s) = 1 .. Len(s) /\ Len(Flush(s)) = Len(s)
      /\ \A i \in 1 .. Len(s) : Flush(s)[i] = Pub(s[i])
  <2>1. DOMAIN Flush(s) = 1 .. Len(s) /\ \A i \in 1 .. Len(s) : Flush(s)[i] = Pub(s[i])
    BY DEF Flush
  <2>2. Len(Flush(s)) = Len(s)
    BY <1>1, <1>3, <2>1, LenProperties
  <2>3. QED
    BY <2>1, <2>2
<1>5. \A m \in Messages : Contains(Flush(s), Pub(m)) <=> Contains(s, m)
  <2>1. \A m \in Messages : Pub(m).msg = m
    BY PubIs
  <2>2. QED
    BY <1>2, <1>4, <2>1 DEF Contains
<1>6. \A x : Contains(Flush(s), x) => x.do = "publish"
  BY <1>2, <1>4 DEF Contains
<1>7. Once(s) => PublishedOnce(Flush(s))
  BY <1>1, <1>2, <1>4 DEF Once, PublishedOnce
<1>8. QED
  BY <1>1, <1>3, <1>4, <1>5, <1>6, <1>7

(* What a 'connect' listener publishes.                                    *)
LEMMA EarlyIs ==
    ASSUME NEW n \in Messages, NEW k \in 0 .. 1, NEW s, s = [i \in 1 .. k |-> Pub(n - 1 + i)]
    PROVE  /\ s \in Seq(Command) /\ Len(s) = k
           /\ k = 1 => s[1] = Pub(n)
           /\ \A m \in Messages : Contains(s, Pub(m)) <=> k = 1 /\ m = n
           /\ \A x : Contains(s, x) => k = 1 /\ x = Pub(n)
           /\ PublishedOnce(s)
<1>1. n \in Nat /\ k \in {0, 1}
  BY DEF Messages
<1>2. DOMAIN s = 1 .. k /\ \A i \in 1 .. k : i = 1 /\ k = 1 /\ s[i] = Pub(n)
  BY <1>1
<1>3. Pub(n) \in Command /\ \A m \in Messages : Pub(m) = Pub(n) => m = n
  BY PubIs
<1>4. s \in Seq(Command)
  <2>1. s \in [1 .. k -> Command]
    BY <1>2, <1>3
  <2>2. QED
    BY <1>1, <2>1, SeqDef
<1>5. Len(s) = k
  BY <1>1, <1>2, <1>4, LenProperties
<1>6. PublishedOnce(s)
  BY <1>2 DEF PublishedOnce
<1>7. ASSUME NEW x
      PROVE  Contains(s, x) <=> k = 1 /\ x = Pub(n)
  BY <1>1, <1>2, <1>5 DEF Contains
<1>8. QED
  BY <1>1, <1>2, <1>3, <1>4, <1>5, <1>6, <1>7

(* The buffer is written to the new link, after what was published early.  *)
LEMMA AttachMoves ==
    ASSUME Inv, NEW g \in Links, NEW k \in 0 .. 1, NEW n, n = published + 1,
           chan[g] = "declaring", published + k <= MaxMessages,
           pipe' = [pipe EXCEPT ![g] = @ \o [i \in 1 .. k |-> Pub(published + i)] \o Flush(outbox)],
           outbox' = <<>>, UNCHANGED <<queue, unacked, settled>>
    PROVE  /\ k = 1 => n \in Messages
           /\ \A m \in Messages :
                 /\ ~Out(m)' /\ ~Piped(g, m)
                 /\ Piped(g, m)' <=> Out(m) \/ (k = 1 /\ m = n)
                 /\ \A h \in Links \ {g} : Piped(h, m)' <=> Piped(h, m)
                 /\ Queued(m)' <=> Queued(m)
                 /\ Given(m)' <=> Given(m)
           /\ pipe' \in [Links -> Seq(Command)]
           /\ \A h \in Links \ {g} : pipe'[h] = pipe[h]
           /\ \A h \in Links : PublishedOnce(pipe'[h])
           /\ \A i \in DOMAIN pipe'[g] :
                 \/ i \in DOMAIN pipe[g] /\ pipe'[g][i] = pipe[g][i] /\ pipe[g][i].do = "ack"
                 \/ k = 1 /\ pipe'[g][i] = Pub(n)
                 \/ LET j == i - (Len(pipe[g]) + k) IN
                    j \in DOMAIN outbox /\ pipe'[g][i] = Pub(outbox[j]) /\ outbox[j] \in Messages
<1>1. /\ published \in Nat /\ n \in Nat
      /\ k = 1 => n \in Messages
      /\ outbox \in Seq(Messages) /\ pipe \in [Links -> Seq(Command)] /\ pipe[g] \in Seq(Command)
      /\ Once(outbox) /\ \A h \in Links : PublishedOnce(pipe[h])
  BY MaxMessagesAssumption DEF Inv, TypeOK, PlaceInv, Messages
<1> PICK f \in Seq(Command) : f = Flush(outbox)
  BY <1>1, FlushIs
<1> PICK s : s = [i \in 1 .. k |-> Pub(published + i)]
  OBVIOUS
<1>2. /\ Len(f) = Len(outbox)
      /\ \A i \in 1 .. Len(outbox) : f[i] = Pub(outbox[i]) /\ outbox[i] \in Messages
      /\ \A m \in Messages : Contains(f, Pub(m)) <=> Out(m)
      /\ \A x : Contains(f, x) => x.do = "publish"
      /\ PublishedOnce(f)
  BY <1>1, FlushIs DEF Out
<1>3. /\ s \in Seq(Command) /\ Len(s) = k
      /\ k = 1 => s[1] = Pub(n)
      /\ \A m \in Messages : Contains(s, Pub(m)) <=> k = 1 /\ m = n
      /\ \A x : Contains(s, x) => k = 1 /\ x = Pub(n)
      /\ PublishedOnce(s)
  <2>1. CASE k = 1
    <3>1. s = [i \in 1 .. k |-> Pub(n - 1 + i)] /\ n \in Messages
      BY <1>1, <2>1
    <3>2. QED
      BY <3>1, EarlyIs
  <2>2. CASE k = 0
    <3>1. s = <<>>
      BY <2>2
    <3>2. s \in Seq(Command) /\ Len(s) = 0
      BY <3>1
    <3>3. QED
      BY <2>2, <3>2 DEF Contains, PublishedOnce
  <2>3. QED
    BY <2>1, <2>2
<1>4. \A x : Contains(pipe[g], x) => x.do = "ack"
  <2>1. \A i \in DOMAIN pipe[g] : pipe[g][i].do = "ack"
    <3>1. \A i \in DOMAIN pipe[g] : pipe[g][i] \in Command
      BY <1>1
    <3>2. \A i \in DOMAIN pipe[g] : pipe[g][i].do # "publish"
      BY DEF Inv, WrittenInv
    <3>3. QED
      BY <3>1, <3>2, PubIs
  <2>2. QED
    BY <1>1, <2>1 DEF Contains
<1>5. /\ pipe'[g] = pipe[g] \o s \o f
      /\ \A h \in Links \ {g} : pipe'[h] = pipe[h]
  BY <1>1
<1>6. \A m \in Messages : Pub(m).do = "publish" /\ (Pub(m) = Pub(n) /\ n \in Messages => m = n)
  BY PubIs
<1>7. k = 1 => ~Out(n)
  BY <1>1 DEF Inv, PlaceInv, Placed, Sent
<1>8. /\ \A x : Contains(pipe[g], x) => ~Contains(s, x) /\ ~Contains(f, x)
      /\ \A x : Contains(s, x) => ~Contains(f, x)
  BY <1>1, <1>2, <1>3, <1>4, <1>6, <1>7
<1>9. /\ pipe'[g] \in Seq(Command)
      /\ \A x : Contains(pipe'[g], x) <=> Contains(pipe[g], x) \/ Contains(s, x) \/ Contains(f, x)
      /\ PublishedOnce(pipe'[g])
      /\ \A i \in DOMAIN pipe'[g] :
            \/ i \in DOMAIN pipe[g] /\ pipe'[g][i] = pipe[g][i]
            \/ i - Len(pipe[g]) \in DOMAIN s /\ pipe'[g][i] = s[i - Len(pipe[g])]
            \/ LET j == i - (Len(pipe[g]) + Len(s)) IN j \in DOMAIN f /\ pipe'[g][i] = f[j]
  <2>1. PICK p \in Seq(Command) : p = pipe[g] /\ PublishedOnce(p)
    BY <1>1
  <2>2. PublishedOnce(p \o s \o f)
    BY <1>2, <1>3, <1>8, <2>1, ThreeConcatOnce
  <2>3. s \in Seq(Command)
    BY <1>3
  <2>4. /\ p \o s \o f \in Seq(Command)
        /\ \A x : Contains(p \o s \o f, x) <=> Contains(p, x) \/ Contains(s, x) \/ Contains(f, x)
        /\ \A i \in DOMAIN (p \o s \o f) :
              \/ i \in DOMAIN p /\ (p \o s \o f)[i] = p[i]
              \/ i - Len(p) \in DOMAIN s /\ (p \o s \o f)[i] = s[i - Len(p)]
              \/ LET j == i - (Len(p) + Len(s)) IN j \in DOMAIN f /\ (p \o s \o f)[i] = f[j]
    BY <2>3, ThreeConcat
  <2>5. pipe'[g] = p \o s \o f
    BY <1>5, <2>1
  <2>6. QED
    BY <2>1, <2>2, <2>4, <2>5
<1>10. ASSUME NEW m \in Messages
       PROVE  /\ ~Out(m)' /\ ~Piped(g, m)
              /\ Piped(g, m)' <=> Out(m) \/ (k = 1 /\ m = n)
              /\ \A h \in Links \ {g} : Piped(h, m)' <=> Piped(h, m)
              /\ Queued(m)' <=> Queued(m)
              /\ Given(m)' <=> Given(m)
  <2>1. ~Out(m)'
    BY DEF Out, Contains
  <2>2. ~Piped(g, m)
    BY <1>4, <1>6 DEF Piped
  <2>3. Piped(g, m)' <=> Out(m) \/ (k = 1 /\ m = n)
    BY <1>2, <1>3, <1>9, <2>2 DEF Piped
  <2>4. /\ \A h \in Links \ {g} : Piped(h, m)' <=> Piped(h, m)
        /\ Queued(m)' <=> Queued(m)
        /\ Given(m)' <=> Given(m)
    BY <1>5 DEF Piped, Queued, Given
  <2>5. QED
    BY <2>1, <2>2, <2>3, <2>4
<1>11. pipe' \in [Links -> Seq(Command)] /\ \A h \in Links : PublishedOnce(pipe'[h])
  BY <1>1, <1>5, <1>9
<1>12. ASSUME NEW i \in DOMAIN pipe'[g]
       PROVE  \/ i \in DOMAIN pipe[g] /\ pipe'[g][i] = pipe[g][i] /\ pipe[g][i].do = "ack"
              \/ k = 1 /\ pipe'[g][i] = Pub(n)
              \/ LET j == i - (Len(pipe[g]) + k) IN
                 j \in DOMAIN outbox /\ pipe'[g][i] = Pub(outbox[j]) /\ outbox[j] \in Messages
  <2>1. /\ DOMAIN f = 1 .. Len(outbox) /\ DOMAIN outbox = 1 .. Len(outbox)
        /\ \A j \in DOMAIN s : k = 1 /\ s[j] = Pub(n)
    <3>1. \A j \in DOMAIN s : Contains(s, s[j])
      BY <1>3 DEF Contains
    <3>2. QED
      BY <1>1, <1>2, <1>3, <3>1
  <2>2. \A j \in DOMAIN pipe[g] : pipe[g][j].do = "ack"
    BY <1>1, <1>4 DEF Contains
  <2>3. QED
    BY <1>2, <1>3, <1>9, <2>1, <2>2
<1>13. QED
  BY <1>1, <1>5, <1>10, <1>11, <1>12

LEMMA AttachKeeps ==
    ASSUME Inv, ConnTypeOK', LinkInv', NEW g \in Links, Attach(g)
    PROVE  Inv'
<1>1. PICK k \in 0 .. 1 :
         /\ published + k <= MaxMessages
         /\ published' = published + k
         /\ early' = early \cup (published + 1 .. published')
         /\ pipe' = [pipe EXCEPT ![g] = @ \o [i \in 1 .. k |-> Pub(published + i)] \o Flush(outbox)]
  BY Zenon DEF Attach
<1> PICK n : n = published + 1
  OBVIOUS
<1>2. /\ chan[g] = "declaring" /\ chan' = [chan EXCEPT ![g] = "up"] /\ connected' = TRUE
      /\ outbox' = <<>> /\ chan \in [Links -> ChanStage]
      /\ UNCHANGED <<queue, consuming, tags, unacked, hand, settled, acked, rejected, mixed>>
      /\ published \in Nat /\ n \in Nat /\ published' \in 0 .. MaxMessages
      /\ k = 0 => published' = published
      /\ k = 1 => published' = n
  BY <1>1, MaxMessagesAssumption DEF Attach, ExchangeDeclared, Inv, TypeOK, ConnTypeOK
<1>3. /\ k = 1 => n \in Messages
      /\ \A m \in Messages :
            /\ ~Out(m)' /\ ~Piped(g, m)
            /\ Piped(g, m)' <=> Out(m) \/ (k = 1 /\ m = n)
            /\ \A h \in Links \ {g} : Piped(h, m)' <=> Piped(h, m)
            /\ Queued(m)' <=> Queued(m)
            /\ Given(m)' <=> Given(m)
      /\ pipe' \in [Links -> Seq(Command)]
      /\ \A h \in Links \ {g} : pipe'[h] = pipe[h]
      /\ \A h \in Links : PublishedOnce(pipe'[h])
      /\ \A i \in DOMAIN pipe'[g] :
            \/ i \in DOMAIN pipe[g] /\ pipe'[g][i] = pipe[g][i] /\ pipe[g][i].do = "ack"
            \/ k = 1 /\ pipe'[g][i] = Pub(n)
            \/ LET j == i - (Len(pipe[g]) + k) IN
               j \in DOMAIN outbox /\ pipe'[g][i] = Pub(outbox[j]) /\ outbox[j] \in Messages
  BY <1>1, <1>2, AttachMoves
<1>4. early' \subseteq Messages /\ early \subseteq early' /\ (k = 1 => n \in early')
  BY <1>1, <1>2, <1>3 DEF Inv, TypeOK, Messages
<1>5. TypeOK'
  <2>1. outbox' \in Seq(Messages)
    BY <1>2
  <2>2. QED
    BY <1>2, <1>3, <1>4, <2>1 DEF Inv, TypeOK
<1>6. WrittenInv'
  BY <1>2, <1>3 DEF Inv, WrittenInv
<1>7. OrderInv'
  <2>1. ASSUME NEW i \in DOMAIN pipe'[g], NEW j \in DOMAIN pipe'[g], i < j,
               pipe'[g][i].do = "publish", pipe'[g][i].msg \notin early',
               pipe'[g][j].do = "publish", pipe'[g][j].msg \notin early'
        PROVE  pipe'[g][i].msg < pipe'[g][j].msg
    <3>2. k = 1 => Pub(n).msg \in early'
      BY <1>3, <1>4, PubIs
    <3> DEFINE L == Len(pipe[g]) + k
    <3>3. /\ i - L \in DOMAIN outbox /\ pipe'[g][i] = Pub(outbox[i - L]) /\ outbox[i - L] \in Messages
          /\ j - L \in DOMAIN outbox /\ pipe'[g][j] = Pub(outbox[j - L]) /\ outbox[j - L] \in Messages
      BY <1>3, <2>1, <3>2
    <3>4. i - L < j - L
      <4>1. i \in Nat /\ j \in Nat /\ L \in Nat
        <5>1. pipe'[g] \in Seq(Command) /\ pipe[g] \in Seq(Command)
          BY <1>3 DEF Inv, TypeOK
        <5>2. QED
          BY <5>1
      <4>2. QED
        BY <2>1, <4>1
    <3>5. outbox[i - L] < outbox[j - L]
      BY <3>3, <3>4 DEF Inv, OrderInv
    <3>6. QED
      BY <3>3, <3>5, PubIs
  <2>2. ASSUME NEW h \in Links \ {g}, NEW i \in DOMAIN pipe'[h], NEW j \in DOMAIN pipe'[h], i < j,
               pipe'[h][i].do = "publish", pipe'[h][i].msg \notin early',
               pipe'[h][j].do = "publish", pipe'[h][j].msg \notin early'
        PROVE  pipe'[h][i].msg < pipe'[h][j].msg
    BY <1>3, <1>4, <2>2 DEF Ordinary, Inv, OrderInv
  <2>3. \A i, j \in DOMAIN outbox' : i < j => outbox'[i] < outbox'[j]
    BY <1>2
  <2>4. QED
    BY <1>2, <2>1, <2>2, <2>3 DEF OrderInv, Ordinary
<1>8. PlaceInv'
  <2>1. ASSUME NEW m \in Messages
        PROVE  Placed(m)'
    <3>1. Placed(m) /\ (k = 1 => Placed(n))
      BY <1>3 DEF Inv, PlaceInv
    <3>2. m \in Nat /\ (m \in settled' <=> m \in settled) /\ (k = 1 => n > published)
      BY <1>2 DEF Messages
    <3>3. CASE k = 1 /\ m = n
      <4>1. ~Sent(n) /\ ~Queued(n) /\ ~Given(n) /\ n \notin settled
        BY <3>1, <3>2, <3>3, <1>2 DEF Placed
      <4>2. QED
        BY <1>2, <1>3, <3>2, <3>3, <4>1 DEF Placed, Sent
    <3>4. CASE ~(k = 1 /\ m = n)
      <4>1. Sent(m)' <=> Sent(m)
        BY <1>3, <3>4 DEF Sent
      <4>2. published' >= published
        BY <1>2
      <4>3. m <= published => m <= published'
        BY <1>2, <3>2, <4>2
      <4>4. QED
        BY <1>3, <3>1, <3>2, <3>4, <4>1, <4>3 DEF Placed
    <3>5. QED
      BY <3>3, <3>4
  <2>2. Once(queue') /\ Once(outbox')
    BY <1>2 DEF Inv, PlaceInv, Once
  <2>3. QED
    BY <1>3, <2>1, <2>2 DEF PlaceInv
<1>9. TagsInv'
  <2>1. \A h \in Links : \A i \in DOMAIN pipe'[h] : pipe'[h][i].do = "ack" =>
           i \in DOMAIN pipe[h] /\ pipe'[h][i] = pipe[h][i]
    BY <1>3, PubIs
  <2>2. QED
    BY <1>2, <2>1 DEF Inv, TagsInv
<1>10. QED
  BY <1>5, <1>6, <1>7, <1>8, <1>9 DEF Inv

(* A worker is given the next notification, if it has none.                *)
LEMMA DeliverMoves ==
    ASSUME Inv, NEW g \in Links, Deliver(g), NEW n, n = Head(queue)
    PROVE  LET d == [msg |-> n, tag |-> tags[g] + 1, link |-> g] IN
           /\ n \in Messages /\ Queued(n) /\ ~Queued(n)' /\ d \in Delivery
           /\ unacked' = (IF AckMode THEN unacked \cup {d} ELSE unacked)
           /\ \A e \in unacked : e.link # g /\ e.msg # n
           /\ Given(n)' <=> AckMode
           /\ n \in settled' <=> ~AckMode
           /\ settled' \subseteq Messages
           /\ \A m \in Messages \ {n} : Same(m)
           /\ \A m \in Messages : /\ Out(m)' <=> Out(m)
                                  /\ \A h \in Links : Piped(h, m)' <=> Piped(h, m)
           /\ queue' \in Seq(Messages) /\ Once(queue')
<1> PICK d : d = [msg |-> n, tag |-> tags[g] + 1, link |-> g]
  OBVIOUS
<1>1. /\ queue \in Seq(Messages) /\ queue # <<>> /\ Once(queue) /\ queue' = Tail(queue)
      /\ unacked' = (IF AckMode THEN unacked \cup {d} ELSE unacked)
      /\ settled' = (IF AckMode THEN settled ELSE settled \cup {n})
      /\ UNCHANGED <<outbox, pipe>>
      /\ tags[g] \in Nat
  BY AckModeAssumption DEF Inv, TypeOK, PlaceInv, Deliver, NoAck
<1>2. /\ queue' \in Seq(Messages) /\ Once(queue') /\ n \in Messages
      /\ \A m : Queued(m) <=> m = n \/ Queued(m)'
      /\ ~Queued(n)'
  BY <1>1, InTail DEF Queued
<1>3. d \in Delivery /\ d.msg = n
  BY <1>1, <1>2 DEF Delivery, Tags
<1>4. ~Given(n) /\ n \notin settled
  BY <1>2 DEF Inv, PlaceInv, Placed
<1>5. ASSUME NEW e \in unacked
      PROVE  e.link # g /\ e.msg # n
  <2>1. CASE e.link = g
    <3>1. {c \in unacked : c.link = g} = {e}
      BY <2>1 DEF Inv, TagsInv
    <3>2. Cardinality({c \in unacked : c.link = g}) = 1
      BY <3>1, FS_Singleton
    <3>3. QED
      BY <3>2 DEF Deliver, Prefetch
  <2>2. e.msg # n
    BY <1>4 DEF Given
  <2>3. QED
    BY <2>1, <2>2
<1>6. \A m \in Messages : /\ Out(m)' <=> Out(m)
                          /\ \A h \in Links : Piped(h, m)' <=> Piped(h, m)
  BY <1>1 DEF Out, Piped
<1>7. \A m \in Messages \ {n} : Given(m)' <=> Given(m)
  BY <1>1, <1>3 DEF Given
<1>8. Given(n)' <=> AckMode
  BY <1>1, <1>3, <1>4 DEF Given
<1>9. (n \in settled' <=> ~AckMode) /\ settled' \subseteq Messages
      /\ \A m \in Messages \ {n} : m \in settled' <=> m \in settled
  BY <1>1, <1>2, <1>4 DEF Inv, TypeOK
<1>10. QED
  BY <1>1, <1>2, <1>3, <1>5, <1>6, <1>7, <1>8, <1>9 DEF Same

LEMMA DeliverKeeps ==
    ASSUME Inv, ConnTypeOK', LinkInv', NEW g \in Links, Deliver(g)
    PROVE  Inv'
<1> PICK n : n = Head(queue)
  OBVIOUS
<1> PICK d : d = [msg |-> n, tag |-> tags[g] + 1, link |-> g]
  OBVIOUS
<1>1. /\ n \in Messages /\ Queued(n) /\ ~Queued(n)' /\ d \in Delivery
      /\ unacked' = (IF AckMode THEN unacked \cup {d} ELSE unacked)
      /\ \A e \in unacked : e.link # g /\ e.msg # n
      /\ Given(n)' <=> AckMode
      /\ n \in settled' <=> ~AckMode
      /\ settled' \subseteq Messages
      /\ \A m \in Messages \ {n} : Same(m)
      /\ \A m \in Messages : /\ Out(m)' <=> Out(m)
                             /\ \A h \in Links : Piped(h, m)' <=> Piped(h, m)
      /\ queue' \in Seq(Messages) /\ Once(queue')
  BY DeliverMoves
<1>2. /\ tags \in [Links -> Nat] /\ tags' = [tags EXCEPT ![g] = @ + 1]
      /\ hand' = (IF AckMode THEN hand \cup {d} ELSE hand)
      /\ UNCHANGED <<connVars, published, outbox, pipe, consuming, acked, rejected, early, mixed>>
      /\ d.msg = n /\ d.tag = tags[g] + 1 /\ d.link = g
  BY DEF Deliver, Inv, TypeOK
<1>3. TypeOK'
  BY <1>1, <1>2 DEF Inv, TypeOK
<1>4. WrittenInv' /\ OrderInv'
  BY <1>2 DEF Inv, WrittenInv, OrderInv, Ordinary, connVars
<1>5. PlaceInv'
  <2>1. published \in Nat /\ published' = published
    BY <1>2 DEF Inv, TypeOK
  <2>2. ASSUME NEW m \in Messages \ {n}
        PROVE  Placed(m)'
    BY <1>1, <2>1, <2>2, SameKeeps DEF Inv, PlaceInv
  <2>3. Placed(n)'
    <3>1. Placed(n)
      BY <1>1 DEF Inv, PlaceInv
    <3>2. Sent(n)' <=> Sent(n)
      BY <1>1 DEF Sent
    <3>3. QED
      BY <1>1, <2>1, <3>1, <3>2 DEF Placed
  <2>4. QED
    BY <1>1, <1>2, <2>2, <2>3 DEF Inv, PlaceInv
<1>6. TagsInv'
  <2>1. /\ unacked' \subseteq unacked \cup {d} /\ hand' \subseteq hand \cup {d}
        /\ unacked' = unacked => ~AckMode \/ d \in unacked
    BY <1>1, <1>2
  <2>2. \A h \in Links : tags[h] \in Nat /\ tags'[h] \in Nat /\ tags'[h] >= tags[h]
    BY <1>2
  <2>3. tags'[g] = tags[g] + 1
    BY <1>2
  <2>4. \A e \in unacked \cup hand : e.link \in Links /\ e.tag \in Nat /\ e.tag <= tags[e.link]
    BY DEF Inv, TypeOK, TagsInv, Delivery, Tags
  <2>5. \A e \in unacked \cup hand : ~(e.link = g /\ e.tag = d.tag)
    BY <1>2, <2>2, <2>4
  <2>6. \A e \in unacked' \cup hand' : e = d \/ e \in unacked \cup hand
    BY <2>1
  <2>7. \A c, e \in unacked' \cup hand' : c.link = e.link /\ c.tag = e.tag => c = e
    BY <1>2, <2>5, <2>6 DEF Inv, TagsInv
  <2>8. \A e \in unacked' \cup hand' : e.tag <= tags'[e.link]
    <3>1. d.tag <= tags'[d.link]
      BY <1>2, <2>2, <2>3
    <3>2. \A e \in unacked \cup hand : e.tag <= tags'[e.link]
      BY <2>2, <2>4
    <3>3. QED
      BY <2>6, <3>1, <3>2
  <2>9. \A c, e \in unacked' : c.link = e.link \/ c.msg = e.msg => c = e
    BY <1>1, <1>2, <2>1 DEF Inv, TagsInv
  <2>10. ASSUME ~mixed', NEW h \in Links, NEW i \in DOMAIN pipe'[h], pipe'[h][i].do = "ack"
         PROVE  /\ pipe'[h][i].tag <= tags'[h]
                /\ \A e \in unacked' : e.link = h /\ e.tag = pipe'[h][i].tag => e.msg \in acked'
    <3>1. pipe'[h][i].tag <= tags[h] /\ pipe'[h] = pipe[h] /\ ~mixed /\ acked' = acked
      BY <1>2, <2>10 DEF Inv, TagsInv
    <3>2. pipe'[h][i].tag \in Nat
      <4>1. pipe'[h][i] \in Command
        BY <1>3, <2>10 DEF TypeOK
      <4>2. QED
        BY <2>10, <4>1, PubIs DEF Tags
    <3>3. pipe'[h][i].tag # tags[h] + 1 /\ pipe'[h][i].tag <= tags'[h]
      BY <2>2, <3>1, <3>2
    <3>4. QED
      BY <1>2, <2>1, <2>10, <3>1, <3>3 DEF Inv, TagsInv
  <2>11. QED
    BY <2>7, <2>8, <2>9, <2>10 DEF TagsInv
<1>7. QED
  BY <1>3, <1>4, <1>5, <1>6 DEF Inv

(* An acknowledgment is written to the channel in use.                     *)
LEMMA AckMoves ==
    ASSUME Inv, NEW d \in hand, Ack(d)
    PROVE  /\ \A m \in Messages : Same(m)
           /\ pipe' \in [Links -> Seq(Command)] /\ \A h \in Links : PublishedOnce(pipe'[h])
           /\ \A h \in Links : \A i \in DOMAIN pipe'[h] :
                 \/ i \in DOMAIN pipe[h] /\ pipe'[h][i] = pipe[h][i]
                 \/ /\ h = channel /\ Sendable(channel)
                    /\ pipe'[h][i] = AckTag(d) /\ \A j \in DOMAIN pipe[h] : j < i
<1>1. /\ pipe \in [Links -> Seq(Command)] /\ \A h \in Links : PublishedOnce(pipe[h])
      /\ d \in Delivery
      /\ UNCHANGED <<outbox, queue, unacked, settled>>
      /\ pipe' = IF Usable = NoLink THEN pipe
                 ELSE [pipe EXCEPT ![Usable] = Append(@, AckTag(d))]
  BY DEF Inv, TypeOK, PlaceInv, Ack
<1>2. AckTag(d) \in Command /\ AckTag(d).do = "ack" /\ \A m \in Messages : Pub(m) # AckTag(d)
  <2>1. AckTag(d) \in Command /\ AckTag(d).do = "ack"
    BY <1>1 DEF AckTag, Command, Delivery
  <2>2. QED
    BY <2>1, PubIs
<1>3. \A m \in Messages : /\ Out(m)' <=> Out(m)
                          /\ Queued(m)' <=> Queued(m)
                          /\ Given(m)' <=> Given(m)
                          /\ m \in settled' <=> m \in settled
  BY <1>1 DEF Out, Queued, Given
<1>4. CASE Usable = NoLink
  <2>1. pipe' = pipe
    BY <1>1, <1>4
  <2>2. \A h \in Links : \A m \in Messages : Piped(h, m)' <=> Piped(h, m)
    BY <2>1 DEF Piped
  <2>3. QED
    BY <1>1, <1>3, <2>1, <2>2 DEF Same
<1>5. CASE Usable # NoLink
  <2>1. Usable = channel /\ channel \in Links /\ Sendable(channel)
    BY <1>5 DEF Usable, Sendable, Inv, TypeOK, ConnTypeOK
  <2> PICK g \in Links : g = channel
    BY <2>1
  <2> PICK p \in Seq(Command) : p = pipe[g] /\ PublishedOnce(p)
    BY <1>1
  <2>2. pipe'[g] = Append(p, AckTag(d)) /\ \A h \in Links \ {g} : pipe'[h] = pipe[h]
    BY <1>1, <1>5, <2>1
  <2>3. /\ pipe'[g] \in Seq(Command) /\ PublishedOnce(pipe'[g])
        /\ \A x : Contains(pipe'[g], x) <=> Contains(p, x) \/ x = AckTag(d)
    BY <1>2, <2>2, InAppend
  <2>4. \A i \in DOMAIN pipe'[g] : \/ i \in DOMAIN p /\ pipe'[g][i] = p[i]
                                   \/ pipe'[g][i] = AckTag(d) /\ \A j \in DOMAIN p : j < i
    BY <1>2, <2>2
  <2>5. \A h \in Links : \A m \in Messages : Piped(h, m)' <=> Piped(h, m)
    BY <1>2, <2>2, <2>3 DEF Piped
  <2>6. pipe' \in [Links -> Seq(Command)] /\ \A h \in Links : PublishedOnce(pipe'[h])
    <3>1. pipe' = [pipe EXCEPT ![g] = Append(@, AckTag(d))]
      BY <1>1, <1>5, <2>1
    <3>2. QED
      BY <1>1, <2>2, <2>3, <3>1
  <2>7. QED
    BY <1>3, <2>1, <2>2, <2>4, <2>5, <2>6 DEF Same
<1>6. QED
  BY <1>4, <1>5

LEMMA AckKeeps ==
    ASSUME Inv, ConnTypeOK', LinkInv', NEW d \in hand, Ack(d)
    PROVE  Inv'
<1>1. /\ \A m \in Messages : Same(m)
      /\ pipe' \in [Links -> Seq(Command)] /\ \A h \in Links : PublishedOnce(pipe'[h])
      /\ \A h \in Links : \A i \in DOMAIN pipe'[h] :
            \/ i \in DOMAIN pipe[h] /\ pipe'[h][i] = pipe[h][i]
            \/ /\ h = channel /\ Sendable(channel)
               /\ pipe'[h][i] = AckTag(d) /\ \A j \in DOMAIN pipe[h] : j < i
  BY AckMoves
<1>2. /\ d \in Delivery /\ d.msg \in Messages /\ d.link \in Links
      /\ hand' = hand \ {d}
      /\ acked' = acked \cup {d.msg}
      /\ UNCHANGED <<connVars, published, outbox, queue, consuming, tags, unacked,
                     settled, rejected, early>>
      /\ ~mixed' => ~mixed /\ d.link = channel
      /\ mixed' \in BOOLEAN
  <2>1. d \in Delivery
    BY DEF Inv, TypeOK
  <2>2. d.msg \in Messages /\ d.link \in Links
    BY <2>1 DEF Delivery
  <2>3. mixed' <=> mixed \/ d.link # channel
    BY Zenon DEF Ack
  <2>4. mixed' \in BOOLEAN
    BY DEF Ack
  <2>5. QED
    BY <2>1, <2>2, <2>3, <2>4 DEF Ack
<1>3. AckTag(d).do = "ack" /\ AckTag(d).tag = d.tag
  BY DEF AckTag
<1>4. TypeOK'
  BY <1>1, <1>2 DEF Inv, TypeOK
<1>5. WrittenInv'
  <2>1. Sendable(channel) => chan[channel] \in {"declaring", "up"}
    BY DEF Sendable
  <2>2. QED
    BY <1>1, <1>2, <1>3, <2>1 DEF Inv, WrittenInv, connVars
<1>6. OrderInv'
  <2>1. ~Ordinary(AckTag(d))
    BY <1>3 DEF Ordinary
  <2>2. \A c : Ordinary(c)' <=> Ordinary(c)
    BY <1>2 DEF Ordinary
  <2>3. \A g \in Links : \A i, j \in DOMAIN pipe'[g] :
           i < j /\ Ordinary(pipe'[g][i]) /\ Ordinary(pipe'[g][j]) => pipe'[g][i].msg < pipe'[g][j].msg
    BY <1>1, <2>1 DEF Inv, OrderInv
  <2>4. QED
    BY <1>2, <2>2, <2>3 DEF Inv, OrderInv, connVars
<1>7. PlaceInv'
  <2>1. published \in Nat /\ published' = published
    BY <1>2 DEF Inv, TypeOK
  <2>2. \A m \in Messages : Placed(m)'
    BY <1>1, <2>1, SameKeeps DEF Inv, PlaceInv
  <2>3. QED
    BY <1>1, <1>2, <2>2 DEF Inv, PlaceInv
<1>8. TagsInv'
  <2>1. ASSUME ~mixed', NEW h \in Links, NEW i \in DOMAIN pipe'[h], pipe'[h][i].do = "ack"
        PROVE  /\ pipe'[h][i].tag <= tags'[h]
               /\ \A e \in unacked' : e.link = h /\ e.tag = pipe'[h][i].tag => e.msg \in acked'
    <3>1. ~mixed /\ d.link = channel
      BY <1>2, <2>1
    <3>2. CASE i \in DOMAIN pipe[h] /\ pipe'[h][i] = pipe[h][i]
      BY <1>2, <2>1, <3>1, <3>2 DEF Inv, TagsInv
    <3>3. CASE h = channel /\ pipe'[h][i] = AckTag(d)
      BY <1>2, <1>3, <3>1, <3>3 DEF Inv, TagsInv
    <3>4. QED
      BY <1>1, <3>2, <3>3
  <2>2. QED
    BY <1>2, <2>1 DEF Inv, TagsInv
<1>9. QED
  BY <1>4, <1>5, <1>6, <1>7, <1>8 DEF Inv

(* A channel ends.                                                         *)
LEMMA RequeueMoves ==
    ASSUME Inv, NEW g \in Links, Requeue(g), UNCHANGED outbox
    PROVE  /\ \A m \in Messages :
                 /\ Out(m)' <=> Out(m)
                 /\ ~Piped(g, m)' /\ \A h \in Links \ {g} : Piped(h, m)' <=> Piped(h, m)
                 /\ Queued(m)' <=> Queued(m) \/ \E d \in unacked : d.link = g /\ d.msg = m
                 /\ Given(m)' <=> \E d \in unacked : d.link # g /\ d.msg = m
           /\ unacked' = {d \in unacked : d.link # g}
           /\ pipe' \in [Links -> Seq(Command)]
           /\ pipe'[g] = <<>> /\ \A h \in Links \ {g} : pipe'[h] = pipe[h]
           /\ queue' \in Seq(Messages) /\ Once(queue')
<1> DEFINE S == {d.msg : d \in {e \in unacked : e.link = g}}
<1>1. /\ unacked' = {d \in unacked : d.link # g}
      /\ queue' = SetToSeq(S) \o queue
      /\ pipe' = [pipe EXCEPT ![g] = <<>>]
      /\ pipe \in [Links -> Seq(Command)] /\ queue \in Seq(Messages) /\ Once(queue)
      /\ \A d \in unacked : d.msg \in Messages
  BY DEF Requeue, Inv, TypeOK, PlaceInv, Delivery
<1>2. S \in SUBSET Messages /\ \A m, n \in S : m = n
  BY <1>1 DEF Inv, TagsInv
<1>3. \A m : m \in S <=> \E d \in unacked : d.link = g /\ d.msg = m
  OBVIOUS
<1>4. \A m \in S : ~Queued(m)
  BY <1>2, <1>3 DEF Inv, PlaceInv, Placed, Given
<1>5. PICK f \in Seq(Messages) : f = SetToSeq(S) /\ (\A x : Contains(f, x) <=> x \in S) /\ Len(f) <= 1
  <2> HIDE DEF S
  <2>1. QED
    BY <1>2, FirstIs
<1>6. /\ queue' \in Seq(Messages)
      /\ \A x : Queued(x)' <=> x \in S \/ Queued(x)
  <2>1. queue' = f \o queue
    BY <1>1, <1>5
  <2> HIDE DEF S
  <2>2. f \o queue \in Seq(Messages)
        /\ \A x : Contains(f \o queue, x) <=> Contains(f, x) \/ Contains(queue, x)
    BY <1>1, InConcat
  <2>3. QED
    BY <1>5, <2>1, <2>2 DEF Queued
<1>7. Once(queue')
  <2>1. queue' = f \o queue
    BY <1>1, <1>5
  <2> HIDE DEF S
  <2>2. \A x : Contains(f, x) => ~Contains(queue, x)
    BY <1>4, <1>5 DEF Queued
  <2>3. Once(f)
    <3>1. \A i \in DOMAIN f : i = 1
      BY <1>5
    <3>2. QED
      BY <3>1 DEF Once
  <2>4. Once(f \o queue)
    BY <1>1, <2>2, <2>3, ConcatOnce
  <2>5. QED
    BY <2>1, <2>4
<1>8. /\ pipe' \in [Links -> Seq(Command)]
      /\ pipe'[g] = <<>> /\ \A h \in Links \ {g} : pipe'[h] = pipe[h]
  BY <1>1
<1>9. ASSUME NEW m \in Messages
      PROVE  /\ Out(m)' <=> Out(m)
             /\ ~Piped(g, m)' /\ \A h \in Links \ {g} : Piped(h, m)' <=> Piped(h, m)
             /\ Given(m)' <=> \E d \in unacked : d.link # g /\ d.msg = m
  <2>1. Len(<<>>) = 0
    OBVIOUS
  <2>2. ~Piped(g, m)'
    BY <1>8, <2>1 DEF Piped, Contains
  <2>3. QED
    BY <1>1, <1>8, <2>2 DEF Out, Piped, Given
<1>10. QED
  BY <1>1, <1>3, <1>6, <1>7, <1>8, <1>9

LEMMA RequeueKeeps ==
    ASSUME Inv, ConnTypeOK', LinkInv', NEW g \in Links, Requeue(g), connected' = connected,
           \A h \in Links \ {g} : chan'[h] = chan[h],
           UNCHANGED <<published, outbox, tags, hand, settled, acked, rejected, early, mixed>>
    PROVE  Inv'
<1>1. /\ \A m \in Messages :
            /\ Out(m)' <=> Out(m)
            /\ ~Piped(g, m)' /\ \A h \in Links \ {g} : Piped(h, m)' <=> Piped(h, m)
            /\ Queued(m)' <=> Queued(m) \/ \E d \in unacked : d.link = g /\ d.msg = m
            /\ Given(m)' <=> \E d \in unacked : d.link # g /\ d.msg = m
      /\ unacked' = {d \in unacked : d.link # g}
      /\ pipe' \in [Links -> Seq(Command)]
      /\ pipe'[g] = <<>> /\ \A h \in Links \ {g} : pipe'[h] = pipe[h]
      /\ queue' \in Seq(Messages) /\ Once(queue')
  BY RequeueMoves
<1>2. consuming' \subseteq Links
  BY DEF Requeue, Inv, TypeOK
<1>3. TypeOK'
  BY <1>1, <1>2 DEF Inv, TypeOK
<1>4. \A h \in Links : \A i \in DOMAIN pipe'[h] : h # g /\ pipe'[h] = pipe[h] /\ chan'[h] = chan[h]
  BY <1>1
<1>5. WrittenInv'
  BY <1>4 DEF Inv, WrittenInv
<1>6. OrderInv'
  <2>1. \A c : Ordinary(c)' <=> Ordinary(c)
    BY DEF Ordinary
  <2>2. QED
    BY <1>4, <2>1 DEF Inv, OrderInv
<1>7. PlaceInv'
  <2>1. ASSUME NEW m \in Messages
        PROVE  Placed(m)'
    <3>1. Placed(m)
      BY DEF Inv, PlaceInv
    <3>2. Given(m) <=> (\E d \in unacked : d.link = g /\ d.msg = m) \/ Given(m)'
      BY <1>1 DEF Given
    <3>3. (\E d \in unacked : d.link = g /\ d.msg = m) => ~Given(m)'
      BY <1>1 DEF Inv, TagsInv
    <3>4. Sent(m)' => Sent(m)
      BY <1>1 DEF Sent
    <3>5. QED
      BY <1>1, <3>1, <3>2, <3>3, <3>4 DEF Placed
  <2>2. \A h \in Links : PublishedOnce(pipe'[h])
    BY <1>1 DEF Inv, PlaceInv, PublishedOnce
  <2>3. QED
    BY <1>1, <2>1, <2>2 DEF Inv, PlaceInv
<1>8. TagsInv'
  BY <1>1, <1>4 DEF Inv, TagsInv
<1>9. QED
  BY <1>3, <1>5, <1>6, <1>7, <1>8 DEF Inv

(* The broker reads the first command of a link, and waits no longer for   *)
(* what it acknowledges.                                                   *)
Read(g, c, meant) ==
    /\ chan[g] \in {"up", "closing"}
    /\ pipe[g] # <<>> /\ c = Head(pipe[g])
    /\ meant = {d \in unacked : d.link = g /\ c.do = "ack" /\ d.tag = c.tag}
    /\ queue' = IF c.do = "publish" THEN Append(queue, c.msg) ELSE queue
    /\ settled' = settled \cup {d.msg : d \in meant}
    /\ unacked' = unacked \ meant
    /\ pipe' = [pipe EXCEPT ![g] = Tail(@)]
    /\ UNCHANGED <<connVars, consuming, published, outbox, tags, hand, acked, rejected, early, mixed>>

(* The broker reads a command, or closes the channel over a tag that it    *)
(* does not know.                                                          *)
LEMMA ArriveIs ==
    ASSUME NEW g \in Links, Arrive(g)
    PROVE  \/ \E c, meant : Read(g, c, meant)
           \/ /\ ChannelLost(g) /\ Requeue(g)
              /\ UNCHANGED <<settled, published, outbox, tags, hand, acked, rejected, early, mixed>>
<1> DEFINE c == Head(pipe[g])
           meant == {d \in unacked : d.link = g /\ c.do = "ack" /\ d.tag = c.tag}
<1>1. CASE c.do = "ack" /\ meant = {} /\ chan[g] = "up"
  BY <1>1 DEF Arrive
<1>2. CASE ~(c.do = "ack" /\ meant = {} /\ chan[g] = "up")
  <2>1. Read(g, c, meant)
    BY <1>2 DEF Arrive, Read
  <2>2. QED
    BY <2>1
<1>3. QED
  BY <1>1, <1>2

(* Whatever is read is written no longer.                                  *)
LEMMA ReadRest ==
    ASSUME Inv, NEW g \in Links, NEW c, NEW meant, Read(g, c, meant)
    PROVE  /\ c \in Command
           /\ pipe' \in [Links -> Seq(Command)] /\ \A h \in Links : PublishedOnce(pipe'[h])
           /\ \A h \in Links \ {g} : pipe'[h] = pipe[h]
           /\ \A i \in DOMAIN pipe'[g] : i + 1 \in DOMAIN pipe[g] /\ pipe'[g][i] = pipe[g][i + 1]
           /\ DOMAIN pipe'[g] \subseteq Nat
           /\ 1 \in DOMAIN pipe[g] /\ pipe[g][1] = c
           /\ \A x : Contains(pipe[g], x) <=> x = c \/ Contains(pipe'[g], x)
           /\ c.do = "publish" => ~Contains(pipe'[g], c)
<1>1. pipe \in [Links -> Seq(Command)] /\ \A h \in Links : PublishedOnce(pipe[h])
  BY DEF Inv, TypeOK, PlaceInv
<1> PICK p \in Seq(Command) : p = pipe[g]
  BY <1>1
<1>2. /\ p # <<>> /\ c = Head(p) /\ pipe'[g] = Tail(p)
      /\ \A h \in Links \ {g} : pipe'[h] = pipe[h]
      /\ pipe' = [pipe EXCEPT ![g] = Tail(p)]
  BY <1>1 DEF Read
<1>3. PublishedOnce(p)
  BY <1>1
<1>4. /\ Tail(p) \in Seq(Command) /\ c \in Command
      /\ \A x : Contains(p, x) <=> x = c \/ Contains(Tail(p), x)
      /\ PublishedOnce(Tail(p)) /\ (c.do = "publish" => ~Contains(Tail(p), c))
  BY <1>2, <1>3, InTail
<1>5. /\ 1 \in DOMAIN p /\ p[1] = c
      /\ \A i \in DOMAIN Tail(p) : i + 1 \in DOMAIN p /\ Tail(p)[i] = p[i + 1]
      /\ DOMAIN Tail(p) \subseteq Nat
  BY <1>2
<1>6. QED
  BY <1>1, <1>2, <1>4, <1>5

(* What a command that is read does to where notifications are.            *)
LEMMA ReadMoves ==
    ASSUME Inv, NEW g \in Links, NEW c, NEW meant, Read(g, c, meant)
    PROVE  /\ \A m \in Messages :
                 \/ Same(m)
                 \/ /\ c.do = "publish" /\ m = c.msg
                    /\ Piped(g, m) /\ ~Sent(m)' /\ Queued(m)' /\ ~Given(m)' /\ m \notin settled'
                 \/ \E d \in meant :
                       /\ m = d.msg /\ Given(m) /\ ~Given(m)' /\ m \in settled'
                       /\ ~Sent(m)' /\ ~Queued(m)'
           /\ queue' \in Seq(Messages) /\ Once(queue')
           /\ settled' \subseteq Messages
<1>1. /\ c \in Command
      /\ \A h \in Links \ {g} : pipe'[h] = pipe[h]
      /\ \A x : Contains(pipe[g], x) <=> x = c \/ Contains(pipe'[g], x)
      /\ c.do = "publish" => ~Contains(pipe'[g], c)
  BY ReadRest
<1>2. /\ meant = {d \in unacked : d.link = g /\ c.do = "ack" /\ d.tag = c.tag}
      /\ queue' = (IF c.do = "publish" THEN Append(queue, c.msg) ELSE queue)
      /\ settled' = settled \cup {d.msg : d \in meant}
      /\ unacked' = unacked \ meant
      /\ outbox' = outbox
      /\ queue \in Seq(Messages) /\ Once(queue)
      /\ \A d \in unacked : d.msg \in Messages
      /\ settled \subseteq Messages
  BY DEF Read, Inv, TypeOK, PlaceInv, Delivery
<1>3. \A m \in Messages : /\ Out(m)' <=> Out(m)
                          /\ \A h \in Links \ {g} : Piped(h, m)' <=> Piped(h, m)
                          /\ Placed(m)
  BY <1>1, <1>2 DEF Out, Piped, Inv, PlaceInv
<1>4. \A m \in Messages : m \in settled' <=> m \in settled \/ \E d \in meant : m = d.msg
  BY <1>2
<1>5. settled' \subseteq Messages
  BY <1>2
<1>6. CASE c.do = "publish"
  <2> PICK n : n = c.msg
    OBVIOUS
  <2>1. n \in Messages /\ c = Pub(n) /\ \A m \in Messages : Pub(m) = Pub(n) => m = n
    BY <1>1, <1>6, PubIs
  <2>2. meant = {} /\ unacked' = unacked /\ settled' = settled /\ queue' = Append(queue, n)
    BY <1>2, <1>6
  <2>3. /\ Piped(g, n) /\ ~Piped(g, n)'
        /\ \A m \in Messages \ {n} : Piped(g, m)' <=> Piped(g, m)
    BY <1>1, <1>6, <2>1 DEF Piped
  <2>4. ~Queued(n) /\ ~Given(n) /\ n \notin settled /\ ~Out(n) /\ \A h \in Links \ {g} : ~Piped(h, n)
    <3>1. Sent(n)
      BY <2>3 DEF Sent
    <3>2. QED
      BY <1>3, <2>1, <2>3, <3>1 DEF Placed
  <2>5. /\ queue' \in Seq(Messages) /\ Once(queue')
        /\ \A x : Queued(x)' <=> Queued(x) \/ x = n
    BY <1>2, <2>1, <2>2, <2>4, InAppend DEF Queued
  <2>6. \A m \in Messages : Given(m)' <=> Given(m)
    BY <2>2 DEF Given
  <2>7. ~Sent(n)'
    BY <1>3, <2>1, <2>3, <2>4 DEF Sent
  <2>8. \A m \in Messages \ {n} : Same(m)
    BY <1>3, <2>2, <2>3, <2>5, <2>6 DEF Same
  <2>9. QED
    BY <1>5, <1>6, <2>1, <2>2, <2>3, <2>4, <2>5, <2>6, <2>7, <2>8
<1>7. CASE c.do # "publish"
  <2>1. \A m \in Messages : Piped(g, m)' <=> Piped(g, m)
    BY <1>1, <1>7, PubIs DEF Piped
  <2>2. queue' = queue /\ \A m \in Messages : Queued(m)' <=> Queued(m)
    BY <1>2, <1>7 DEF Queued
  <2>3. ASSUME NEW m \in Messages, NEW d \in meant, m = d.msg
        PROVE  Given(m) /\ ~Given(m)' /\ m \in settled' /\ ~Sent(m)' /\ ~Queued(m)'
    <3>1. d \in unacked /\ Given(m)
      BY <1>2, <2>3 DEF Given
    <3>2. ~Given(m)'
      BY <1>2, <2>3, <3>1 DEF Given, Inv, TagsInv
    <3>3. ~Sent(m) /\ ~Queued(m)
      BY <1>3, <3>1 DEF Placed
    <3>4. ~Sent(m)'
      BY <1>3, <2>1, <3>3 DEF Sent
    <3>5. QED
      BY <1>4, <2>2, <2>3, <3>1, <3>2, <3>3, <3>4
  <2>4. ASSUME NEW m \in Messages, ~\E d \in meant : m = d.msg
        PROVE  Same(m)
    <3>1. Given(m)' <=> Given(m)
      BY <1>2, <2>4 DEF Given
    <3>2. QED
      BY <1>3, <1>4, <2>1, <2>2, <2>4, <3>1 DEF Same
  <2>5. QED
    BY <1>2, <1>5, <2>2, <2>3, <2>4
<1>8. QED
  BY <1>6, <1>7

LEMMA ReadKeeps ==
    ASSUME Inv, ConnTypeOK', LinkInv', NEW g \in Links, NEW c, NEW meant, Read(g, c, meant)
    PROVE  Inv'
<1>1. /\ pipe' \in [Links -> Seq(Command)] /\ \A h \in Links : PublishedOnce(pipe'[h])
      /\ \A h \in Links \ {g} : pipe'[h] = pipe[h]
      /\ \A i \in DOMAIN pipe'[g] : i + 1 \in DOMAIN pipe[g] /\ pipe'[g][i] = pipe[g][i + 1]
      /\ DOMAIN pipe'[g] \subseteq Nat
  BY ReadRest
<1>2. /\ \A m \in Messages :
            \/ Same(m)
            \/ /\ c.do = "publish" /\ m = c.msg
               /\ Piped(g, m) /\ ~Sent(m)' /\ Queued(m)' /\ ~Given(m)' /\ m \notin settled'
            \/ \E d \in meant :
                  /\ m = d.msg /\ Given(m) /\ ~Given(m)' /\ m \in settled'
                  /\ ~Sent(m)' /\ ~Queued(m)'
      /\ queue' \in Seq(Messages) /\ Once(queue')
      /\ settled' \subseteq Messages
  BY ReadMoves
<1>3. /\ unacked' \subseteq unacked
      /\ UNCHANGED <<connVars, consuming, published, outbox, tags, hand, acked, rejected, early, mixed>>
  BY DEF Read
<1>4. TypeOK'
  BY <1>1, <1>2, <1>3 DEF Inv, TypeOK
<1>5. WrittenInv'
  BY <1>1, <1>3 DEF Inv, WrittenInv, connVars
<1>6. OrderInv'
  <2>1. \A x : Ordinary(x)' <=> Ordinary(x)
    BY <1>3 DEF Ordinary
  <2>2. ASSUME NEW h \in Links, NEW i \in DOMAIN pipe'[h], NEW j \in DOMAIN pipe'[h], i < j,
               Ordinary(pipe'[h][i]), Ordinary(pipe'[h][j])
        PROVE  pipe'[h][i].msg < pipe'[h][j].msg
    <3>1. CASE h = g
      <4>1. i + 1 < j + 1
        BY <1>1, <2>2, <3>1
      <4>2. QED
        BY <1>1, <2>2, <3>1, <4>1 DEF Inv, OrderInv
    <3>2. CASE h # g
      BY <1>1, <2>2, <3>2 DEF Inv, OrderInv
    <3>3. QED
      BY <3>1, <3>2
  <2>3. QED
    BY <1>3, <2>1, <2>2 DEF Inv, OrderInv, connVars
<1>7. PlaceInv'
  <2>1. published \in Nat /\ published' = published
    BY <1>3 DEF Inv, TypeOK
  <2>2. ASSUME NEW m \in Messages
        PROVE  Placed(m)'
    <3>1. Placed(m)
      BY DEF Inv, PlaceInv
    <3>2. CASE Same(m)
      BY <2>1, <3>1, <3>2, SameKeeps
    <3>3. CASE Piped(g, m) /\ ~Sent(m)' /\ Queued(m)' /\ ~Given(m)' /\ m \notin settled'
      BY <2>1, <3>1, <3>3 DEF Placed, Sent
    <3>4. CASE Given(m) /\ ~Given(m)' /\ m \in settled' /\ ~Sent(m)' /\ ~Queued(m)'
      BY <2>1, <3>1, <3>4 DEF Placed, Sent
    <3>5. QED
      BY <1>2, <3>2, <3>3, <3>4
  <2>3. Once(outbox')
    BY <1>3 DEF Inv, PlaceInv
  <2>4. QED
    BY <1>1, <1>2, <2>2, <2>3 DEF PlaceInv
<1>8. TagsInv'
  <2>1. \A h \in Links : \A i \in DOMAIN pipe'[h] :
           \E j \in DOMAIN pipe[h] : pipe'[h][i] = pipe[h][j]
    BY <1>1
  <2>2. QED
    BY <1>3, <2>1 DEF Inv, TagsInv
<1>9. QED
  BY <1>4, <1>5, <1>6, <1>7, <1>8 DEF Inv

-----------------------------------------------------------------------------

(* Nothing is published and nothing linked.                                *)
LEMMA InitInv == Init => Inv
<1> SUFFICES ASSUME Init
             PROVE  Inv
  OBVIOUS
<1>1. /\ ConnTypeOK /\ LinkInv
  BY DEF Init, ConnInit, ConnTypeOK, LinkInv, Attempting, ConnStage, ChanStage, NoLink
<1>2. Len(<<>>) = 0 /\ DOMAIN <<>> = {} /\ <<>> \in Seq(Messages) /\ <<>> \in Seq(Command)
  OBVIOUS
<1>3. TypeOK
  <2>1. published \in 0 .. MaxMessages
    BY MaxMessagesAssumption DEF Init
  <2>2. pipe \in [Links -> Seq(Command)] /\ tags \in [Links -> Nat]
    BY <1>2 DEF Init
  <2>3. mixed \in BOOLEAN
    BY DEF Init
  <2>4. QED
    BY <1>1, <1>2, <2>1, <2>2, <2>3 DEF Init, TypeOK
<1>4. WrittenInv /\ OrderInv
  BY <1>2 DEF Init, ConnInit, WrittenInv, OrderInv
<1>5. PlaceInv
  <2>1. \A m \in Messages : ~Out(m) /\ ~Queued(m) /\ ~Given(m) /\ m \notin settled
                            /\ \A g \in Links : ~Piped(g, m)
    BY <1>2 DEF Init, Out, Queued, Given, Piped, Contains
  <2>2. \A m \in Messages : Placed(m)
    BY <2>1 DEF Placed, Sent
  <2>3. QED
    BY <1>2, <2>2 DEF Init, PlaceInv, Once, PublishedOnce
<1>6. TagsInv
  BY <1>2 DEF Init, TagsInv
<1>7. QED
  BY <1>1, <1>3, <1>4, <1>5, <1>6 DEF Inv

(* The conjunction is inductive.                                           *)
LEMMA InvStep == Inv /\ [Next]_vars => Inv'
<1> SUFFICES ASSUME Inv, [Next]_vars
             PROVE  Inv'
  OBVIOUS
<1>1. ConnTypeOK' /\ LinkInv'
  BY NextLinks, LinkKeeps DEF Inv, TypeOK
<1>2. CASE UNCHANGED vars
  BY <1>1, <1>2, NothingMoves DEF vars, connVars, deliveryVars, Inv, TypeOK
<1>3. CASE Publish \/ Consume \/ Elsewhere \/ Detach
  BY <1>1, <1>3, PublishKeeps, ConsumeKeeps, ElsewhereKeeps, DetachKeeps
<1>4. ASSUME NEW g \in Links,
             Open(g) \/ ConnectionOpened(g) \/ ConnectFailed(g) \/ ChannelOpened(g) \/ ConnectionClosed(g),
             UNCHANGED deliveryVars
      PROVE  Inv'
  BY <1>1, <1>4, BuildKeeps
<1>5. ASSUME NEW g \in Links, Attach(g) \/ Deliver(g)
      PROVE  Inv'
  BY <1>1, <1>5, AttachKeeps, DeliverKeeps
<1>6. chan \in [Links -> ChanStage]
  BY DEF Inv, TypeOK, ConnTypeOK
<1>7. ASSUME NEW g \in Links, Arrive(g)
      PROVE  Inv'
  <2>1. ASSUME NEW c, NEW meant, Read(g, c, meant)
        PROVE  Inv'
    BY <1>1, <2>1, ReadKeeps
  <2>2. ASSUME ChannelLost(g), Requeue(g),
               UNCHANGED <<settled, published, outbox, tags, hand, acked, rejected, early, mixed>>
        PROVE  Inv'
    BY <1>1, <1>6, <2>2, RequeueKeeps DEF ChannelLost
  <2>3. QED
    BY <1>7, <2>1, <2>2, ArriveIs
<1>8. ASSUME NEW g \in Links, Lose(g)
      PROVE  Inv'
  BY <1>1, <1>6, <1>8, RequeueKeeps DEF Lose, ChannelLost, ConnectionLost
<1>9. ASSUME NEW g \in Links, Settle(g)
      PROVE  Inv'
  BY <1>1, <1>6, <1>9, RequeueKeeps DEF Settle, ChannelClosed
<1>10. ASSUME NEW d \in hand, Ack(d) \/ Reject(d)
       PROVE  Inv'
  BY <1>1, <1>10, AckKeeps, ConsumeKeeps
<1>11. QED
  BY <1>2, <1>3, <1>4, <1>5, <1>7, <1>8, <1>9, <1>10 DEF Next

(* Every reachable state satisfies the inductive invariant.                *)
LEMMA Invariance == Spec => []Inv
BY InitInv, InvStep, PTL DEF Spec

(* Every reachable state is of its type.                                   *)
THEOREM TypeCorrect == Spec => []TypeOK
BY Invariance, PTL DEF Inv

(* What leaves on a link leaves in the order of the calls of publish().    *)
THEOREM PublishedInOrder == Spec => []InOrder
<1>1. Inv => InOrder
  <2> SUFFICES ASSUME Inv, NEW g \in Links
               PROVE  LET all == pipe[g] \o (IF g = channel
                                             THEN [i \in DOMAIN outbox |-> Pub(outbox[i])]
                                             ELSE <<>>)
                      IN \A i, j \in DOMAIN all :
                            i < j /\ Ordinary(all[i]) /\ Ordinary(all[j]) => all[i].msg < all[j].msg
    BY DEF InOrder
  <2>1. pipe[g] \in Seq(Command) /\ outbox \in Seq(Messages)
    BY DEF Inv, TypeOK
  <2>2. \A i, j \in DOMAIN pipe[g] :
           i < j /\ Ordinary(pipe[g][i]) /\ Ordinary(pipe[g][j]) => pipe[g][i].msg < pipe[g][j].msg
    BY DEF Inv, OrderInv
  <2>3. CASE g # channel \/ outbox = <<>>
    <3>1. (IF g = channel THEN [i \in DOMAIN outbox |-> Pub(outbox[i])] ELSE <<>>) = <<>>
      BY <2>3
    <3>2. pipe[g] \o <<>> = pipe[g]
      BY <2>1
    <3>3. QED
      BY <2>2, <3>1, <3>2
  <2>4. CASE g = channel /\ outbox # <<>>
    <3>1. \A i \in DOMAIN pipe[g] : ~Ordinary(pipe[g][i])
      BY <2>4 DEF Inv, OrderInv, LinkInv, WrittenInv, Ordinary, NoLink, Links
    <3> PICK f \in Seq(Command) : f = Flush(outbox)
      BY <2>1, FlushIs
    <3>2. /\ Len(f) = Len(outbox)
          /\ \A i \in 1 .. Len(outbox) : f[i] = Pub(outbox[i]) /\ outbox[i] \in Messages
      BY <2>1, FlushIs
    <3>3. [i \in DOMAIN outbox |-> Pub(outbox[i])] = f
      BY <2>1 DEF Flush
    <3> PICK p \in Seq(Command) : p = pipe[g]
      BY <2>1
    <3>4. /\ Len(p) \in Nat /\ Len(outbox) \in Nat
          /\ DOMAIN p = 1 .. Len(p) /\ DOMAIN outbox = 1 .. Len(outbox)
          /\ DOMAIN (p \o f) = 1 .. Len(p) + Len(f)
          /\ \A i \in 1 .. Len(p) + Len(f) : (p \o f)[i] = IF i <= Len(p) THEN p[i] ELSE f[i - Len(p)]
      BY <2>1, ConcatProperties
    <3>5. ASSUME NEW i \in DOMAIN (p \o f), NEW j \in DOMAIN (p \o f), i < j,
                 Ordinary((p \o f)[i]), Ordinary((p \o f)[j])
          PROVE  (p \o f)[i].msg < (p \o f)[j].msg
      <4>1. i > Len(p) /\ j > Len(p)
        BY <3>1, <3>4, <3>5
      <4>2. /\ i - Len(p) \in DOMAIN outbox /\ j - Len(p) \in DOMAIN outbox /\ i - Len(p) < j - Len(p)
            /\ (p \o f)[i] = f[i - Len(p)] /\ (p \o f)[j] = f[j - Len(p)]
        BY <3>2, <3>4, <3>5, <4>1
      <4>3. outbox[i - Len(p)] < outbox[j - Len(p)]
        BY <4>2 DEF Inv, OrderInv
      <4>4. QED
        BY <3>2, <3>4, <4>2, <4>3, PubIs
    <3>6. QED
      BY <2>4, <3>3, <3>5
  <2>5. QED
    BY <2>3, <2>4
<1>2. QED
  BY <1>1, Invariance, PTL

-----------------------------------------------------------------------------
(* What the queue's users see. *)

(* What the stage of a notification means, where it is at one place.       *)
LEMMA StageIs ==
    ASSUME NEW m \in Messages, Placed(m), published \in Nat
    PROVE  /\ Stage(m) = "new" <=> m > published
           /\ Stage(m) = "done" <=> m \in settled
           /\ Stage(m) = "ready" <=> Queued(m)
           /\ Stage(m) = "given" <=> Given(m)
           /\ Stage(m) = "sent" <=> Sent(m)
           /\ Stage(m) = "lost" <=> /\ ~(m > published) /\ m \notin settled
                                    /\ ~Queued(m) /\ ~Given(m) /\ ~Sent(m)
<1>1. m > published => m \notin settled /\ ~Queued(m) /\ ~Given(m) /\ ~Sent(m)
  BY DEF Placed, Messages
<1>2. QED
  BY <1>1 DEF Placed, Stage

(* Its holder is the link of its delivery.                                 *)
LEMMA HolderIs ==
    ASSUME Inv, NEW m \in Messages
    PROVE  /\ ~Given(m) => Holder(m) = NoLink
           /\ \A d \in unacked : d.msg = m => Holder(m) = d.link
           /\ Given(m) => \E d \in unacked : d.msg = m /\ Holder(m) = d.link
<1>1. Placed(m) /\ published \in Nat
  BY DEF Inv, TypeOK, PlaceInv
<1>2. Stage(m) = "given" <=> Given(m)
  BY <1>1, StageIs
<1>3. ASSUME NEW d \in unacked, d.msg = m
      PROVE  Holder(m) = d.link
  <2>1. Given(m)
    BY <1>3 DEF Given
  <2>2. \A e \in unacked : e.msg = m => e = d
    BY <1>3 DEF Inv, TagsInv
  <2>3. (CHOOSE e \in unacked : e.msg = m) = d
    BY <1>3, <2>2
  <2>4. QED
    BY <1>2, <2>1, <2>3 DEF Holder
<1>4. QED
  BY <1>2, <1>3 DEF Holder, Given

(* The holder of a notification after a step.                              *)
LEMMA HolderIsNext ==
    ASSUME Inv', NEW m \in Messages
    PROVE  /\ ~Given(m)' => Holder(m)' = NoLink
           /\ \A d \in unacked' : d.msg = m => Holder(m)' = d.link
<1>1. Placed(m)' /\ published' \in Nat
  BY DEF Inv, TypeOK, PlaceInv
<1>2. Stage(m)' = "given" <=> Given(m)'
  <2>1. m > published' => ~Given(m)'
    BY <1>1 DEF Placed, Messages
  <2>2. QED
    BY <1>1, <2>1 DEF Placed, Stage
<1>3. ASSUME NEW d \in unacked', d.msg = m
      PROVE  Holder(m)' = d.link
  <2>1. Given(m)'
    BY <1>3 DEF Given
  <2>2. \A e \in unacked' : e.msg = m => e = d
    BY <1>3 DEF Inv, TagsInv
  <2>3. (CHOOSE e \in unacked' : e.msg = m) = d
    BY <1>3, <2>2
  <2>4. QED
    BY <1>2, <2>1, <2>3 DEF Holder
<1>4. QED
  BY <1>2, <1>3 DEF Holder

(* A step that leaves a notification where it is, or on its way.           *)
LEMMA SameIsKept ==
    ASSUME Inv, Inv', NEW m \in Messages,
           /\ Sent(m)' <=> Sent(m)
           /\ Queued(m)' <=> Queued(m)
           /\ Given(m)' <=> Given(m)
           /\ m \in settled' <=> m \in settled,
           m > published' <=> m > published,
           \A d \in unacked : d.msg = m => d \in unacked'
    PROVE  Stage(m)' = Stage(m) /\ Holder(m)' = Holder(m)
<1>1. Stage(m)' = Stage(m)
  BY DEF Stage
<1>2. Holder(m)' = Holder(m)
  <2>1. CASE Given(m)
    BY <2>1, HolderIs, HolderIsNext
  <2>2. CASE ~Given(m)
    BY <2>2, HolderIs, HolderIsNext
  <2>3. QED
    BY <2>1, <2>2
<1>3. QED
  BY <1>1, <1>2

(* The stage of a notification after a step.                               *)
LEMMA StageIsNext ==
    ASSUME Inv', NEW m \in Messages
    PROVE  /\ Stage(m)' = "done" <=> m \in settled'
           /\ Stage(m)' = "ready" <=> Queued(m)'
           /\ Stage(m)' = "given" <=> Given(m)'
           /\ Stage(m)' = "sent" <=> Sent(m)'
           /\ Stage(m)' = "lost" <=> /\ ~(m > published') /\ m \notin settled'
                                     /\ ~Queued(m)' /\ ~Given(m)' /\ ~Sent(m)'
           /\ ~Given(m)' => Holder(m)' = NoLink
<1>1. Placed(m)' /\ published' \in Nat
  BY DEF Inv, TypeOK, PlaceInv
<1>2. m > published' => m \notin settled' /\ ~Queued(m)' /\ ~Given(m)' /\ ~Sent(m)'
  BY <1>1 DEF Placed, Messages
<1>3. QED
  BY <1>1, <1>2, HolderIsNext DEF Placed, Stage

(* A step that moves a notification elsewhere than to a worker.            *)
Moved(m, from, to) == Stage(m) = from /\ Stage(m)' = to /\ Holder(m)' = NoLink

(* What a WorkQueue lets happen to a notification.                         *)
Promised(m) ==
    \/ Moved(m, "new", "sent") \/ Moved(m, "new", "lost")
    \/ Moved(m, "sent", "ready") \/ Moved(m, "sent", "lost")
    \/ Moved(m, "given", "ready")
    \/ m \in acked' /\ (Moved(m, "given", "done") \/ Moved(m, "ready", "done"))
    \/ Stage(m)' = Stage(m) /\ Holder(m)' = Holder(m)
    \/ /\ Stage(m) = "ready" /\ Stage(m)' = "given"
       /\ \E g \in Links : Holder(m)' = g /\ \A n \in Messages : Holder(n) # g

(* A notification whose place is the same takes no step of the WorkQueue.  *)
LEMMA SamePromised ==
    ASSUME Inv, Inv', NEW m \in Messages, Same(m), published' = published,
           \A d \in unacked : d.msg = m => d \in unacked'
    PROVE  Promised(m)
<1>1. Sent(m)' <=> Sent(m)
  BY DEF Same, Sent
<1>2. QED
  BY <1>1, SameIsKept DEF Same, Promised

(* One lemma for each action: each notification takes a promised step, or  *)
(* none.                                                                   *)
LEMMA PublishPromised ==
    ASSUME Inv, Inv', Publish, NEW m \in Messages
    PROVE  Promised(m)
<1> PICK n : n = published + 1
  OBVIOUS
<1>1. /\ n \in Messages /\ published' = n
      /\ \A k \in Messages \ {n} : Same(k)
      /\ ~Queued(n)' /\ ~Given(n)' /\ n \notin settled'
  BY PublishMoves
<1>2. published \in Nat /\ m \in Nat /\ Placed(m) /\ unacked' = unacked
  BY DEF Inv, TypeOK, Messages, PlaceInv, Publish
<1>3. CASE m = n
  <2>1. Stage(m) = "new"
    BY <1>2, <1>3, StageIs
  <2>2. Stage(m)' \in {"sent", "lost"} /\ Holder(m)' = NoLink
    BY <1>1, <1>2, <1>3, StageIsNext
  <2>3. QED
    BY <2>1, <2>2 DEF Promised, Moved
<1>4. CASE m # n
  <2>1. m > published' <=> m > published
    BY <1>1, <1>2, <1>4
  <2>2. Sent(m)' <=> Sent(m)
    BY <1>1, <1>4 DEF Same, Sent
  <2>3. QED
    BY <1>1, <1>2, <1>4, <2>1, <2>2, SameIsKept DEF Same, Promised
<1>5. QED
  BY <1>3, <1>4

LEMMA AttachPromised ==
    ASSUME Inv, Inv', NEW g \in Links, Attach(g), NEW m \in Messages
    PROVE  Promised(m)
<1>1. PICK k \in 0 .. 1 :
         /\ published + k <= MaxMessages
         /\ published' = published + k
         /\ early' = early \cup (published + 1 .. published')
         /\ pipe' = [pipe EXCEPT ![g] = @ \o [i \in 1 .. k |-> Pub(published + i)] \o Flush(outbox)]
  BY Zenon DEF Attach
<1> PICK n : n = published + 1
  OBVIOUS
<1>2. /\ chan[g] = "declaring" /\ outbox' = <<>>
      /\ UNCHANGED <<queue, unacked, settled>>
      /\ published \in Nat /\ m \in Nat /\ Placed(m)
  BY DEF Attach, ExchangeDeclared, Inv, TypeOK, Messages, PlaceInv
<1>3. /\ ~Out(m)' /\ ~Piped(g, m)
      /\ Piped(g, m)' <=> Out(m) \/ (k = 1 /\ m = n)
      /\ \A h \in Links \ {g} : Piped(h, m)' <=> Piped(h, m)
      /\ Queued(m)' <=> Queued(m)
      /\ Given(m)' <=> Given(m)
  BY <1>1, <1>2, AttachMoves
<1>4. CASE k = 1 /\ m = n
  <2>1. Stage(m) = "new"
    BY <1>2, <1>4, StageIs
  <2>2. Sent(m)' /\ ~Given(m)'
    BY <1>2, <1>3, <1>4 DEF Sent, Placed
  <2>3. QED
    BY <2>1, <2>2, StageIsNext DEF Promised, Moved
<1>5. CASE ~(k = 1 /\ m = n)
  <2>1. Sent(m)' <=> Sent(m)
    BY <1>3, <1>5 DEF Sent
  <2>2. m > published' <=> m > published
    BY <1>1, <1>2, <1>5
  <2>3. QED
    BY <1>2, <1>3, <2>1, <2>2, SameIsKept DEF Promised
<1>6. QED
  BY <1>4, <1>5

LEMMA DeliverPromised ==
    ASSUME Inv, Inv', NEW g \in Links, Deliver(g), AckMode, NEW m \in Messages
    PROVE  Promised(m)
<1> PICK n : n = Head(queue)
  OBVIOUS
<1> PICK d : d = [msg |-> n, tag |-> tags[g] + 1, link |-> g]
  OBVIOUS
<1>1. /\ n \in Messages /\ Queued(n)
      /\ unacked' = unacked \cup {d}
      /\ \A e \in unacked : e.link # g /\ e.msg # n
      /\ Given(n)'
      /\ \A k \in Messages \ {n} : Same(k)
  BY DeliverMoves
<1>2. published' = published
  BY DEF Deliver
<1>3. CASE m = n
  <2>1. Stage(m) = "ready"
    BY <1>1, <1>3, StageIs DEF Inv, TypeOK, PlaceInv
  <2>2. Stage(m)' = "given"
    BY <1>1, <1>3, StageIsNext
  <2>3. Holder(m)' = g
    <3>1. d \in unacked' /\ d.msg = m /\ d.link = g
      BY <1>1, <1>3
    <3>2. QED
      BY <3>1, HolderIsNext
  <2>4. ASSUME NEW k \in Messages
        PROVE  Holder(k) # g
    <3>1. CASE Given(k)
      BY <1>1, <3>1, HolderIs
    <3>2. CASE ~Given(k)
      BY <3>2, HolderIs DEF NoLink, Links
    <3>3. QED
      BY <3>1, <3>2
  <2>5. QED
    BY <2>1, <2>2, <2>3, <2>4 DEF Promised
<1>4. CASE m # n
  BY <1>1, <1>2, <1>4, SamePromised
<1>5. QED
  BY <1>3, <1>4

LEMMA ReadPromised ==
    ASSUME Inv, Inv', NEW g \in Links, NEW c, NEW meant, Read(g, c, meant), ~mixed,
           NEW m \in Messages
    PROVE  Promised(m)
<1>1. \/ Same(m)
      \/ /\ c.do = "publish" /\ m = c.msg
         /\ Piped(g, m) /\ ~Sent(m)' /\ Queued(m)' /\ ~Given(m)' /\ m \notin settled'
      \/ \E d \in meant :
            /\ m = d.msg /\ Given(m) /\ ~Given(m)' /\ m \in settled'
            /\ ~Sent(m)' /\ ~Queued(m)'
  BY ReadMoves
<1>2. /\ meant = {d \in unacked : d.link = g /\ c.do = "ack" /\ d.tag = c.tag}
      /\ unacked' = unacked \ meant
      /\ published' = published /\ acked' = acked
  BY DEF Read
<1>3. Placed(m) /\ published \in Nat
  BY DEF Inv, TypeOK, PlaceInv
<1>4. CASE Same(m)
  <2>1. ASSUME NEW d \in unacked, d.msg = m
        PROVE  d \in unacked'
    <3>1. Given(m)
      BY <2>1 DEF Given
    <3>2. PICK e \in unacked' : e.msg = m
      BY <1>4, <3>1 DEF Same, Given
    <3>3. e = d
      BY <1>2, <2>1, <3>2 DEF Inv, TagsInv
    <3>4. QED
      BY <3>2, <3>3
  <2>2. QED
    BY <1>2, <1>4, <2>1, SamePromised
<1>5. CASE Piped(g, m) /\ Queued(m)' /\ ~Given(m)'
  <2>1. Sent(m)
    BY <1>5 DEF Sent
  <2>2. QED
    BY <1>3, <1>5, <2>1, StageIs, StageIsNext DEF Promised, Moved
<1>6. ASSUME NEW d \in meant, m = d.msg, Given(m), ~Given(m)', m \in settled'
      PROVE  Promised(m)
  <2>1. m \in acked'
    <3>1. 1 \in DOMAIN pipe[g] /\ pipe[g][1] = c
      BY ReadRest
    <3>2. \A e \in unacked : e.link = g /\ e.tag = pipe[g][1].tag /\ pipe[g][1].do = "ack"
                            => e.msg \in acked
      BY <3>1 DEF Inv, TagsInv
    <3>3. QED
      BY <1>2, <1>6, <3>1, <3>2
  <2>2. Stage(m) = "given" /\ Stage(m)' = "done" /\ Holder(m)' = NoLink
    BY <1>3, <1>6, StageIs, StageIsNext
  <2>3. QED
    BY <2>1, <2>2 DEF Promised, Moved
<1>7. QED
  BY <1>1, <1>4, <1>5, <1>6

LEMMA RequeuePromised ==
    ASSUME Inv, Inv', NEW g \in Links, Requeue(g), UNCHANGED <<published, outbox, settled>>,
           NEW m \in Messages
    PROVE  Promised(m)
<1>1. /\ Out(m)' <=> Out(m)
      /\ ~Piped(g, m)' /\ \A h \in Links \ {g} : Piped(h, m)' <=> Piped(h, m)
      /\ Queued(m)' <=> Queued(m) \/ \E d \in unacked : d.link = g /\ d.msg = m
      /\ Given(m)' <=> \E d \in unacked : d.link # g /\ d.msg = m
      /\ unacked' = {d \in unacked : d.link # g}
  BY RequeueMoves
<1>2. Placed(m) /\ published \in Nat
  BY DEF Inv, TypeOK, PlaceInv
<1>3. CASE \E d \in unacked : d.link = g /\ d.msg = m
  <2>1. Given(m) /\ Queued(m)' /\ ~Given(m)'
    <3>1. ~Given(m)'
      BY <1>1, <1>3 DEF Inv, TagsInv
    <3>2. QED
      BY <1>1, <1>3, <3>1 DEF Given
  <2>2. QED
    BY <1>2, <2>1, StageIs, StageIsNext DEF Promised, Moved
<1>4. CASE ~(\E d \in unacked : d.link = g /\ d.msg = m) /\ Piped(g, m)
  <2>1. Sent(m)
    BY <1>4 DEF Sent
  <2>2. ~Queued(m) /\ ~Given(m) /\ m \notin settled /\ ~(m > published)
    BY <1>2, <2>1 DEF Placed, Messages
  <2>3. ~Sent(m)'
    BY <1>1, <1>2, <1>4 DEF Placed, Sent
  <2>4. ~Given(m)' /\ ~Queued(m)'
    BY <1>1, <1>4, <2>2 DEF Given
  <2>5. QED
    BY <1>2, <2>1, <2>2, <2>3, <2>4, StageIs, StageIsNext DEF Promised, Moved
<1>5. CASE ~(\E d \in unacked : d.link = g /\ d.msg = m) /\ ~Piped(g, m)
  <2>1. Sent(m)' <=> Sent(m)
    BY <1>1, <1>5 DEF Sent
  <2>2. Given(m)' <=> Given(m)
    BY <1>1, <1>5 DEF Given
  <2>3. \A d \in unacked : d.msg = m => d \in unacked'
    BY <1>1, <1>5
  <2>4. QED
    BY <1>1, <1>5, <2>1, <2>2, <2>3, SameIsKept DEF Promised
<1>6. QED
  BY <1>3, <1>4, <1>5

LEMMA ElsewherePromised ==
    ASSUME Inv, Inv', Elsewhere, NEW m \in Messages
    PROVE  Promised(m)
<1> PICK n : n = Head(queue)
  OBVIOUS
<1>1. /\ n \in Messages /\ Queued(n) /\ n \in settled' /\ n \in acked'
      /\ Given(n)' <=> Given(n)
      /\ \A k \in Messages \ {n} : Same(k)
  BY ElsewhereMoves
<1>2. UNCHANGED <<published, unacked>>
  BY DEF Elsewhere
<1>3. CASE m = n
  <2>1. Placed(m) /\ published \in Nat
    BY DEF Inv, TypeOK, PlaceInv
  <2>2. Stage(m) = "ready" /\ ~Given(m)'
    BY <1>1, <1>3, <2>1, StageIs DEF Placed
  <2>3. QED
    BY <1>1, <1>3, <2>2, StageIsNext DEF Promised, Moved
<1>4. CASE m # n
  BY <1>1, <1>2, <1>4, SamePromised
<1>5. QED
  BY <1>3, <1>4

(* Nothing that a worker or the broker holds changes.                      *)
LEMMA StillPromised ==
    ASSUME Inv, Inv', NEW m \in Messages,
           UNCHANGED <<published, outbox, pipe, queue, unacked, settled>>
    PROVE  Promised(m)
<1>1. Same(m)
  BY DEF Same, Out, Piped, Queued, Given
<1>2. QED
  BY <1>1, SamePromised

(* Acknowledgments are not taken back, nor what was mixed up.              *)
LEMMA Remembered ==
    ASSUME Next
    PROVE  acked \subseteq acked' /\ (mixed => mixed')
<1>1. ASSUME NEW g \in Links,
             Deliver(g) \/ Arrive(g) \/ Attach(g) \/ Lose(g) \/ Settle(g) \/ UNCHANGED deliveryVars
      PROVE  acked' = acked /\ mixed' = mixed
  BY <1>1 DEF Deliver, Arrive, Attach, Lose, Settle, deliveryVars
<1>2. ASSUME NEW d \in hand, Ack(d)
      PROVE  acked \subseteq acked' /\ (mixed => mixed')
  <2>1. acked' = acked \cup {d.msg}
    BY <1>2 DEF Ack
  <2>2. mixed => mixed'
    BY <1>2, Zenon DEF Ack
  <2>3. QED
    BY <2>1, <2>2
<1>3. ASSUME NEW d \in hand, Reject(d)
      PROVE  acked' = acked /\ mixed' = mixed
  BY <1>3 DEF Reject
<1>4. CASE Elsewhere
  BY <1>4 DEF Elsewhere
<1>5. CASE Publish \/ Consume \/ Detach
  BY <1>5 DEF Publish, Consume, Detach
<1>6. QED
  BY <1>1, <1>2, <1>3, <1>4, <1>5 DEF Next

(* Every step is one that a WorkQueue allows each notification.            *)
LEMMA NextPromised ==
    ASSUME Inv, Inv', Next, AckMode, ~mixed, NEW m \in Messages
    PROVE  Promised(m)
<1>1. CASE Publish
  BY <1>1, PublishPromised
<1>2. CASE Consume
  BY <1>2, StillPromised DEF Consume
<1>3. CASE Elsewhere
  BY <1>3, ElsewherePromised
<1>4. CASE Detach
  <2>1. Same(m) /\ published' = published /\ unacked' = unacked
    BY <1>4, DetachMoves DEF Detach
  <2>2. QED
    BY <2>1, SamePromised
<1>5. ASSUME NEW g \in Links, UNCHANGED deliveryVars
      PROVE  Promised(m)
  BY <1>5, StillPromised DEF deliveryVars
<1>6. ASSUME NEW g \in Links, Attach(g) \/ Deliver(g)
      PROVE  Promised(m)
  BY <1>6, AttachPromised, DeliverPromised
<1>7. ASSUME NEW g \in Links, Arrive(g)
      PROVE  Promised(m)
  <2>1. ASSUME NEW c, NEW meant, Read(g, c, meant)
        PROVE  Promised(m)
    BY <2>1, ReadPromised
  <2>2. ASSUME Requeue(g), UNCHANGED <<settled, published, outbox>>
        PROVE  Promised(m)
    BY <2>2, RequeuePromised
  <2>3. QED
    BY <1>7, <2>1, <2>2, ArriveIs
<1>8. ASSUME NEW g \in Links, Lose(g) \/ Settle(g)
      PROVE  Promised(m)
  BY <1>8, RequeuePromised DEF Lose, Settle
<1>9. ASSUME NEW d \in hand, Ack(d)
      PROVE  Promised(m)
  <2>1. Same(m) /\ published' = published /\ unacked' = unacked
    BY <1>9, AckMoves DEF Ack
  <2>2. QED
    BY <2>1, SamePromised
<1>10. ASSUME NEW d \in hand, Reject(d)
       PROVE  Promised(m)
  BY <1>10, StillPromised DEF Reject
<1>11. QED
  BY <1>1, <1>2, <1>3, <1>4, <1>5, <1>6, <1>7, <1>8, <1>9, <1>10 DEF Next

(* What is promised, as the actions of a WorkQueue.                        *)
LEMMA PromisedIs ==
    ASSUME NEW m \in Messages, Promised(m)
    PROVE  \/ Promise!Publish(m) \/ Promise!Arrive(m) \/ Promise!Lose(m)
           \/ \E w \in Links : Promise!Give(m, w)
           \/ Promise!Return(m) \/ Promise!Finish(m) \/ Promise!Keep(m)
<1>1. ASSUME NEW from, NEW to, Moved(m, from, to)
      PROVE  Promise!Move(m, from, to)
  BY <1>1 DEF Moved, Promise!Move
<1>2. ASSUME Stage(m)' = Stage(m), Holder(m)' = Holder(m)
      PROVE  Promise!Keep(m)
  BY <1>2 DEF Promise!Keep
<1>3. ASSUME NEW g \in Links, Stage(m) = "ready", Stage(m)' = "given", Holder(m)' = g,
             \A n \in Messages : Holder(n) # g
      PROVE  Promise!Give(m, g)
  BY <1>3 DEF Promise!Give
<1>4. QED
  BY <1>1, <1>2, <1>3 DEF Promised, Promise!Publish, Promise!Arrive, Promise!Lose,
     Promise!Return, Promise!Finish

(* Every step is one of the WorkQueue, or leaves it as it is.              *)
LEMMA StepIsPromised == Inv /\ Inv' /\ [Next]_vars => [Promise!Next]_(Promise!vars)
<1> SUFFICES ASSUME Inv, Inv', [Next]_vars
             PROVE  [Promise!Next]_(Promise!vars)
  OBVIOUS
<1>1. CASE UNCHANGED vars
  <2>1. /\ UNCHANGED <<published, outbox, pipe, queue, unacked, settled, acked, mixed>>
    BY <1>1 DEF vars, deliveryVars
  <2>2. \A m \in Messages : Stage(m)' = Stage(m)
    BY <2>1 DEF Stage, Queued, Given, Sent, Out, Piped
  <2>3. \A m \in Messages : Holder(m)' = Holder(m)
    BY <2>1, <2>2 DEF Holder
  <2>4. QED
    BY <2>1, <2>2, <2>3 DEF Promise!vars
<1>2. CASE Next
  <2>1. acked \subseteq acked' /\ (mixed => mixed')
    BY <1>2, Remembered
  <2>2. CASE mixed' \/ ~AckMode
    BY <2>1, <2>2 DEF Promise!Next
  <2>3. CASE ~mixed' /\ AckMode
    <3>1. \A m \in Messages :
             \/ Promise!Publish(m) \/ Promise!Arrive(m) \/ Promise!Lose(m)
             \/ \E w \in Links : Promise!Give(m, w)
             \/ Promise!Return(m) \/ Promise!Finish(m) \/ Promise!Keep(m)
      BY <1>2, <2>1, <2>3, NextPromised, PromisedIs
    <3>2. QED
      BY <2>1, <2>3, <3>1 DEF Promise!Next
  <2>4. QED
    BY <2>2, <2>3
<1>3. QED
  BY <1>1, <1>2

(* A shared queue gives and settles as a WorkQueue does, whatever links    *)
(* and publications, as long as deliveries are acknowledged on the link    *)
(* they came on.                                                           *)
THEOREM QueueIsWorkQueue == Spec => ImplementsWorkQueue
<1>1. Init => Promise!Init
  <2> SUFFICES ASSUME Init
               PROVE  Promise!Init
    OBVIOUS
  <2>1. Inv
    BY InitInv
  <2>2. \A m \in Messages : Stage(m) = "new"
    <3>1. published = 0 /\ \A m \in Messages : m \in Nat /\ m > 0
      BY MaxMessagesAssumption DEF Init, Messages
    <3>2. \A m \in Messages : m > published
      BY <3>1
    <3>3. \A m \in Messages : Placed(m) /\ published \in Nat
      BY <2>1 DEF Inv, TypeOK, PlaceInv
    <3>4. QED
      BY <3>2, <3>3, StageIs
  <2>3. \A m \in Messages : Holder(m) = NoLink
    BY <2>2 DEF Holder
  <2>4. (mixed \/ ~AckMode) \in BOOLEAN /\ acked = {}
    BY DEF Init
  <2>5. QED
    BY <2>2, <2>3, <2>4 DEF Promise!Init
<1>2. Inv /\ Inv' /\ [Next]_vars => [Promise!Next]_(Promise!vars)
  BY StepIsPromised
<1>3. QED
  BY <1>1, <1>2, Invariance, PTL DEF Spec, ImplementsWorkQueue, Promise!Spec
==============================================================================
