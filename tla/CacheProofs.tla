---------------------------- MODULE CacheProofs ----------------------------
(***************************************************************************)
(* What the cache keeps of a call and of an entry, for every number of     *)
(* calls and of commands under way.                                        *)
(***************************************************************************)
EXTENDS Cache, SequenceTheorems, TLAPS

(* Only a slow fail-over lets the count reach SlowCount.                   *)
SlowInv == ~slow => retry < SlowCount

(* A get's call waits for it until the timer gives it up, ...              *)
GetsWait(p, calls) ==
    \A k \in DOMAIN p :
        /\ p[k].op = "get" <=> p[k].call # NoCall
        /\ p[k].op = "get" /\ p[k].timed => calls[p[k].call].at = "get"

(* ... and has no other command under way.                                 *)
Alone(p) ==
    \A j, k \in DOMAIN p : j # k /\ p[j].op = "get" => p[j].call # p[k].call

(* What holds between the calls and their gets.                            *)
CallsInv ==
    /\ GetsWait(pipe, call)
    /\ Alone(pipe)
    /\ DoneOnce

(* An entry may be there although a delete() was called for version v.     *)
NewFor(e, v) == e # None /\ ~e.excused => e.version >= v

(* The commands of a delete(): keys, and the del of what it lists.         *)
IsDelete(m) == m.op \in {"keys", "del"}

(* The set()s of a pipe, and its deletes, against a version ...            *)
SetsNew(p, v) == \A k \in DOMAIN p : p[k].op = "set" => NewFor(p[k].entry, v)

DeletesOld(p, v) == \A k \in DOMAIN p : IsDelete(p[k]) => p[k].entry.version <= v

(* ... and against each other: a set() behind a delete is newer than it.   *)
SetsAfterDeletes(p) ==
    \A j, k \in DOMAIN p :
        j < k /\ IsDelete(p[j]) /\ p[k].op = "set" => NewFor(p[k].entry, p[j].entry.version)

(* The entries at the clients, and those that are on their way to redis,   *)
(* are not older than the last delete() that is done; the latter not older *)
(* either than the deletes before them, which are done by then.            *)
EntriesInv ==
    /\ floor <= asked
    /\ asked <= data
    /\ NewFor(stored, floor)
    /\ NewFor(memory, floor)
    /\ SetsNew(pipe, floor)
    /\ DeletesOld(pipe, asked)
    /\ SetsAfterDeletes(pipe)

(* The inductive invariant.                                                *)
Inv ==
    /\ TypeOK
    /\ SlowInv
    /\ CallsInv
    /\ EntriesInv

-----------------------------------------------------------------------------

(* The versions of the data are natural numbers, from 0 on.                *)
LEMMA VersionsFacts == 0 \in Versions /\ \A v \in Versions : v \in Nat
BY BoundAssumption DEF Versions

(* Excusing an entry does not make it count again.                         *)
LEMMA ExcuseFacts ==
    ASSUME NEW e \in Entry \cup {None}, NEW v \in Versions
    PROVE  /\ Excuse(e, v) \in Entry \cup {None}
           /\ e \in Entry => Excuse(e, v) \in Entry
           /\ NewFor(Excuse(e, v), v)
           /\ \A w \in Versions : NewFor(e, w) => NewFor(Excuse(e, v), w)
<1>1. CASE e = None
  BY <1>1, NoneAssumption DEF Excuse, NewFor
<1>2. CASE e \in Entry
  <2>1. e # None /\ e.version \in Nat /\ v \in Nat /\ e.excused \in BOOLEAN
    BY <1>2, NoneAssumption, VersionsFacts DEF Entry
  <2>2. PICK b \in BOOLEAN : /\ b <=> (e.excused \/ e.version < v)
                             /\ Excuse(e, v) = [e EXCEPT !.excused = b]
    BY <2>1, Zenon DEF Excuse
  <2>3. /\ Excuse(e, v) \in Entry
        /\ Excuse(e, v).version = e.version
        /\ Excuse(e, v).excused = b
    BY <1>2, <2>2 DEF Entry
  <2>4. QED
    BY <1>2, <2>1, <2>2, <2>3, NoneAssumption, VersionsFacts DEF NewFor
<1>3. QED
  BY <1>1, <1>2

(* What set() stores is excused unless it is as new as the deletes asked   *)
(* for.                                                                    *)
LEMMA ResultFacts ==
    ASSUME TypeOK, NEW v \in Versions
    PROVE  /\ Result(v) \in Entry
           /\ NewFor(Result(v), asked)
           /\ \A w \in Versions : w <= asked => NewFor(Result(v), w)
<1>1. asked \in Nat /\ v \in Nat
  BY VersionsFacts DEF TypeOK
<1> DEFINE b == v < asked
<1>2. b \in BOOLEAN
  BY <1>1
<1>3. Result(v) = [version |-> v, excused |-> b]
  BY Zenon DEF Result
<1> HIDE DEF b
<1>4. Result(v) \in Entry /\ Result(v).version = v /\ Result(v).excused = b
  BY <1>2, <1>3 DEF Entry
<1>5. ~b => v >= asked
  BY <1>1 DEF b
<1>6. QED
  BY <1>1, <1>4, <1>5, VersionsFacts DEF NewFor

(* The commands of a pipe with its set()s excused.                         *)
LEMMA ExcusePipeFacts ==
    ASSUME NEW p \in Seq(Command), NEW v \in Versions
    PROVE  LET q == ExcusePipe(p, v) IN
           /\ q \in Seq(Command)
           /\ Len(q) = Len(p)
           /\ DOMAIN q = DOMAIN p
           /\ \A k \in DOMAIN p :
                 /\ q[k].op = p[k].op
                 /\ q[k].call = p[k].call
                 /\ q[k].timed = p[k].timed
                 /\ p[k].op # "set" => q[k] = p[k]
                 /\ p[k].op = "set" =>
                      /\ NewFor(q[k].entry, v)
                      /\ \A w \in Versions : NewFor(p[k].entry, w) => NewFor(q[k].entry, w)
<1> DEFINE q == ExcusePipe(p, v)
<1>1. \A k \in DOMAIN p : q[k] = IF p[k].op = "set"
                                THEN [p[k] EXCEPT !.entry = Excuse(p[k].entry, v)] ELSE p[k]
  BY DEF ExcusePipe
<1>2. DOMAIN q = DOMAIN p /\ DOMAIN p = 1 .. Len(p) /\ Len(p) \in Nat
  BY DEF ExcusePipe
<1>3. q = [k \in 1 .. Len(p) |-> q[k]]
  BY <1>2 DEF ExcusePipe
<1> HIDE DEF q
<1>4. ASSUME NEW k \in DOMAIN p
      PROVE  /\ q[k] \in Command
             /\ q[k].op = p[k].op
             /\ q[k].call = p[k].call
             /\ q[k].timed = p[k].timed
             /\ p[k].op # "set" => q[k] = p[k]
             /\ p[k].op = "set" =>
                  /\ NewFor(q[k].entry, v)
                  /\ \A w \in Versions : NewFor(p[k].entry, w) => NewFor(q[k].entry, w)
  <2>0. p[k] \in Command
    BY <1>2
  <2>1. p[k] \in Command /\ p[k].entry \in Entry
    BY <2>0 DEF Command
  <2>2. CASE p[k].op # "set"
    BY <1>1, <2>1, <2>2
  <2>3. CASE p[k].op = "set"
    <3>1. q[k] = [p[k] EXCEPT !.entry = Excuse(p[k].entry, v)]
      BY <1>1, <2>3
    <3>2. Excuse(p[k].entry, v) \in Entry
      BY <2>1, ExcuseFacts
    <3>3. /\ q[k] \in Command
          /\ q[k].op = p[k].op
          /\ q[k].call = p[k].call
          /\ q[k].timed = p[k].timed
          /\ q[k].entry = Excuse(p[k].entry, v)
      BY <2>1, <3>1, <3>2 DEF Command
    <3>4. QED
      BY <2>1, <2>3, <3>3, ExcuseFacts
  <2>4. QED
    BY <2>2, <2>3
<1>5. q \in Seq(Command) /\ Len(q) = Len(p)
  BY <1>2, <1>3, <1>4
<1>6. QED
  BY <1>2, <1>4, <1>5 DEF q

(* ... and with one command that was given up.                             *)
LEMMA LateFacts ==
    ASSUME NEW p \in Seq(Command), NEW k \in DOMAIN p
    PROVE  LET q == [p EXCEPT ![k].timed = FALSE] IN
           /\ q \in Seq(Command)
           /\ Len(q) = Len(p)
           /\ DOMAIN q = DOMAIN p
           /\ ~q[k].timed
           /\ \A j \in DOMAIN p :
                 /\ q[j].op = p[j].op
                 /\ q[j].call = p[j].call
                 /\ q[j].entry = p[j].entry
                 /\ q[j].timed => p[j].timed /\ j # k
<1> DEFINE q == [p EXCEPT ![k].timed = FALSE]
<1>1. DOMAIN p = 1 .. Len(p) /\ Len(p) \in Nat /\ p[k] \in Command
  OBVIOUS
<1>2. DOMAIN q = DOMAIN p /\ \A j \in DOMAIN p : q[j] = IF j = k THEN [p[k] EXCEPT !.timed = FALSE] ELSE p[j]
  OBVIOUS
<1>3. q = [j \in 1 .. Len(p) |-> q[j]]
  BY <1>1
<1> HIDE DEF q
<1>4. /\ [p[k] EXCEPT !.timed = FALSE] \in Command
      /\ [p[k] EXCEPT !.timed = FALSE].op = p[k].op
      /\ [p[k] EXCEPT !.timed = FALSE].call = p[k].call
      /\ [p[k] EXCEPT !.timed = FALSE].entry = p[k].entry
      /\ [p[k] EXCEPT !.timed = FALSE].timed = FALSE
  BY <1>1 DEF Command
<1>5. ASSUME NEW j \in 1 .. Len(p)
      PROVE  q[j] \in Command
  <2>1. p[j] \in Command
    OBVIOUS
  <2>2. q[j] = p[j] \/ q[j] = [p[k] EXCEPT !.timed = FALSE]
    BY <1>1, <1>2
  <2>3. QED
    BY <1>4, <2>1, <2>2
<1>6. q \in Seq(Command) /\ Len(q) = Len(p)
  BY <1>1, <1>3, <1>5
<1>7. QED
  BY <1>2, <1>4, <1>6 DEF q

(* What the conditions on a pipe mean for the one without its head, ...    *)
LEMMA TailKeeps ==
    ASSUME NEW p \in Seq(Command), p # <<>>
    PROVE  /\ Head(p) \in Command
           /\ Head(p) = p[1] /\ 1 \in DOMAIN p
           /\ Tail(p) \in Seq(Command)
           /\ \A calls : GetsWait(p, calls) => GetsWait(Tail(p), calls)
           /\ Alone(p) => Alone(Tail(p))
           /\ Alone(p) /\ Head(p).op = "get" =>
                \A k \in DOMAIN Tail(p) : Tail(p)[k].call # Head(p).call
           /\ \A v \in Versions : SetsNew(p, v) => SetsNew(Tail(p), v)
           /\ \A v \in Versions : DeletesOld(p, v) => DeletesOld(Tail(p), v)
           /\ SetsAfterDeletes(p) => SetsAfterDeletes(Tail(p))
           /\ SetsAfterDeletes(p) /\ IsDelete(Head(p)) => SetsNew(Tail(p), Head(p).entry.version)
<1> DEFINE t == Tail(p)
<1>1. Len(p) \in Nat /\ Len(p) >= 1 /\ DOMAIN p = 1 .. Len(p)
  OBVIOUS
<1>2. Head(p) \in Command /\ Head(p) = p[1] /\ 1 \in DOMAIN p
  BY <1>1
<1>3. t \in Seq(Command) /\ DOMAIN t = 1 .. Len(p) - 1
  OBVIOUS
<1>4. \A k \in DOMAIN t : t[k] = p[k + 1] /\ k \in Nat /\ k + 1 \in DOMAIN p /\ k + 1 # 1 /\ 1 < k + 1
  BY <1>1, <1>3
<1> HIDE DEF t
<1>5. \A calls : GetsWait(p, calls) => GetsWait(t, calls)
  BY <1>4 DEF GetsWait
<1>6. \A j, k \in DOMAIN t : (j # k => j + 1 # k + 1) /\ (j < k => j + 1 < k + 1)
  BY <1>4
<1>7. Alone(p) => Alone(t)
  BY <1>4, <1>6 DEF Alone
<1>8. Alone(p) /\ Head(p).op = "get" => \A k \in DOMAIN t : t[k].call # Head(p).call
  BY <1>2, <1>4 DEF Alone
<1>9. \A v \in Versions : /\ SetsNew(p, v) => SetsNew(t, v)
                          /\ DeletesOld(p, v) => DeletesOld(t, v)
  BY <1>4 DEF SetsNew, DeletesOld
<1>10. SetsAfterDeletes(p) => SetsAfterDeletes(t)
  BY <1>4, <1>6 DEF SetsAfterDeletes
<1>11. SetsAfterDeletes(p) /\ IsDelete(Head(p)) => SetsNew(t, Head(p).entry.version)
  BY <1>2, <1>4 DEF SetsAfterDeletes, SetsNew
<1>12. QED
  BY <1>2, <1>3, <1>5, <1>7, <1>8, <1>9, <1>10, <1>11 DEF t

(* ... and for the one with another command at its end.                    *)
LEMMA AppendKeeps ==
    ASSUME NEW p \in Seq(Command), NEW m \in Command
    PROVE  LET q == Append(p, m) IN
           /\ q \in Seq(Command)
           /\ \A calls :
                 /\ GetsWait(p, calls)
                 /\ m.op = "get" <=> m.call # NoCall
                 /\ m.op = "get" /\ m.timed => calls[m.call].at = "get"
                 => GetsWait(q, calls)
           /\ Alone(p) /\ (m.op = "get" => \A k \in DOMAIN p : p[k].call # m.call)
              /\ (m.op # "get" => m.call = NoCall /\ \A k \in DOMAIN p : p[k].op = "get" => p[k].call # NoCall)
              => Alone(q)
           /\ \A v \in Versions : SetsNew(p, v) /\ (m.op = "set" => NewFor(m.entry, v)) => SetsNew(q, v)
           /\ \A v \in Versions : DeletesOld(p, v) /\ (IsDelete(m) => m.entry.version <= v) => DeletesOld(q, v)
           /\ SetsAfterDeletes(p)
              /\ (m.op = "set" => \A k \in DOMAIN p : IsDelete(p[k]) => NewFor(m.entry, p[k].entry.version))
              => SetsAfterDeletes(q)
<1> DEFINE q == Append(p, m)
           n == Len(p) + 1
<1>1. Len(p) \in Nat /\ DOMAIN p = 1 .. Len(p)
  OBVIOUS
<1>2. q \in Seq(Command) /\ DOMAIN q = 1 .. n
  BY <1>1
<1>3. q[n] = m /\ \A k \in DOMAIN p : q[k] = p[k]
  BY <1>1
<1>4. \A k \in DOMAIN q : k = n \/ k \in DOMAIN p
  BY <1>1, <1>2
<1>5. \A j, k \in DOMAIN q : j < k => j \in DOMAIN p
  BY <1>1, <1>2
<1> HIDE DEF q, n
<1>6. ASSUME NEW calls, GetsWait(p, calls),
             m.op = "get" <=> m.call # NoCall,
             m.op = "get" /\ m.timed => calls[m.call].at = "get"
      PROVE  GetsWait(q, calls)
  BY <1>3, <1>4, <1>6 DEF GetsWait
<1>7. ASSUME Alone(p), m.op = "get" => \A k \in DOMAIN p : p[k].call # m.call,
             m.op # "get" => m.call = NoCall /\ \A k \in DOMAIN p : p[k].op = "get" => p[k].call # NoCall
      PROVE  Alone(q)
  <2> SUFFICES ASSUME NEW j \in DOMAIN q, NEW k \in DOMAIN q, j # k, q[j].op = "get"
               PROVE  q[j].call # q[k].call
    BY DEF Alone
  <2>1. CASE j = n
    BY <1>3, <1>4, <1>7, <2>1
  <2>2. CASE k = n
    BY <1>3, <1>4, <1>7, <2>2
  <2>3. CASE j # n /\ k # n
    BY <1>3, <1>4, <1>7, <2>3 DEF Alone
  <2>4. QED
    BY <2>1, <2>2, <2>3
<1>8. \A v \in Versions : SetsNew(p, v) /\ (m.op = "set" => NewFor(m.entry, v)) => SetsNew(q, v)
  BY <1>3, <1>4 DEF SetsNew
<1>9. \A v \in Versions : DeletesOld(p, v) /\ (IsDelete(m) => m.entry.version <= v) => DeletesOld(q, v)
  BY <1>3, <1>4 DEF DeletesOld
<1>10. SetsAfterDeletes(p)
       /\ (m.op = "set" => \A k \in DOMAIN p : IsDelete(p[k]) => NewFor(m.entry, p[k].entry.version))
       => SetsAfterDeletes(q)
  BY <1>3, <1>4, <1>5 DEF SetsAfterDeletes
<1>11. QED
  BY <1>2, <1>6, <1>7, <1>8, <1>9, <1>10 DEF q

-----------------------------------------------------------------------------

(* What a call becomes.                                                    *)
LEMMA CallFacts ==
    ASSUME TypeOK, NEW q \in Call, q.at = "get"
    PROVE  /\ Free \in Call /\ ~Free.again
           /\ Asking \in Call /\ Asking.at = "get" /\ ~Asking.again
           /\ Found(q) \in Call /\ ~Found(q).again
           /\ Missed(q) \in Call /\ ~Missed(q).again
           /\ \A e : Given(q, e) \in Call /\ ~Given(q, e).again
<1>1. 0 \in Versions /\ data \in Versions
  BY VersionsFacts DEF TypeOK
<1>2. Free \in Call /\ Free.again = FALSE
  BY <1>1 DEF Free, Call
<1>3. Asking \in Call /\ Asking.at = "get" /\ ~Asking.again
  BY <1>2 DEF Asking, Call
<1>4. (q.at # "get") = FALSE
  OBVIOUS
<1>5. Found(q) = [Free EXCEPT !.again = FALSE]
  BY <1>4, Zenon DEF Found
<1>6. Found(q) \in Call /\ ~Found(q).again
  BY <1>2, <1>5 DEF Call
<1>7. Missed(q) = [at |-> "action", began |-> data, again |-> FALSE]
  BY <1>4, Zenon DEF Missed
<1>8. Missed(q) \in Call /\ ~Missed(q).again
  BY <1>1, <1>7 DEF Call
<1>9. \A e : Given(q, e) \in Call /\ ~Given(q, e).again
  BY <1>6, <1>8 DEF Given
<1>10. QED
  BY <1>2, <1>3, <1>6, <1>8, <1>9

(* A call that begins was asking.                                          *)
LEMMA AskingFacts ==
    ASSUME TypeOK
    PROVE  /\ Free \in Call /\ ~Free.again
           /\ Asking \in Call /\ Asking.at = "get" /\ ~Asking.again
           /\ \A e : Given(Asking, e) \in Call /\ ~Given(Asking, e).again
<1>1. 0 \in Versions
  BY VersionsFacts
<1>2. Free \in Call /\ Free.again = FALSE
  BY <1>1 DEF Free, Call
<1>3. Asking \in Call /\ Asking.at = "get"
  BY <1>2 DEF Asking, Call
<1>4. QED
  BY <1>2, <1>3, CallFacts

(* q has the gets of p, of which some may be timed no more.                *)
SameGets(p, q) ==
    /\ DOMAIN q = DOMAIN p
    /\ \A k \in DOMAIN p : /\ q[k].op = p[k].op
                           /\ q[k].call = p[k].call
                           /\ q[k].timed => p[k].timed

(* A step changes the call c only, for which no timed get is under way.    *)
OnlyChanges(c) == \A d \in Calls \ {c} : call'[d] = call[d]

(* No get that is timed is one of the call c.                              *)
NoGetOf(p, c) == \A k \in DOMAIN p : p[k].op = "get" /\ p[k].timed => p[k].call # c

(* The conditions on the gets carry over, ...                              *)
LEMMA SameGetsKeeps ==
    ASSUME NEW p, NEW q, SameGets(p, q)
    PROVE  /\ \A calls : GetsWait(p, calls) => GetsWait(q, calls)
           /\ Alone(p) => Alone(q)
BY DEF SameGets, GetsWait, Alone

(* ... to a pipe with its set()s excused, ...                              *)
LEMMA ExcusePipeGets ==
    ASSUME NEW p \in Seq(Command), NEW v \in Versions
    PROVE  /\ ExcusePipe(p, v) \in Seq(Command)
           /\ \A calls : GetsWait(p, calls) => GetsWait(ExcusePipe(p, v), calls)
           /\ Alone(p) => Alone(ExcusePipe(p, v))
<1>1. ExcusePipe(p, v) \in Seq(Command) /\ SameGets(p, ExcusePipe(p, v))
  BY ExcusePipeFacts DEF SameGets
<1>2. QED
  BY <1>1, SameGetsKeeps

(* ... and to one whose command k was given up: it is no get of its call   *)
(* then.                                                                   *)
LEMMA LateGets ==
    ASSUME NEW p \in Seq(Command), NEW k \in DOMAIN p
    PROVE  LET q == [p EXCEPT ![k].timed = FALSE] IN
           /\ q \in Seq(Command)
           /\ DOMAIN q = DOMAIN p
           /\ \A calls : GetsWait(p, calls) => GetsWait(q, calls)
           /\ Alone(p) => Alone(q)
           /\ Alone(p) /\ p[k].op = "get" => NoGetOf(q, p[k].call)
<1> DEFINE q == [p EXCEPT ![k].timed = FALSE]
<1>1. /\ q \in Seq(Command)
      /\ DOMAIN q = DOMAIN p
      /\ \A j \in DOMAIN p : /\ q[j].op = p[j].op
                             /\ q[j].call = p[j].call
                             /\ q[j].timed => p[j].timed /\ j # k
  BY LateFacts
<1> HIDE DEF q
<1>2. SameGets(p, q)
  BY <1>1 DEF SameGets
<1>3. ASSUME Alone(p), p[k].op = "get"
      PROVE  NoGetOf(q, p[k].call)
  BY <1>1, <1>3 DEF Alone, NoGetOf
<1>4. QED
  BY <1>1, <1>2, <1>3, SameGetsKeeps DEF q

(* A call that waits for nothing may change.                               *)
LEMMA OtherCalls ==
    ASSUME NEW p \in Seq(Command), NEW c, GetsWait(p, call), OnlyChanges(c), NoGetOf(p, c)
    PROVE  GetsWait(p, call')
<1>1. ASSUME NEW k \in DOMAIN p, p[k].op = "get", p[k].timed
      PROVE  p[k].call \in Calls \ {c}
  <2>1. p[k] \in Command
    OBVIOUS
  <2>2. QED
    BY <1>1, <2>1 DEF Command, GetsWait, NoGetOf
<1>2. QED
  BY <1>1 DEF GetsWait, OnlyChanges

(* A command as Send makes it.                                             *)
LEMMA CommandFacts ==
    ASSUME NEW op \in {"get", "set", "keys", "del"}, NEW c \in Calls \cup {NoCall}, NEW e \in Entry
    PROVE  LET m == [op |-> op, call |-> c, entry |-> e, timed |-> TRUE] IN
           m \in Command /\ m.op = op /\ m.call = c /\ m.entry = e
BY DEF Command

(* An entry without an excuse.                                             *)
LEMMA PlainFacts == \A v \in Versions : Plain(v) \in Entry /\ Plain(v).version = v
BY DEF Plain, Entry

(* A command of nobody goes to the end of the pipe.                        *)
LEMMA SentByNobody ==
    ASSUME TypeOK, CallsInv, NEW p \in Seq(Command), NEW calls, GetsWait(p, calls), Alone(p),
           NEW m \in Command, m.op # "get", m.call = NoCall
    PROVE  /\ Append(p, m) \in Seq(Command)
           /\ GetsWait(Append(p, m), calls)
           /\ Alone(Append(p, m))
<1>1. \A k \in DOMAIN p : p[k].op = "get" => p[k].call # NoCall
  BY DEF GetsWait
<1>2. QED
  BY <1>1, AppendKeeps

(* An error answers those that wait for it.                                *)
LEMMA RefusedFacts ==
    ASSUME TypeOK, CallsInv, NEW ms, Refused(ms),
           \A k \in DOMAIN ms : \E j \in DOMAIN pipe : ms[k] = pipe[j]
    PROVE  /\ call' \in [Calls -> Call]
           /\ DoneOnce'
           /\ \A c \in Calls : (\A k \in DOMAIN ms : ms[k].call # c) => call'[c] = call[c]
<1> DEFINE told == {ms[k].call : k \in {j \in DOMAIN ms : ms[j].op = "get" /\ ms[j].timed}}
<1>1. call' = [c \in Calls |-> IF c \in told THEN Found(call[c]) ELSE call[c]]
  BY DEF Refused
<1>2. ASSUME NEW c \in Calls
      PROVE  call'[c] \in Call /\ ~call'[c].again
  <2>1. CASE c \in told
    <3>1. call[c].at = "get"
      BY <2>1 DEF CallsInv, GetsWait
    <3>2. QED
      BY <1>1, <2>1, <3>1, CallFacts DEF TypeOK
  <2>2. CASE c \notin told
    BY <1>1, <2>2 DEF TypeOK, CallsInv, DoneOnce
  <2>3. QED
    BY <2>1, <2>2
<1>3. call' \in [Calls -> Call]
  BY <1>1, <1>2
<1>4. ASSUME NEW c \in Calls, \A k \in DOMAIN ms : ms[k].call # c
      PROVE  call'[c] = call[c]
  <2>1. c \notin told
    BY <1>4
  <2>2. QED
    BY <1>1, <2>1
<1>5. QED
  BY <1>2, <1>3, <1>4 DEF DoneOnce

(* Every step keeps what the calls and their gets agree on.                *)
LEMMA CallsStep ==
    ASSUME TypeOK, CallsInv, [Next]_vars
    PROVE  CallsInv' /\ call' \in [Calls -> Call] /\ pipe' \in Seq(Command)
<1> DEFINE Goal == CallsInv' /\ call' \in [Calls -> Call] /\ pipe' \in Seq(Command)
<1>0. /\ pipe \in Seq(Command)
      /\ GetsWait(pipe, call)
      /\ Alone(pipe)
      /\ call \in [Calls -> Call]
      /\ \A c \in Calls : ~call[c].again
  BY DEF TypeOK, CallsInv, DoneOnce
<1>1. ASSUME UNCHANGED <<pipe, call>>
      PROVE  Goal
  BY <1>0, <1>1 DEF CallsInv, DoneOnce
<1>2. ASSUME NEW c \in Calls, Enter(c)
      PROVE  Goal
  <2>1. Get(c) /\ \A k \in DOMAIN pipe : pipe[k].call # c
    BY <1>2 DEF Enter
  <2>2. CASE failOver
    <3>1. pipe' = pipe /\ \E e : call' = [call EXCEPT ![c] = Given(Asking, e)]
      BY <2>1, <2>2 DEF Get
    <3>2. call' \in [Calls -> Call] /\ DoneOnce'
      BY <1>0, <3>1, AskingFacts DEF DoneOnce
    <3>3. OnlyChanges(c) /\ NoGetOf(pipe, c)
      BY <1>0, <2>1, <3>1 DEF OnlyChanges, NoGetOf
    <3>4. GetsWait(pipe, call')
      BY <1>0, <2>1, <3>3, OtherCalls
    <3>5. QED
      BY <1>0, <3>1, <3>2, <3>4 DEF CallsInv
  <2>3. CASE ~failOver
    <3> DEFINE m == [op |-> "get", call |-> c, entry |-> Plain(0), timed |-> TRUE]
    <3>1. pipe' = Append(pipe, m) /\ call' = [call EXCEPT ![c] = Asking]
      BY <2>1, <2>3 DEF Get, Send
    <3>2. m \in Command /\ m.op = "get" /\ m.call = c
      BY CommandFacts, PlainFacts, VersionsFacts
    <3> HIDE DEF m
    <3>3. call' \in [Calls -> Call] /\ DoneOnce' /\ call'[c].at = "get"
      BY <1>0, <3>1, AskingFacts DEF DoneOnce
    <3>4. OnlyChanges(c) /\ NoGetOf(pipe, c)
      BY <1>0, <2>1, <3>1 DEF OnlyChanges, NoGetOf
    <3>5. GetsWait(pipe, call')
      BY <1>0, <2>1, <3>4, OtherCalls
    <3>6. c # NoCall
      BY NoCallAssumption
    <3>7. GetsWait(Append(pipe, m), call')
      BY <1>0, <3>2, <3>3, <3>5, <3>6, AppendKeeps
    <3>8. Alone(Append(pipe, m)) /\ Append(pipe, m) \in Seq(Command)
      BY <1>0, <2>1, <3>2, AppendKeeps
    <3>9. QED
      BY <3>1, <3>3, <3>7, <3>8 DEF CallsInv
  <2>4. QED
    BY <2>2, <2>3
<1>3. ASSUME NEW c \in Calls, NEW ok \in BOOLEAN, ActionDone(c, ok)
      PROVE  Goal
  <2>1. call[c].at = "action" /\ call' = [call EXCEPT ![c] = Free]
    BY <1>3 DEF ActionDone
  <2>2. call' \in [Calls -> Call] /\ DoneOnce'
    BY <1>0, <2>1, AskingFacts DEF DoneOnce
  <2>3. OnlyChanges(c)
    BY <1>0, <2>1 DEF OnlyChanges
  <2>4. NoGetOf(pipe, c)
    BY <1>0, <2>1 DEF GetsWait, NoGetOf
  <2>5. GetsWait(pipe, call')
    BY <1>0, <2>3, <2>4, OtherCalls
  <2>6. CASE pipe' = pipe
    BY <1>0, <2>2, <2>5, <2>6 DEF CallsInv
  <2>7. CASE pipe' # pipe
    <3>1. PICK v \in call[c].began .. data : Set(v)
      BY <1>3, <2>7 DEF ActionDone
    <3> DEFINE m == [op |-> "set", call |-> NoCall, entry |-> Result(v), timed |-> TRUE]
    <3>2. pipe' = Append(pipe, m)
      BY <2>7, <3>1 DEF Set, Send
    <3>3. v \in Versions
      <4>1. call[c].began \in Nat /\ data \in Versions
        BY <1>0, VersionsFacts DEF TypeOK, Call
      <4>2. QED
        BY <4>1, BoundAssumption DEF Versions
    <3>4. m \in Command /\ m.op = "set" /\ m.call = NoCall
      BY <3>3, CommandFacts, ResultFacts
    <3> HIDE DEF m
    <3>5. QED
      BY <1>0, <2>2, <2>5, <3>2, <3>4, SentByNobody DEF CallsInv
  <2>8. QED
    BY <2>6, <2>7
<1>4. CASE Change \/ Evict \/ SlowEnds \/ Report \/ Reconnect \/ UNCHANGED vars
  BY <1>1, <1>4 DEF Change, Evict, SlowEnds, Report, Reconnect, vars
<1>5. ASSUME NEW pattern \in BOOLEAN, NEW told \in BOOLEAN, Delete(pattern, told)
      PROVE  Goal
  <2> DEFINE v == IF told THEN data ELSE 0
  <2>1. call' = call /\ v \in Versions
    BY <1>5, VersionsFacts DEF Delete, TypeOK
  <2>2. CASE failOver
    <3>1. pipe' = ExcusePipe(pipe, v)
      BY <1>5, <2>2 DEF Delete
    <3>2. QED
      BY <1>0, <2>1, <3>1, ExcusePipeGets DEF CallsInv, DoneOnce
  <2>3. CASE ~failOver
    <3>1. PICK op \in {"keys", "del"} : Send(op, NoCall, Plain(v))
      BY <1>5, <2>3 DEF Delete
    <3> DEFINE m == [op |-> op, call |-> NoCall, entry |-> Plain(v), timed |-> TRUE]
    <3>2. pipe' = Append(pipe, m)
      BY <3>1 DEF Send
    <3>3. m \in Command /\ m.op # "get" /\ m.call = NoCall
      BY <2>1, CommandFacts, PlainFacts
    <3> HIDE DEF m
    <3>4. QED
      BY <1>0, <2>1, <3>2, <3>3, SentByNobody DEF CallsInv, DoneOnce
  <2>4. QED
    BY <2>2, <2>3
<1>6. CASE Answer
  <2> DEFINE m == Head(pipe)
  <2>1. pipe # <<>>
    BY <1>6 DEF Answer
  <2>2. /\ m \in Command
        /\ Tail(pipe) \in Seq(Command) /\ GetsWait(Tail(pipe), call) /\ Alone(Tail(pipe))
        /\ m.op = "get" => \A k \in DOMAIN Tail(pipe) : Tail(pipe)[k].call # m.call
        /\ m.op = "get" <=> m.call # NoCall
        /\ m.op = "get" /\ m.timed => call[m.call].at = "get"
    BY <1>0, <2>1, TailKeeps DEF GetsWait
  <2>3. call' = Reply(m)
    BY <1>6 DEF Answer
  <2> DEFINE del == [m EXCEPT !.op = "del"]
  <2>4. pipe' = Tail(pipe) \/ (m.op = "keys" /\ pipe' = Append(Tail(pipe), del))
    BY <1>6 DEF Answer
  <2>5. call' \in [Calls -> Call] /\ DoneOnce' /\ GetsWait(Tail(pipe), call')
    <3>1. CASE m.op = "get" /\ m.timed
      <4>1. call' = [call EXCEPT ![m.call] = Given(call[m.call], stored)]
        BY <2>3, <3>1 DEF Reply
      <4>2. m.call \in Calls /\ call[m.call] \in Call /\ call[m.call].at = "get"
        BY <1>0, <2>2, <3>1 DEF Command
      <4>3. call' \in [Calls -> Call] /\ DoneOnce'
        BY <1>0, <4>1, <4>2, CallFacts DEF DoneOnce
      <4>4. OnlyChanges(m.call) /\ NoGetOf(Tail(pipe), m.call)
        BY <1>0, <2>2, <3>1, <4>1 DEF OnlyChanges, NoGetOf
      <4>5. QED
        BY <2>2, <3>1, <4>3, <4>4, OtherCalls
    <3>2. CASE ~(m.op = "get" /\ m.timed)
      BY <1>0, <2>2, <2>3, <3>2 DEF Reply, DoneOnce
    <3>3. QED
      BY <3>1, <3>2
  <2>6. CASE pipe' = Tail(pipe)
    BY <2>2, <2>5, <2>6 DEF CallsInv
  <2>7. CASE m.op = "keys" /\ pipe' = Append(Tail(pipe), del)
    <3>2. del \in Command /\ del.op = "del" /\ del.call = m.call
      BY <2>2 DEF Command
    <3> HIDE DEF del
    <3>3. m.call = NoCall
      BY <2>2, <2>7
    <3>4. QED
      BY <2>2, <2>5, <2>7, <3>2, <3>3, SentByNobody DEF CallsInv
  <2>8. QED
    BY <2>4, <2>6, <2>7
<1>7. CASE AnswerError
  <2> DEFINE m == Head(pipe)
             ms == <<m>>
  <2>1. pipe # <<>> /\ pipe' = Tail(pipe) /\ Refused(ms)
    BY <1>7 DEF AnswerError
  <2>2. /\ m = pipe[1] /\ 1 \in DOMAIN pipe
        /\ Tail(pipe) \in Seq(Command) /\ GetsWait(Tail(pipe), call) /\ Alone(Tail(pipe))
        /\ m.op = "get" => \A k \in DOMAIN Tail(pipe) : Tail(pipe)[k].call # m.call
    BY <1>0, <2>1, TailKeeps
  <2>3. DOMAIN ms = {1} /\ ms[1] = m
    OBVIOUS
  <2>4. \A k \in DOMAIN ms : \E j \in DOMAIN pipe : ms[k] = pipe[j]
    BY <2>2, <2>3
  <2> HIDE DEF ms
  <2>5. /\ call' \in [Calls -> Call]
        /\ DoneOnce'
        /\ \A c \in Calls : (\A k \in DOMAIN ms : ms[k].call # c) => call'[c] = call[c]
    BY <2>1, <2>4, RefusedFacts
  <2>6. OnlyChanges(m.call)
    BY <2>3, <2>5 DEF OnlyChanges
  <2>7. NoGetOf(Tail(pipe), m.call)
    <3>1. CASE m.op = "get"
      BY <2>2, <3>1 DEF NoGetOf
    <3>2. CASE m.op # "get"
      <4>1. m.call = NoCall
        BY <1>0, <2>2, <3>2 DEF GetsWait
      <4>2. QED
        BY <2>2, <4>1 DEF GetsWait, NoGetOf
    <3>3. QED
      BY <3>1, <3>2
  <2>8. GetsWait(Tail(pipe), call')
    BY <2>2, <2>6, <2>7, OtherCalls
  <2>9. QED
    BY <2>1, <2>2, <2>5, <2>8 DEF CallsInv
<1>8. ASSUME NEW k \in DOMAIN pipe, Expire(k)
      PROVE  Goal
  <2> DEFINE m == pipe[k]
             late == [pipe EXCEPT ![k].timed = FALSE]
  <2>1. m \in Command /\ m.timed
    BY <1>0, <1>8 DEF Expire
  <2>2. pipe' = IF m.op \in {"keys", "del"} THEN ExcusePipe(late, m.entry.version) ELSE late
    BY <1>8 DEF Expire
  <2>3. GiveUp(m)
    BY <1>8 DEF Expire
  <2>4. /\ late \in Seq(Command)
        /\ GetsWait(late, call)
        /\ Alone(late)
        /\ m.op = "get" => NoGetOf(late, m.call)
    BY <1>0, LateGets
  <2> HIDE DEF late
  <2>6. call' \in [Calls -> Call] /\ DoneOnce' /\ GetsWait(late, call')
    <3>1. CASE m.op = "get"
      <4>1. call' = [call EXCEPT ![m.call] = Missed(call[m.call])]
        BY <2>3, <3>1 DEF GiveUp
      <4>2. m.call \in Calls /\ call[m.call] \in Call /\ call[m.call].at = "get"
        BY <1>0, <2>1, <3>1 DEF Command, GetsWait
      <4>3. call' \in [Calls -> Call] /\ DoneOnce'
        BY <1>0, <4>1, <4>2, CallFacts DEF DoneOnce
      <4>4. OnlyChanges(m.call)
        BY <1>0, <4>1 DEF OnlyChanges
      <4>5. QED
        BY <2>4, <3>1, <4>3, <4>4, OtherCalls
    <3>2. CASE m.op # "get"
      <4>1. call' = call
        BY <2>1, <2>3, <3>2 DEF GiveUp
      <4>2. QED
        BY <1>0, <2>4, <4>1 DEF DoneOnce
    <3>3. QED
      BY <3>1, <3>2
  <2>7. m.entry.version \in Versions
    BY <2>1 DEF Command, Entry
  <2>8. CASE pipe' = late
    BY <2>4, <2>6, <2>8 DEF CallsInv
  <2>9. CASE pipe' = ExcusePipe(late, m.entry.version)
    BY <2>4, <2>6, <2>7, <2>9, ExcusePipeGets DEF CallsInv
  <2>10. QED
    BY <2>2, <2>8, <2>9
<1>9. CASE Break
  <2>1. pipe' = <<>> /\ Refused(pipe)
    BY <1>9 DEF Break
  <2>2. call' \in [Calls -> Call] /\ DoneOnce'
    BY <2>1, RefusedFacts
  <2>3. QED
    BY <2>1, <2>2 DEF CallsInv, GetsWait, Alone
<1>10. QED
  BY <1>2, <1>3, <1>4, <1>5, <1>6, <1>7, <1>8, <1>9 DEF Next

-----------------------------------------------------------------------------

(* Excused for version v, the set()s of a pipe are new enough for v, and   *)
(* for what they were new enough for.                                      *)
LEMMA ExcusePipeNew ==
    ASSUME NEW p \in Seq(Command), NEW v \in Versions
    PROVE  LET q == ExcusePipe(p, v) IN
           /\ SetsNew(q, v)
           /\ \A w \in Versions : SetsNew(p, w) => SetsNew(q, w)
           /\ \A w \in Versions : DeletesOld(p, w) => DeletesOld(q, w)
           /\ SetsAfterDeletes(p) => SetsAfterDeletes(q)
<1> DEFINE q == ExcusePipe(p, v)
<1>1. /\ DOMAIN q = DOMAIN p
      /\ \A k \in DOMAIN p :
            /\ q[k].op = p[k].op
            /\ p[k].op # "set" => q[k] = p[k]
            /\ p[k].op = "set" =>
                 /\ NewFor(q[k].entry, v)
                 /\ \A w \in Versions : NewFor(p[k].entry, w) => NewFor(q[k].entry, w)
  BY ExcusePipeFacts
<1>2. \A k \in DOMAIN p : p[k].entry.version \in Versions
  <2>1. \A k \in DOMAIN p : p[k] \in Command
    OBVIOUS
  <2>2. QED
    BY <2>1 DEF Command, Entry
<1> HIDE DEF q
<1>3. SetsNew(q, v)
  BY <1>1 DEF SetsNew
<1>4. \A w \in Versions : SetsNew(p, w) => SetsNew(q, w)
  BY <1>1 DEF SetsNew
<1>5. \A w \in Versions : DeletesOld(p, w) => DeletesOld(q, w)
  BY <1>1 DEF DeletesOld, IsDelete
<1>6. ASSUME SetsAfterDeletes(p), NEW j \in DOMAIN q, NEW k \in DOMAIN q,
             j < k, IsDelete(q[j]), q[k].op = "set"
      PROVE  NewFor(q[k].entry, q[j].entry.version)
  <2>1. q[j] = p[j] /\ IsDelete(p[j]) /\ p[k].op = "set"
    BY <1>1, <1>6 DEF IsDelete
  <2>2. NewFor(p[k].entry, p[j].entry.version)
    BY <1>1, <1>6, <2>1 DEF SetsAfterDeletes
  <2>3. QED
    BY <1>1, <1>2, <1>6, <2>1, <2>2
<1>7. QED
  BY <1>3, <1>4, <1>5, <1>6 DEF q, SetsAfterDeletes

(* Giving a command up does not change the entries of the pipe.            *)
LEMMA LateNew ==
    ASSUME NEW p \in Seq(Command), NEW k \in DOMAIN p
    PROVE  LET q == [p EXCEPT ![k].timed = FALSE] IN
           /\ q \in Seq(Command)
           /\ \A w \in Versions : SetsNew(p, w) => SetsNew(q, w)
           /\ \A w \in Versions : DeletesOld(p, w) => DeletesOld(q, w)
           /\ SetsAfterDeletes(p) => SetsAfterDeletes(q)
<1> DEFINE q == [p EXCEPT ![k].timed = FALSE]
<1>1. /\ q \in Seq(Command)
      /\ DOMAIN q = DOMAIN p
      /\ \A j \in DOMAIN p : q[j].op = p[j].op /\ q[j].entry = p[j].entry
  BY LateFacts
<1> HIDE DEF q
<1>2. \A w \in Versions : /\ SetsNew(p, w) => SetsNew(q, w)
                          /\ DeletesOld(p, w) => DeletesOld(q, w)
  BY <1>1 DEF SetsNew, DeletesOld, IsDelete
<1>3. SetsAfterDeletes(p) => SetsAfterDeletes(q)
  BY <1>1 DEF SetsAfterDeletes, IsDelete
<1>4. QED
  BY <1>1, <1>2, <1>3 DEF q

(* No entry at all is new enough.                                          *)
LEMMA NewForNothing == \A v : NewFor(None, v)
BY DEF NewFor

(* A delete() that is done for version v moves the floor.                  *)
LEMMA FloorFacts ==
    ASSUME TypeOK, EntriesInv, NEW v \in Versions, AtLeast(v), v <= asked'
    PROVE  /\ floor' \in Versions
           /\ floor <= asked' => floor' <= asked'
           /\ \A e : NewFor(e, v) /\ NewFor(e, floor) => NewFor(e, floor')
           /\ \A p : SetsNew(p, v) /\ SetsNew(p, floor) => SetsNew(p, floor')
<1>1. floor' \in {v, floor} /\ floor \in Versions
  BY DEF AtLeast, TypeOK
<1>2. QED
  BY <1>1

(* An entry at a client that is excused for a delete() of version v.       *)
LEMMA ExcusedEntry ==
    ASSUME TypeOK, NEW e \in Entry \cup {None}, NEW v \in Versions, NewFor(e, floor)
    PROVE  /\ Excuse(e, v) \in Entry \cup {None}
           /\ NewFor(Excuse(e, v), v)
           /\ NewFor(Excuse(e, v), floor)
BY ExcuseFacts DEF TypeOK

(* What the pipe promises, with what is new at its end.                    *)
PipeNew(p, f, a) == SetsNew(p, f) /\ DeletesOld(p, a) /\ SetsAfterDeletes(p)

(* The pipe with one more command, a set() that is new enough for the      *)
(* deletes asked for, or a delete for version a.                           *)
LEMMA PipeAppend ==
    ASSUME NEW p \in Seq(Command), NEW f \in Versions, NEW a \in Versions, PipeNew(p, f, a), f <= a,
           NEW m \in Command, IsDelete(m) => m.entry.version <= a,
           m.op = "set" => \A w \in Versions : w <= a => NewFor(m.entry, w)
    PROVE  PipeNew(Append(p, m), f, a)
<1>1. \A k \in DOMAIN p : p[k].entry.version \in Versions
  <2>1. \A k \in DOMAIN p : p[k] \in Command
    OBVIOUS
  <2>2. QED
    BY <2>1 DEF Command, Entry
<1>2. m.op = "set" => \A k \in DOMAIN p : IsDelete(p[k]) => NewFor(m.entry, p[k].entry.version)
  BY <1>1 DEF PipeNew, DeletesOld
<1>3. m.op = "set" => NewFor(m.entry, f)
  OBVIOUS
<1>4. QED
  BY <1>2, <1>3, AppendKeeps DEF PipeNew

(* Every step keeps the entries new enough for the deletes that are done.  *)
LEMMA EntriesStep ==
    ASSUME TypeOK, EntriesInv, [Next]_vars
    PROVE  /\ EntriesInv'
           /\ stored' \in Entry \cup {None} /\ memory' \in Entry \cup {None}
           /\ data' \in Versions /\ asked' \in Versions /\ floor' \in Versions
<1> DEFINE Types == /\ stored' \in Entry \cup {None} /\ memory' \in Entry \cup {None}
                    /\ data' \in Versions /\ asked' \in Versions /\ floor' \in Versions
           Goal == EntriesInv' /\ Types
<1>0. /\ pipe \in Seq(Command)
      /\ stored \in Entry \cup {None} /\ memory \in Entry \cup {None}
      /\ data \in Versions /\ asked \in Versions /\ floor \in Versions
      /\ data \in Nat /\ asked \in Nat /\ floor \in Nat
      /\ floor <= asked /\ asked <= data
      /\ NewFor(stored, floor) /\ NewFor(memory, floor)
      /\ PipeNew(pipe, floor, asked)
  BY VersionsFacts DEF TypeOK, EntriesInv, PipeNew
<1>1. ASSUME UNCHANGED <<data, asked, floor>>,
             stored' = stored \/ stored' = None,
             memory' = memory \/ memory' = None,
             PipeNew(pipe', floor, asked)
      PROVE  Goal
  BY <1>0, <1>1, NewForNothing DEF EntriesInv, PipeNew
<1>2. ASSUME NEW c \in Calls, Enter(c)
      PROVE  Goal
  <2>1. Get(c) /\ UNCHANGED <<stored, memory, data, asked, floor>>
    BY <1>2 DEF Enter
  <2>2. CASE pipe' = pipe
    BY <1>0, <1>1, <2>1, <2>2
  <2>3. CASE pipe' # pipe
    <3> DEFINE m == [op |-> "get", call |-> c, entry |-> Plain(0), timed |-> TRUE]
    <3>1. pipe' = Append(pipe, m)
      BY <2>1, <2>3 DEF Get, Send
    <3>2. m \in Command /\ m.op = "get"
      BY CommandFacts, PlainFacts, VersionsFacts
    <3> HIDE DEF m
    <3>3. PipeNew(pipe', floor, asked)
      BY <1>0, <3>1, <3>2, PipeAppend DEF IsDelete
    <3>4. QED
      BY <1>1, <2>1, <3>3
  <2>4. QED
    BY <2>2, <2>3
<1>3. ASSUME NEW c \in Calls, NEW ok \in BOOLEAN, ActionDone(c, ok)
      PROVE  Goal
  <2>1. UNCHANGED <<stored, data, asked, floor>>
    BY <1>3 DEF ActionDone
  <2>2. CASE pipe' = pipe /\ memory' = memory
    BY <1>0, <1>1, <2>1, <2>2
  <2>3. CASE ~(pipe' = pipe /\ memory' = memory)
    <3>1. PICK v \in call[c].began .. data : Set(v)
      BY <1>3, <2>3 DEF ActionDone
    <3>2. v \in Versions
      <4>1. call[c].began \in Nat
        BY VersionsFacts DEF TypeOK, Call
      <4>2. QED
        BY <1>0, <4>1, BoundAssumption DEF Versions
    <3>3. /\ Result(v) \in Entry
          /\ \A w \in Versions : w <= asked => NewFor(Result(v), w)
      BY <3>2, ResultFacts
    <3>4. CASE failOver
      <4>1. pipe' = pipe /\ memory' = Result(v)
        BY <2>3, <3>1, <3>4 DEF Set, VoidSet
      <4>2. QED
        BY <1>0, <2>1, <3>3, <4>1 DEF EntriesInv, PipeNew
    <3>5. CASE ~failOver
      <4> DEFINE m == [op |-> "set", call |-> NoCall, entry |-> Result(v), timed |-> TRUE]
      <4>1. pipe' = Append(pipe, m) /\ memory' = memory
        BY <3>1, <3>5 DEF Set, Send
      <4>2. m \in Command /\ m.op = "set" /\ m.entry = Result(v)
        BY <3>3, CommandFacts
      <4> HIDE DEF m
      <4>3. PipeNew(pipe', floor, asked)
        BY <1>0, <3>3, <4>1, <4>2, PipeAppend DEF IsDelete
      <4>4. QED
        BY <1>1, <2>1, <4>1, <4>3
    <3>6. QED
      BY <3>4, <3>5
  <2>4. QED
    BY <2>2, <2>3
<1>4. CASE Change
  <2>1. data' = data + 1 /\ data < MaxVersion /\ UNCHANGED <<stored, memory, pipe, asked, floor>>
    BY <1>4 DEF Change
  <2>2. data' \in Versions /\ asked <= data'
    BY <1>0, <2>1, BoundAssumption DEF Versions
  <2>3. QED
    BY <1>0, <2>1, <2>2 DEF EntriesInv, PipeNew
<1>5. CASE Evict \/ SlowEnds \/ Report \/ Reconnect \/ UNCHANGED vars
  <2>1. /\ UNCHANGED <<pipe, data, asked, floor>>
        /\ stored' = stored \/ stored' = None
        /\ memory' = memory \/ memory' = None
    BY <1>5 DEF Evict, SlowEnds, Report, Reconnect, vars
  <2>2. QED
    BY <1>0, <1>1, <2>1
<1>6. ASSUME NEW pattern \in BOOLEAN, NEW told \in BOOLEAN, Delete(pattern, told)
      PROVE  Goal
  <2> DEFINE v == IF told THEN data ELSE 0
  <2>1. /\ asked' \in {asked, data} /\ data' = data
        /\ v \in Versions /\ v <= asked' /\ floor <= asked' /\ asked <= asked' /\ asked' <= data
    BY <1>0, <1>6, VersionsFacts DEF Delete
  <2>2. DeletesOld(pipe, asked')
    <3>1. \A k \in DOMAIN pipe : pipe[k].entry.version \in Nat
      <4>1. \A k \in DOMAIN pipe : pipe[k] \in Command
        BY <1>0
      <4>2. QED
        BY <4>1, VersionsFacts DEF Command, Entry
    <3>2. QED
      BY <1>0, <2>1, <3>1 DEF PipeNew, DeletesOld
  <2>3. CASE failOver
    <3>1. /\ VoidDelete(pattern, v)
          /\ stored' = Excuse(stored, v)
          /\ pipe' = ExcusePipe(pipe, v)
          /\ AtLeast(v)
      BY <1>6, <2>3 DEF Delete
    <3> HIDE DEF v
    <3>2. memory' = Excuse(memory, v) \/ memory' = None
      BY <3>1 DEF VoidDelete
    <3>3. /\ stored' \in Entry \cup {None} /\ NewFor(stored', v) /\ NewFor(stored', floor)
          /\ memory' \in Entry \cup {None} /\ NewFor(memory', v) /\ NewFor(memory', floor)
      BY <1>0, <2>1, <3>1, <3>2, ExcusedEntry, NewForNothing
    <3>4. /\ SetsNew(pipe', v) /\ SetsNew(pipe', floor)
          /\ DeletesOld(pipe', asked') /\ SetsAfterDeletes(pipe')
      BY <1>0, <2>1, <2>2, <3>1, ExcusePipeNew DEF PipeNew
    <3>5. QED
      BY <1>0, <2>1, <3>1, <3>3, <3>4, FloorFacts DEF EntriesInv
  <2>4. CASE ~failOver
    <3>1. PICK op \in {"keys", "del"} : Send(op, NoCall, Plain(v))
      BY <1>6, <2>4 DEF Delete
    <3>2. UNCHANGED <<memory, stored, floor>>
      BY <1>6, <2>4 DEF Delete
    <3> DEFINE m == [op |-> op, call |-> NoCall, entry |-> Plain(v), timed |-> TRUE]
    <3>3. pipe' = Append(pipe, m)
      BY <3>1 DEF Send
    <3>4. m \in Command /\ m.op # "set" /\ m.entry.version = v
      BY <2>1, CommandFacts, PlainFacts
    <3> HIDE DEF m, v
    <3>5. PipeNew(pipe, floor, asked')
      BY <1>0, <2>2 DEF PipeNew
    <3>6. PipeNew(pipe', floor, asked')
      BY <1>0, <2>1, <3>3, <3>4, <3>5, PipeAppend
    <3>7. QED
      BY <1>0, <2>1, <3>2, <3>6 DEF EntriesInv, PipeNew
  <2>5. QED
    BY <2>3, <2>4
<1>7. CASE Answer
  <2> DEFINE m == Head(pipe)
  <2>1. pipe # <<>> /\ data' = data /\ asked' = asked
    BY <1>7 DEF Answer
  <2>2. /\ m \in Command /\ m = pipe[1] /\ 1 \in DOMAIN pipe
        /\ Tail(pipe) \in Seq(Command)
        /\ PipeNew(Tail(pipe), floor, asked)
        /\ IsDelete(m) => SetsNew(Tail(pipe), m.entry.version)
    BY <1>0, <2>1, TailKeeps DEF PipeNew
  <2>3. m.entry \in Entry /\ m.entry.version \in Versions
    BY <2>2 DEF Command, Entry
  <2>4. ASSUME Deleted(m), stored' = None, pipe' = Tail(pipe)
        PROVE  Goal
    <3>1. CASE m.timed /\ m.op \in {"keys", "del"}
      <4>1. AtLeast(m.entry.version) /\ memory' = Excuse(memory, m.entry.version)
        BY <2>4, <3>1 DEF Deleted
      <4>2. m.entry.version <= asked'
        BY <1>0, <2>1, <2>2, <3>1 DEF PipeNew, DeletesOld, IsDelete
      <4>3. SetsNew(Tail(pipe), m.entry.version)
        BY <2>2, <3>1 DEF IsDelete
      <4>4. /\ memory' \in Entry \cup {None}
            /\ NewFor(memory', m.entry.version) /\ NewFor(memory', floor)
        BY <1>0, <2>3, <4>1, ExcusedEntry
      <4>5. /\ floor' \in Versions /\ floor' <= asked'
            /\ NewFor(memory', floor')
            /\ SetsNew(Tail(pipe), floor')
        BY <1>0, <2>1, <2>2, <2>3, <4>1, <4>2, <4>3, <4>4, FloorFacts DEF PipeNew
      <4>6. QED
        BY <1>0, <2>1, <2>2, <2>4, <4>4, <4>5, NewForNothing DEF EntriesInv, PipeNew
    <3>2. CASE ~(m.timed /\ m.op \in {"keys", "del"})
      <4>1. UNCHANGED <<floor, memory>>
        BY <2>4, <3>2 DEF Deleted
      <4>2. QED
        BY <1>1, <2>1, <2>2, <2>4, <4>1
    <3>3. QED
      BY <3>1, <3>2
  <2>5. CASE m.op = "get"
    <3>1. UNCHANGED <<stored, floor, memory>> /\ pipe' = Tail(pipe)
      BY <1>7, <2>5 DEF Answer, Deleted
    <3>2. QED
      BY <1>1, <2>1, <2>2, <3>1
  <2>6. CASE m.op = "set"
    <3>1. UNCHANGED <<floor, memory>> /\ pipe' = Tail(pipe) /\ stored' = m.entry
      BY <1>7, <2>6 DEF Answer, Deleted
    <3>2. NewFor(m.entry, floor)
      BY <1>0, <2>2, <2>6 DEF PipeNew, SetsNew
    <3>3. QED
      BY <1>0, <2>1, <2>2, <2>3, <3>1, <3>2 DEF EntriesInv, PipeNew
  <2>7. CASE m.op = "del"
    <3>1. Deleted(m) /\ stored' = None /\ pipe' = Tail(pipe)
      BY <1>7, <2>7 DEF Answer
    <3>2. QED
      BY <2>4, <3>1
  <2>8. CASE m.op = "keys" /\ stored = None
    <3>1. Deleted(m) /\ stored' = None /\ pipe' = Tail(pipe)
      BY <1>7, <2>8 DEF Answer, Listed
    <3>2. QED
      BY <2>4, <3>1
  <2>9. CASE m.op = "keys" /\ stored # None
    <3> DEFINE del == [m EXCEPT !.op = "del"]
    <3>1. UNCHANGED <<stored, floor, memory>> /\ pipe' = Append(Tail(pipe), del)
      BY <1>7, <2>9 DEF Answer, Listed
    <3>2. del \in Command /\ del.op = "del" /\ del.entry = m.entry
      BY <2>2 DEF Command
    <3>3. m.entry.version <= asked
      BY <1>0, <2>2, <2>9 DEF PipeNew, DeletesOld, IsDelete
    <3> HIDE DEF del
    <3>4. PipeNew(pipe', floor, asked)
      BY <1>0, <2>2, <3>1, <3>2, <3>3, PipeAppend
    <3>5. QED
      BY <1>1, <2>1, <3>1, <3>4
  <2>10. QED
    BY <2>2, <2>5, <2>6, <2>7, <2>8, <2>9 DEF Command
<1>8. CASE AnswerError
  <2>1. pipe # <<>> /\ pipe' = Tail(pipe) /\ UNCHANGED <<stored, memory, data, asked, floor>>
    BY <1>8 DEF AnswerError
  <2>2. PipeNew(Tail(pipe), floor, asked)
    BY <1>0, <2>1, TailKeeps DEF PipeNew
  <2>3. QED
    BY <1>1, <2>1, <2>2
<1>9. ASSUME NEW k \in DOMAIN pipe, Expire(k)
      PROVE  Goal
  <2> DEFINE m == pipe[k]
             late == [pipe EXCEPT ![k].timed = FALSE]
             v == m.entry.version
  <2>1. m \in Command
    BY <1>0
  <2>2. v \in Versions
    BY <2>1 DEF Command, Entry
  <2>3. late \in Seq(Command) /\ PipeNew(late, floor, asked)
    BY <1>0, LateNew DEF PipeNew
  <2>4. /\ pipe' = IF m.op \in {"keys", "del"} THEN ExcusePipe(late, v) ELSE late
        /\ GiveUp(m)
        /\ UNCHANGED <<data, asked>>
    BY <1>9 DEF Expire
  <2> HIDE DEF late
  <2>5. CASE m.op \notin {"keys", "del"}
    <3>1. UNCHANGED <<stored, memory, floor>>
      BY <2>1, <2>4, <2>5 DEF GiveUp, Command
    <3>2. QED
      BY <1>1, <2>3, <2>4, <2>5, <3>1
  <2>6. CASE m.op \in {"keys", "del"}
    <3>1. AtLeast(v) /\ stored' = Excuse(stored, v) /\ memory' = Excuse(memory, v)
      BY <2>4, <2>6 DEF GiveUp
    <3>2. pipe' = ExcusePipe(late, v)
      BY <2>4, <2>6
    <3>3. v <= asked'
      BY <1>0, <2>4, <2>6 DEF PipeNew, DeletesOld, IsDelete
    <3>4. /\ stored' \in Entry \cup {None} /\ NewFor(stored', v) /\ NewFor(stored', floor)
          /\ memory' \in Entry \cup {None} /\ NewFor(memory', v) /\ NewFor(memory', floor)
      BY <1>0, <2>2, <3>1, ExcusedEntry
    <3>5. SetsNew(pipe', v) /\ PipeNew(pipe', floor, asked)
      BY <1>0, <2>2, <2>3, <3>2, ExcusePipeNew DEF PipeNew
    <3>6. /\ floor' \in Versions /\ floor' <= asked'
          /\ NewFor(stored', floor') /\ NewFor(memory', floor')
          /\ SetsNew(pipe', floor')
      BY <1>0, <2>2, <2>4, <3>1, <3>3, <3>4, <3>5, FloorFacts DEF PipeNew
    <3>7. QED
      BY <1>0, <2>4, <3>4, <3>5, <3>6 DEF EntriesInv, PipeNew
  <2>7. QED
    BY <2>5, <2>6
<1>10. CASE Break
  <2>1. /\ pipe' = <<>> /\ UNCHANGED <<memory, data, asked, floor>>
        /\ stored' = stored \/ \E k \in DOMAIN pipe : stored' = Executed(pipe[k], stored)
    BY <1>10 DEF Break
  <2>2. PipeNew(<<>>, floor, asked)
    BY DEF PipeNew, SetsNew, DeletesOld, SetsAfterDeletes
  <2>3. CASE stored' = stored
    BY <1>1, <2>1, <2>2, <2>3
  <2>4. ASSUME NEW k \in DOMAIN pipe, stored' = Executed(pipe[k], stored)
        PROVE  Goal
    <3>1. pipe[k] \in Command
      BY <1>0
    <3>2. CASE pipe[k].op = "set"
      <4>1. stored' = pipe[k].entry /\ pipe[k].entry \in Entry
        BY <2>4, <3>1, <3>2 DEF Executed, Command
      <4>2. NewFor(stored', floor)
        BY <1>0, <3>2, <4>1 DEF PipeNew, SetsNew
      <4>3. QED
        BY <1>0, <2>1, <2>2, <4>1, <4>2 DEF EntriesInv, PipeNew
    <3>3. CASE pipe[k].op # "set"
      <4>1. stored' = stored \/ stored' = None
        BY <2>4, <3>1, <3>3 DEF Executed, Command
      <4>2. QED
        BY <1>1, <2>1, <2>2, <4>1
    <3>4. QED
      BY <3>2, <3>3
  <2>5. QED
    BY <2>1, <2>3, <2>4
<1>11. QED
  BY <1>2, <1>3, <1>4, <1>5, <1>6, <1>7, <1>8, <1>9, <1>10 DEF Next

(* The counting of SlowRequests stays of its type and below its limit.     *)
LEMMA SlowStep ==
    ASSUME SlowTypeOK, SlowInv,
           \/ \E inTime \in BOOLEAN : CountAnswer(inTime)
           \/ CountSlow
           \/ SlowOver
           \/ UNCHANGED slowVars
    PROVE  SlowTypeOK' /\ SlowInv'
<1> USE SlowCountAssumption DEF SlowTypeOK, SlowInv
<1>1. ASSUME NEW inTime \in BOOLEAN, CountAnswer(inTime)
      PROVE  SlowTypeOK' /\ SlowInv'
  <2>1. slow' = slow /\ retry' \in {0, retry}
    BY <1>1 DEF CountAnswer
  <2>2. QED
    BY <2>1
<1>2. CASE CountSlow
  <2>1. CASE slow
    BY <1>2, <2>1 DEF CountSlow
  <2>2. CASE ~slow
    <3>1. retry' = retry + 1 /\ retry < SlowCount
      BY <1>2, <2>2 DEF CountSlow
    <3>2. slow' \in BOOLEAN /\ (~slow' => ~Begins)
      BY <1>2, Zenon DEF CountSlow
    <3>3. ~Begins => retry + 1 < SlowCount
      BY <2>2 DEF Begins
    <3>4. QED
      BY <3>1, <3>2, <3>3
  <2>3. QED
    BY <2>1, <2>2, Zenon
<1>3. CASE SlowOver
  <2>1. slow' \in BOOLEAN /\ retry' = 0
    BY <1>3, Zenon DEF SlowOver
  <2>2. QED
    BY <2>1
<1>4. CASE UNCHANGED slowVars
  BY <1>4 DEF slowVars
<1>5. QED
  BY <1>1, <1>2, <1>3, <1>4

(* Every step keeps the switches of their type and the count below its     *)
(* limit.                                                                  *)
LEMMA SwitchStep ==
    ASSUME TypeOK, SlowInv, [Next]_vars
    PROVE  /\ SlowInv' /\ SlowTypeOK'
           /\ useMemory' \in Memory /\ failOver' \in BOOLEAN /\ down' \in BOOLEAN /\ reported' \in BOOLEAN
<1> DEFINE Types == /\ useMemory' \in Memory /\ failOver' \in BOOLEAN
                    /\ down' \in BOOLEAN /\ reported' \in BOOLEAN
           Counted == \/ \E inTime \in BOOLEAN : CountAnswer(inTime)
                      \/ CountSlow
                      \/ SlowOver
                      \/ UNCHANGED slowVars
<1>1. ASSUME UNCHANGED switchVars
      PROVE  Types
  BY <1>1 DEF switchVars, TypeOK
<1>2. ASSUME NEW c \in Calls, Enter(c)
      PROVE  Counted /\ Types
  <2>1. UNCHANGED switchVars /\ CountAnswer(failOver)
    BY <1>2 DEF Enter, Get
  <2>2. QED
    BY <1>1, <2>1 DEF TypeOK
<1>3. ASSUME NEW c \in Calls, NEW ok \in BOOLEAN, ActionDone(c, ok)
      PROVE  Counted /\ Types
  <2>1. UNCHANGED switchVars
    BY <1>3 DEF ActionDone
  <2>2. CountAnswer(failOver) \/ UNCHANGED slowVars
    <3>1. CASE ok
      BY <1>3, <3>1 DEF ActionDone, Set
    <3>2. CASE ~ok
      BY <1>3, <3>2 DEF ActionDone, slowVars
    <3>3. QED
      BY <3>1, <3>2
  <2>3. QED
    BY <1>1, <2>1, <2>2 DEF TypeOK
<1>4. ASSUME NEW pattern \in BOOLEAN, NEW told \in BOOLEAN, Delete(pattern, told)
      PROVE  Counted /\ Types
  <2>1. UNCHANGED switchVars /\ CountAnswer(failOver)
    BY <1>4 DEF Delete
  <2>2. QED
    BY <1>1, <2>1 DEF TypeOK
<1>5. ASSUME Change \/ Evict \/ UNCHANGED vars
      PROVE  Counted /\ Types
  <2>1. UNCHANGED slowVars
    BY <1>5 DEF Change, Evict, vars, slowVars
  <2>2. UNCHANGED switchVars
    BY <1>5 DEF Change, Evict, vars, switchVars
  <2>3. QED
    BY <1>1, <2>1, <2>2
<1>6. ASSUME NEW inTime, CountAnswer(inTime)
      PROVE  Counted
  <2>1. CASE inTime = TRUE
    BY <1>6, <2>1
  <2>2. CASE inTime # TRUE
    BY <1>6, <2>2 DEF CountAnswer
  <2>3. QED
    BY <2>1, <2>2
<1>7. ASSUME Answer
      PROVE  Counted /\ Types
  <2>1. UNCHANGED switchVars /\ \E inTime : CountAnswer(inTime)
    BY <1>7 DEF Answer
  <2>2. QED
    BY <1>1, <1>6, <2>1
<1>8. ASSUME AnswerError
      PROVE  Counted /\ Types
  <2>1. UNCHANGED switchVars /\ \E inTime : CountAnswer(inTime)
    BY <1>8 DEF AnswerError, Refused
  <2>2. QED
    BY <1>1, <1>6, <2>1
<1>9. ASSUME NEW k \in DOMAIN pipe, Expire(k)
      PROVE  Counted /\ Types
  <2>1. CountSlow /\ failOver' \in BOOLEAN
    BY <1>9, Zenon DEF Expire, OnError, TypeOK
  <2>2. UNCHANGED <<useMemory, down, reported>>
    BY <1>9 DEF Expire
  <2>3. QED
    BY <2>1, <2>2 DEF TypeOK
<1>10. ASSUME SlowEnds
       PROVE  Counted /\ Types
  <2>1. SlowOver /\ failOver' \in BOOLEAN
    BY <1>10, Zenon DEF SlowEnds, OnConnect
  <2>2. UNCHANGED <<useMemory, down, reported>>
    BY <1>10 DEF SlowEnds
  <2>3. QED
    BY <2>1, <2>2 DEF TypeOK
<1>11. ASSUME Break
       PROVE  Counted /\ Types
  <2>1. down' \in BOOLEAN /\ \E inTime : CountAnswer(inTime)
    BY <1>11, Zenon DEF Break, Refused
  <2>2. UNCHANGED <<useMemory, failOver, reported>>
    BY <1>11 DEF Break
  <2>3. QED
    BY <1>6, <2>1, <2>2 DEF TypeOK
<1>12. ASSUME Report
       PROVE  Counted /\ Types
  <2>1. reported' \in BOOLEAN /\ failOver' \in BOOLEAN
    BY <1>12, Zenon DEF Report, OnError
  <2>2. UNCHANGED slowVars /\ UNCHANGED <<useMemory, down>>
    BY <1>12 DEF Report, slowVars
  <2>3. QED
    BY <2>1, <2>2 DEF TypeOK
<1>13. ASSUME Reconnect
       PROVE  Counted /\ Types
  <2>1. down' \in BOOLEAN /\ reported' \in BOOLEAN
    BY <1>13, Zenon DEF Reconnect
  <2>2. failOver' \in BOOLEAN
    <3>1. CASE reported
      BY <1>13, <3>1, Zenon DEF Reconnect, OnConnect
    <3>2. CASE ~reported
      BY <1>13, <3>2 DEF Reconnect, TypeOK
    <3>3. QED
      BY <3>1, <3>2
  <2>3. UNCHANGED slowVars /\ useMemory' = useMemory
    BY <1>13 DEF Reconnect, slowVars
  <2>4. QED
    BY <2>1, <2>2, <2>3 DEF TypeOK
<1>14. Counted /\ Types
  BY <1>2, <1>3, <1>4, <1>5, <1>7, <1>8, <1>9, <1>10, <1>11, <1>12, <1>13 DEF Next
<1>15. SlowTypeOK' /\ SlowInv'
  BY <1>14, SlowStep DEF TypeOK
<1>16. QED
  BY <1>14, <1>15

-----------------------------------------------------------------------------

(* Nothing is cached, under way or deleted at first.                       *)
LEMMA InitInv == Init => Inv
<1> SUFFICES ASSUME Init
             PROVE  Inv
  OBVIOUS
<1>1. 0 \in Versions /\ Free \in Call /\ ~Free.again
  <2>1. 0 \in Versions
    BY VersionsFacts
  <2>2. QED
    BY <2>1 DEF Free, Call
<1>2. slow \in BOOLEAN /\ retry = 0
  BY Zenon DEF Init, SlowInit
<1>3. SlowTypeOK /\ SlowInv
  BY <1>2, SlowCountAssumption DEF SlowTypeOK, SlowInv
<1>4. call \in [Calls -> Call] /\ DoneOnce
  BY <1>1 DEF Init, DoneOnce
<1>5. pipe = <<>> /\ pipe \in Seq(Command)
  BY DEF Init
<1>6. TypeOK
  BY <1>1, <1>3, <1>4, <1>5, Zenon DEF Init, TypeOK
<1>7. CallsInv
  BY <1>4, <1>5 DEF CallsInv, GetsWait, Alone
<1>8. SetsNew(pipe, floor) /\ DeletesOld(pipe, asked) /\ SetsAfterDeletes(pipe)
  BY <1>5 DEF SetsNew, DeletesOld, SetsAfterDeletes
<1>9. EntriesInv
  BY <1>8, NewForNothing DEF Init, EntriesInv
<1>10. QED
  BY <1>3, <1>6, <1>7, <1>9 DEF Inv

(* The conjunction is inductive.                                           *)
LEMMA InvStep == Inv /\ [Next]_vars => Inv'
<1> SUFFICES ASSUME Inv, [Next]_vars
             PROVE  Inv'
  OBVIOUS
<1>1. CallsInv' /\ call' \in [Calls -> Call] /\ pipe' \in Seq(Command)
  BY CallsStep DEF Inv
<1>2. /\ EntriesInv'
      /\ stored' \in Entry \cup {None} /\ memory' \in Entry \cup {None}
      /\ data' \in Versions /\ asked' \in Versions /\ floor' \in Versions
  BY EntriesStep DEF Inv
<1>3. /\ SlowInv' /\ SlowTypeOK'
      /\ useMemory' \in Memory /\ failOver' \in BOOLEAN /\ down' \in BOOLEAN /\ reported' \in BOOLEAN
  BY SwitchStep DEF Inv
<1>4. TypeOK'
  BY <1>1, <1>2, <1>3 DEF TypeOK
<1>5. QED
  BY <1>1, <1>2, <1>3, <1>4 DEF Inv

(* Every reachable state satisfies the inductive invariant.                *)
LEMMA Invariance == Spec => []Inv
BY InitInv, InvStep, PTL DEF Spec

(* Every reachable state is of its type.                                   *)
THEOREM TypeCorrect == Spec => []TypeOK
BY Invariance, PTL DEF Inv

(* An answer, an error and the timer of a cache request never both come to *)
(* the call of the wrapped function that waits for it.                     *)
THEOREM AnsweredOnce == Spec => []DoneOnce
<1>1. Inv => DoneOnce
  BY DEF Inv, CallsInv
<1>2. QED
  BY <1>1, Invariance, PTL

(* No entry that is not excused is older than what a delete() of the cache *)
(* has reported done.                                                      *)
THEOREM EntriesFresh == Spec => []Fresh
<1>1. Inv => Fresh
  BY DEF Inv, EntriesInv, NewFor, Fresh
<1>2. QED
  BY <1>1, Invariance, PTL
=============================================================================
