--------------------------- MODULE MemcachedProofs ---------------------------
(***************************************************************************)
(* What the memcached client keeps of its keys, and what the session store *)
(* over it keeps of a session and of its requests, for every number of     *)
(* calls, requests, writes under way and slow requests in a row, and for   *)
(* all keys and patterns.                                                  *)
(***************************************************************************)
EXTENDS SessionStore, KeyStorage, FiniteSetTheorems, SequenceTheorems,
        WellFoundedInduction, TLAPS

(* The session store.                                                      *)

(* Only a slow fail-over lets the count reach SlowCount.                   *)
SlowInv == ~slow => retry < SlowCount

(* Who may still call a request's callback: the timer or an answer while   *)
(* it is timed, the second read afterwards, nobody once it was called.     *)
CallsInv ==
    \A r \in Requests :
        /\ req[r].timed => req[r].waiting
        /\ req[r].again => req[r].waiting /\ ~req[r].timed
        /\ req[r].waiting => req[r].calls = 0
        /\ req[r].calls <= IF req[r].threw THEN 2 ELSE 1

(* The default client is going to have the last version, when none of the  *)
(* writes to it was lost or overtaken.                                     *)
LastWrite ==
    IF writes = <<>> THEN primary = latest ELSE writes[Len(writes)].version = latest

CopiesInv ==
    ~lazy => /\ memory = latest
             /\ ~missed => LastWrite

Inv ==
    /\ TypeOK
    /\ SlowInv
    /\ CallsInv
    /\ FailOverHolds
    /\ CopiesInv

-----------------------------------------------------------------------------

(* A sequence without its k-th element.                                    *)
LEMMA RemoveAtFacts ==
    ASSUME NEW S, NEW s \in Seq(S), NEW k \in 1 .. Len(s)
    PROVE  /\ RemoveAt(s, k) \in Seq(S)
           /\ Len(RemoveAt(s, k)) = Len(s) - 1
           /\ \A i \in 1 .. Len(s) - 1 :
                 RemoveAt(s, k)[i] = IF i < k THEN s[i] ELSE s[i + 1]
<1> DEFINE a == SubSeq(s, 1, k - 1)
           b == SubSeq(s, k + 1, Len(s))
<1>1. a \in Seq(S) /\ Len(a) = k - 1 /\ \A i \in 1 .. k - 1 : a[i] = s[i]
  OBVIOUS
<1>2. b \in Seq(S) /\ Len(b) = Len(s) - k /\ \A i \in 1 .. Len(s) - k : b[i] = s[k + i]
  OBVIOUS
<1>3. RemoveAt(s, k) = a \o b
  BY DEF RemoveAt
<1> HIDE DEF a, b
<1>4. a \o b \in Seq(S) /\ Len(a \o b) = Len(s) - 1
  <2>1. a \o b \in Seq(S) /\ Len(a \o b) = Len(a) + Len(b)
    BY <1>1, <1>2, ConcatProperties
  <2>2. QED
    BY <1>1, <1>2, <2>1
<1>5. ASSUME NEW i \in 1 .. Len(s) - 1
      PROVE  (a \o b)[i] = IF i < k THEN s[i] ELSE s[i + 1]
  BY <1>1, <1>2, ConcatProperties
<1>6. QED
  BY <1>3, <1>4, <1>5

(* What each kind of step makes of a request's record is of its type.      *)
LEMMA RequestTypes ==
    ASSUME NEW q \in Request
    PROVE  /\ [q EXCEPT !.reading = FALSE] \in Request
           /\ [q EXCEPT !.timed = FALSE] \in Request
           /\ [q EXCEPT !.timed = FALSE, !.again = TRUE] \in Request
           /\ q.calls = 0 => \A throws \in BOOLEAN :
                 /\ Answered(q, throws) \in Request
                 /\ Answered([q EXCEPT !.reading = FALSE], throws) \in Request
                 /\ Answered([q EXCEPT !.again = FALSE], throws) \in Request
<1>1. /\ [q EXCEPT !.reading = FALSE] \in Request
      /\ [q EXCEPT !.again = FALSE] \in Request
      /\ [q EXCEPT !.timed = FALSE] \in Request
  BY DEF Request
<1>2. [q EXCEPT !.timed = FALSE, !.again = TRUE] \in Request
  BY DEF Request
<1>3. ASSUME NEW p \in Request, p.calls = 0, NEW throws \in BOOLEAN
      PROVE  Answered(p, throws) \in Request
  <2> DEFINE n == p.calls + (IF throws THEN 2 ELSE 1)
  <2>1. n \in 0 .. 2
    BY <1>3
  <2>2. Answered(p, throws) = [p EXCEPT !.waiting = FALSE, !.timed = FALSE,
                                        !.threw = throws, !.calls = n]
    BY DEF Answered
  <2> HIDE DEF n
  <2>3. QED
    BY <2>1, <2>2 DEF Request
<1>4. /\ [q EXCEPT !.reading = FALSE].calls = q.calls
      /\ [q EXCEPT !.again = FALSE].calls = q.calls
  BY DEF Request
<1>5. QED
  BY <1>1, <1>2, <1>3, <1>4

(* A request that begins, and one that is answered at once.                *)
LEMMA NewRequestTypes ==
    /\ Waiting \in Request
    /\ \A throws \in BOOLEAN : Answered(Waiting, throws) \in Request
    /\ [Waiting EXCEPT !.get = TRUE, !.reading = TRUE] \in Request
<1>1. Free \in Request /\ Free.calls = 0
  BY DEF Free, Request
<1>2. Waiting \in Request /\ Waiting.calls = 0
  BY <1>1 DEF Waiting, Request
<1>3. [Waiting EXCEPT !.get = TRUE, !.reading = TRUE] \in Request
  BY <1>2 DEF Request
<1>4. QED
  BY <1>2, <1>3, RequestTypes

(* The counting of SlowRequests stays of its type and below its limit.     *)
LEMMA SlowStep ==
    ASSUME SlowTypeOK, SlowInv,
           \/ \E inTime \in BOOLEAN : CountAnswer(inTime)
           \/ CountSlow
           \/ SlowOver
           \/ UNCHANGED slowVars
    PROVE  SlowTypeOK' /\ SlowInv'
<1> USE SlowCountAssumption DEF SlowTypeOK, SlowInv
<1>1. ASSUME NEW inTime \in BOOLEAN, CountAnswer(inTime)
      PROVE  SlowTypeOK' /\ SlowInv'
  <2>1. slow' = slow /\ retry' \in {0, retry}
    BY <1>1 DEF CountAnswer
  <2>2. QED
    BY <2>1
<1>2. CASE CountSlow
  <2>1. CASE slow
    BY <1>2, <2>1 DEF CountSlow
  <2>2. CASE ~slow
    <3>1. retry' = retry + 1 /\ retry < SlowCount
      BY <1>2, <2>2 DEF CountSlow
    <3>2. slow' \in BOOLEAN /\ (~slow' => ~Begins)
      BY <1>2, Zenon DEF CountSlow
    <3>3. ~Begins => retry + 1 < SlowCount
      BY <2>2 DEF Begins
    <3>4. QED
      BY <3>1, <3>2, <3>3
  <2>3. QED
    BY <2>1, <2>2, Zenon
<1>3. CASE SlowOver
  <2>1. slow' \in BOOLEAN /\ retry' = 0
    BY <1>3, Zenon DEF SlowOver
  <2>2. QED
    BY <2>1
<1>4. CASE UNCHANGED slowVars
  BY <1>4 DEF slowVars
<1>5. QED
  BY <1>1, <1>2, <1>3, <1>4

(* What a step does to a request's record.                                 *)
ReqStep(r) ==
    LET q == req[r] IN
    \/ req'[r] = q
    \/ req'[r] \in {Waiting, [Waiting EXCEPT !.get = TRUE, !.reading = TRUE]}
    \/ req'[r] = [q EXCEPT !.reading = FALSE]
    \/ q.timed /\ req'[r] \in {[q EXCEPT !.timed = FALSE],
                               [q EXCEPT !.timed = FALSE, !.again = TRUE]}
    \/ \E throws \in BOOLEAN :
          \/ req'[r] = Answered(Waiting, throws)
          \/ q.timed /\ req'[r] = Answered([q EXCEPT !.reading = FALSE], throws)
          \/ q.again /\ req'[r] = Answered([q EXCEPT !.again = FALSE], throws)
          \/ q.timed /\ req'[r] = Answered(q, throws)

(* A step changes a request's record in one of these ways.                 *)
LEMMA ReqSteps ==
    ASSUME TypeOK, [Next]_vars
    PROVE  /\ DOMAIN req' = Requests
           /\ req' = [r \in Requests |-> req'[r]]
           /\ \A r \in Requests : ReqStep(r)
<1> USE DEF TypeOK, ReqStep
<1> DEFINE Goal == /\ DOMAIN req' = Requests
                   /\ req' = [r \in Requests |-> req'[r]]
                   /\ \A r \in Requests : ReqStep(r)
<1>1. ASSUME NEW r \in Requests, NEW throws \in BOOLEAN, Get(r, throws) \/ Set(r, throws)
      PROVE  Goal
  BY <1>1 DEF Get, Set
<1>2. ASSUME NEW r \in Requests, NEW throws \in BOOLEAN,
             ReadAnswered(r, throws) \/ ReadAgainAnswered(r, throws)
      PROVE  Goal
  BY <1>2 DEF ReadAnswered, ReadAgainAnswered, Done
<1>3. ASSUME NEW r \in Requests, NEW throws \in BOOLEAN, Expire(r, throws)
      PROVE  Goal
  BY <1>3 DEF Expire
<1>8. ASSUME NEW r \in Requests, Destroy(r) \/ Unanswered(r)
      PROVE  Goal
  BY <1>8 DEF Destroy, Unanswered
<1>4. ASSUME NEW k \in DOMAIN writes, NEW isStored \in BOOLEAN, WriteAnswered(k, isStored)
      PROVE  Goal
  <2>0. writes[k] \in Write
    OBVIOUS
  <2>1. writes[k].req \in Requests \cup {NoRequest}
    BY <2>0 DEF Write
  <2>2. CASE writes[k].req = NoRequest
    BY <1>4, <2>2 DEF WriteAnswered
  <2>3. CASE writes[k].req # NoRequest
    BY <1>4, <2>1, <2>3 DEF WriteAnswered, Done
  <2>4. QED
    BY <2>2, <2>3
<1>5. ASSUME NEW k \in DOMAIN writes, NEW isStored \in BOOLEAN, WriteUnanswered(k, isStored)
      PROVE  Goal
  BY <1>5 DEF WriteUnanswered
<1>6. CASE SlowEnds \/ Issue \/ ReconnectFails \/ Reconnect \/ UNCHANGED vars
  BY <1>6 DEF SlowEnds, Issue, ReconnectFails, Reconnect, vars
<1>7. QED
  BY <1>1, <1>2, <1>3, <1>4, <1>5, <1>6, <1>8 DEF Next

(* Whatever answers a request leaves nobody else that would.               *)
LEMMA CallsStep ==
    ASSUME TypeOK, CallsInv, [Next]_vars
    PROVE  CallsInv' /\ req' \in [Requests -> Request]
<1> SUFFICES ASSUME NEW r \in Requests
             PROVE  /\ req'[r] \in Request
                    /\ req'[r].timed => req'[r].waiting
                    /\ req'[r].again => req'[r].waiting /\ ~req'[r].timed
                    /\ req'[r].waiting => req'[r].calls = 0
                    /\ req'[r].calls <= IF req'[r].threw THEN 2 ELSE 1
  BY ReqSteps DEF CallsInv
<1>1. ReqStep(r) /\ req[r] \in Request
  BY ReqSteps DEF TypeOK
<1>2. /\ req[r].timed => req[r].calls = 0 /\ ~req[r].again
      /\ req[r].again => req[r].calls = 0 /\ ~req[r].timed
  BY DEF CallsInv
<1>3. req'[r] \in Request
  BY <1>1, <1>2, RequestTypes, NewRequestTypes DEF ReqStep
<1> DEFINE q == req[r]
           Good(p) == /\ p.timed => p.waiting
                      /\ p.again => p.waiting /\ ~p.timed
                      /\ p.waiting => p.calls = 0
                      /\ p.calls <= IF p.threw THEN 2 ELSE 1
<1>4. Good(q)
  BY DEF CallsInv
<1>5. Good(req'[r])
  <2>1. CASE req'[r] = q \/ req'[r] = [q EXCEPT !.reading = FALSE]
    BY <1>1, <1>4, <2>1 DEF Request
  <2>2. CASE req'[r] \in {Waiting, [Waiting EXCEPT !.get = TRUE, !.reading = TRUE]}
    <3>1. /\ Waiting.waiting /\ Waiting.timed /\ ~Waiting.again /\ Waiting.calls = 0
          /\ ~Waiting.threw /\ Waiting \in Request
      BY NewRequestTypes DEF Waiting, Free
    <3>2. Good(Waiting)
      BY <3>1
    <3>3. Good([Waiting EXCEPT !.get = TRUE, !.reading = TRUE])
      BY <3>1 DEF Request
    <3>4. QED
      BY <2>2, <3>2, <3>3
  <2>3. ASSUME NEW throws \in BOOLEAN,
               \/ req'[r] = Answered(Waiting, throws)
               \/ q.timed /\ req'[r] = Answered([q EXCEPT !.reading = FALSE], throws)
               \/ q.again /\ req'[r] = Answered([q EXCEPT !.again = FALSE], throws)
               \/ q.timed /\ req'[r] = Answered(q, throws)
        PROVE  Good(req'[r])
    <3>1. ASSUME NEW p \in Request, p.calls = 0, ~p.again
          PROVE  Good(Answered(p, throws))
      <4>1. /\ ~Answered(p, throws).waiting /\ ~Answered(p, throws).timed
            /\ ~Answered(p, throws).again /\ Answered(p, throws).threw = throws
            /\ Answered(p, throws).calls = IF throws THEN 2 ELSE 1
        BY <3>1 DEF Answered, Request
      <4>2. QED
        BY <4>1
    <3>2. Waiting \in Request /\ Waiting.calls = 0 /\ ~Waiting.again
      BY NewRequestTypes DEF Waiting, Free
    <3>3. /\ [q EXCEPT !.reading = FALSE] \in Request
          /\ [q EXCEPT !.reading = FALSE].calls = q.calls
          /\ [q EXCEPT !.reading = FALSE].again = q.again
      BY <1>1 DEF Request
    <3>4. /\ [q EXCEPT !.again = FALSE] \in Request
          /\ [q EXCEPT !.again = FALSE].calls = q.calls
          /\ ~[q EXCEPT !.again = FALSE].again
      BY <1>1 DEF Request
    <3>5. CASE req'[r] = Answered(Waiting, throws)
      BY <3>1, <3>2, <3>5
    <3>6. CASE q.timed /\ req'[r] \in {Answered([q EXCEPT !.reading = FALSE], throws), Answered(q, throws)}
      BY <1>1, <1>2, <3>1, <3>3, <3>6
    <3>7. CASE q.again /\ req'[r] = Answered([q EXCEPT !.again = FALSE], throws)
      BY <1>2, <3>1, <3>4, <3>7
    <3>8. QED
      BY <2>3, <3>5, <3>6, <3>7
  <2>4. CASE q.timed /\ req'[r] \in {[q EXCEPT !.timed = FALSE],
                                     [q EXCEPT !.timed = FALSE, !.again = TRUE]}
    BY <1>1, <1>2, <1>4, <2>4 DEF Request
  <2>5. QED
    BY <1>1, <2>1, <2>2, <2>3, <2>4 DEF ReqStep
<1>6. QED
  BY <1>3, <1>5

-----------------------------------------------------------------------------

(* A write that is answered, or never is, leaves the default client with   *)
(* the last version unless it was not the oldest, or was not stored.       *)
LEMMA RemovedWrite ==
    ASSUME TypeOK, CopiesInv, NEW k \in DOMAIN writes, NEW isStored \in BOOLEAN,
           writes' = RemoveAt(writes, k),
           primary' = IF isStored THEN writes[k].version ELSE primary,
           missed' = (missed \/ ~isStored \/ k # 1),
           UNCHANGED <<lazy, memory, latest>>
    PROVE  CopiesInv' /\ writes' \in Seq(Write) /\ primary' \in Versions /\ missed' \in BOOLEAN
<1>1. writes \in Seq(Write) /\ k \in 1 .. Len(writes) /\ Len(writes) \in Nat
  BY DEF TypeOK
<1>2. /\ writes' \in Seq(Write)
      /\ Len(writes') = Len(writes) - 1
      /\ \A i \in 1 .. Len(writes) - 1 : writes'[i] = IF i < k THEN writes[i] ELSE writes[i + 1]
  BY <1>1, RemoveAtFacts
<1>3. primary' \in Versions
  <2>1. writes[k] \in Write
    BY <1>1
  <2>2. writes[k].version \in Versions /\ primary \in Versions
    BY <2>1 DEF Write, TypeOK
  <2>3. QED
    BY <2>2
<1>4. missed' \in BOOLEAN
  BY Zenon
<1>5. ASSUME ~lazy, ~missed'
      PROVE  LastWrite'
  <2>1. isStored /\ k = 1 /\ ~missed
    BY <1>5
  <2>2. writes[Len(writes)].version = latest
    BY <1>1, <1>5, <2>1 DEF CopiesInv, LastWrite
  <2>3. CASE Len(writes) = 1
    <3>1. writes' = <<>>
      BY <1>2, <2>3
    <3>2. primary' = latest
      BY <2>1, <2>2, <2>3
    <3>3. QED
      BY <3>1, <3>2 DEF LastWrite
  <2>4. CASE Len(writes) # 1
    <3>1. Len(writes') \in 1 .. Len(writes) - 1 /\ Len(writes') + 1 = Len(writes)
      BY <1>1, <1>2, <2>4
    <3>2. writes'[Len(writes')] = writes[Len(writes)]
      BY <1>2, <2>1, <3>1
    <3>3. writes' # <<>>
      BY <1>2, <3>1
    <3>4. QED
      BY <2>2, <3>2, <3>3 DEF LastWrite
  <2>5. QED
    BY <2>3, <2>4
<1>6. CopiesInv'
  BY <1>5 DEF CopiesInv
<1>7. QED
  BY <1>2, <1>3, <1>4, <1>6

(* set() and destroy() write to both clients, unless the store is lazy or  *)
(* a callback that throws cuts them short.                                 *)
LEMMA PutCopies ==
    ASSUME TypeOK, NEW v \in Versions, NEW r \in Requests, NEW cut \in BOOLEAN,
           Put(v, r, cut), lazy' = lazy
    PROVE  /\ CopiesInv'
           /\ writes' \in Seq(Write)
           /\ primary' \in Versions /\ memory' \in Versions /\ latest' \in Versions
           /\ missed' \in BOOLEAN
<1> DEFINE w == [version |-> v, req |-> IF failOver THEN NoRequest ELSE r]
<1>1. w \in Write /\ w.version = v
  BY DEF Write
<1> HIDE DEF w
<1>2. writes' = IF AtPrimary /\ ~cut THEN Append(writes, w) ELSE writes
  BY DEF Put, w
<1>3. writes' \in Seq(Write)
  BY <1>1, <1>2 DEF TypeOK
<1>4. primary' \in Versions /\ memory' \in Versions /\ latest' \in Versions /\ missed' \in BOOLEAN
  BY DEF Put, TypeOK, AtPrimary
<1>5. ASSUME ~lazy
      PROVE  memory' = latest' /\ (~missed' => LastWrite')
  <2>1. InMemory /\ AtPrimary
    BY <1>5 DEF InMemory, AtPrimary
  <2>2. memory' = v /\ latest' = v
    BY <2>1 DEF Put
  <2>3. CASE cut
    BY <2>1, <2>2, <2>3 DEF Put
  <2>4. CASE ~cut
    <3>1. writes' = Append(writes, w) /\ writes \in Seq(Write)
      BY <1>2, <2>1, <2>4 DEF TypeOK
    <3>2. writes' # <<>> /\ writes'[Len(writes')] = w
      BY <1>1, <3>1
    <3>3. QED
      BY <1>1, <2>2, <3>2 DEF LastWrite
  <2>5. QED
    BY <2>3, <2>4
<1>6. CopiesInv'
  BY <1>5 DEF CopiesInv
<1>7. QED
  BY <1>3, <1>4, <1>6

(* Every step keeps the copies' invariant, and the types of the copies.    *)
LEMMA DataStep ==
    ASSUME TypeOK, CopiesInv, [Next]_vars
    PROVE  /\ CopiesInv'
           /\ writes' \in Seq(Write)
           /\ primary' \in Versions /\ memory' \in Versions /\ latest' \in Versions
           /\ version' \in Versions
           /\ missed' \in BOOLEAN
<1> DEFINE Goal == /\ CopiesInv'
                   /\ writes' \in Seq(Write)
                   /\ primary' \in Versions /\ memory' \in Versions /\ latest' \in Versions
                   /\ version' \in Versions
                   /\ missed' \in BOOLEAN
<1>1. ASSUME UNCHANGED <<lazy, dataVars>>
      PROVE  Goal
  BY <1>1 DEF dataVars, TypeOK, CopiesInv, LastWrite
<1>2. ASSUME NEW r \in Requests, NEW throws \in BOOLEAN, Set(r, throws)
      PROVE  Goal
  <2>1. version' \in Versions /\ lazy' = lazy /\ Put(version', r, throws)
    BY <1>2, BoundAssumption DEF Set, switchVars, TypeOK, Versions
  <2>2. QED
    BY <2>1, PutCopies
<1>3. ASSUME NEW r \in Requests, Destroy(r)
      PROVE  Goal
  <2>1. 0 \in Versions /\ lazy' = lazy /\ version' \in Versions
    BY <1>3, BoundAssumption DEF Destroy, switchVars, TypeOK, Versions
  <2>2. QED
    BY <1>3, <2>1, PutCopies DEF Destroy
<1>4. ASSUME NEW k \in DOMAIN writes, NEW isStored \in BOOLEAN,
             WriteAnswered(k, isStored) \/ WriteUnanswered(k, isStored)
      PROVE  Goal
  <2>1. /\ writes' = RemoveAt(writes, k)
        /\ primary' = IF isStored THEN writes[k].version ELSE primary
        /\ missed' = (missed \/ ~isStored \/ k # 1)
        /\ UNCHANGED <<lazy, memory, latest, version>>
    BY <1>4, Zenon DEF WriteAnswered, WriteUnanswered, switchVars
  <2>2. memory' \in Versions /\ latest' \in Versions /\ version' \in Versions
    BY <2>1 DEF TypeOK
  <2>3. QED
    BY <2>1, <2>2, RemovedWrite
<1>5. ASSUME NEW r \in Requests, NEW throws \in BOOLEAN,
             \/ Get(r, throws) \/ ReadAnswered(r, throws) \/ ReadAgainAnswered(r, throws)
             \/ Unanswered(r) \/ Expire(r, throws)
      PROVE  Goal
  BY <1>1, <1>5 DEF Get, ReadAnswered, ReadAgainAnswered, Unanswered, Expire, switchVars
<1>6. CASE SlowEnds \/ Issue \/ ReconnectFails \/ Reconnect \/ UNCHANGED vars
  BY <1>1, <1>6 DEF SlowEnds, Issue, ReconnectFails, Reconnect, vars, dataVars
<1>7. QED
  BY <1>2, <1>3, <1>4, <1>5, <1>6 DEF Next

(* The switches: onError() when slow requests begin a fail-over and when   *)
(* an issue is reported, onConnect() when either is over.                  *)
LEMMA SwitchStep ==
    ASSUME TypeOK, SlowInv, FailOverHolds, [Next]_vars
    PROVE  /\ FailOverHolds' /\ SlowInv' /\ SlowTypeOK'
           /\ lazy' \in Lazy /\ failOver' \in BOOLEAN /\ issue' \in BOOLEAN /\ ended' \in BOOLEAN
           /\ tries' \in 0 .. Tries
<1> DEFINE Types == /\ lazy' \in Lazy /\ failOver' \in BOOLEAN /\ issue' \in BOOLEAN /\ ended' \in BOOLEAN
                    /\ tries' \in 0 .. Tries
           Counted == \/ \E inTime \in BOOLEAN : CountAnswer(inTime)
                      \/ CountSlow
                      \/ SlowOver
                      \/ UNCHANGED slowVars
           Goal == FailOverHolds' /\ Counted /\ Types
<1>1. ASSUME UNCHANGED switchVars
      PROVE  FailOverHolds' /\ Types
  BY <1>1 DEF switchVars, FailOverHolds, TypeOK
<1>2. ASSUME NEW r \in Requests, NEW throws \in BOOLEAN,
             Get(r, throws) \/ Set(r, throws) \/ Destroy(r)
      PROVE  Goal
  BY <1>1, <1>2 DEF Get, Set, Destroy, TypeOK
<1>3. ASSUME NEW r \in Requests, NEW throws \in BOOLEAN, Done(r, throws)
      PROVE  Counted
  <2>1. req[r].timed \in BOOLEAN
    BY DEF TypeOK, Request
  <2>2. QED
    BY <1>3, <2>1 DEF Done
<1>4. ASSUME NEW r \in Requests, NEW throws \in BOOLEAN,
             ReadAnswered(r, throws) \/ ReadAgainAnswered(r, throws) \/ Unanswered(r)
      PROVE  Goal
  BY <1>1, <1>3, <1>4 DEF ReadAnswered, ReadAgainAnswered, Unanswered
<1>5. ASSUME NEW k \in DOMAIN writes, NEW isStored \in BOOLEAN,
             WriteAnswered(k, isStored) \/ WriteUnanswered(k, isStored)
      PROVE  Goal
  <2>1. writes[k] \in Write
    BY DEF TypeOK
  <2>2. writes[k].req \in Requests \cup {NoRequest}
    BY <2>1 DEF Write
  <2>3. UNCHANGED switchVars /\ (UNCHANGED <<slowVars, req>> \/ \E r \in Requests : Done(r, FALSE))
    BY <1>5, <2>2 DEF WriteAnswered, WriteUnanswered
  <2>4. QED
    BY <1>1, <1>3, <2>3
<1>6. ASSUME NEW r \in Requests, NEW throws \in BOOLEAN, Expire(r, throws)
      PROVE  Goal
  <2>1. /\ CountSlow
        /\ failOver' \in BOOLEAN
        /\ failOver => failOver'
    BY <1>6, Zenon DEF Expire, OnError, TypeOK
  <2>2. lazy' = lazy /\ issue' = issue /\ tries' = tries /\ ended' = ended
    BY <1>6 DEF Expire
  <2>3. Counted
    BY <2>1, <2>2
  <2>4. Types
    BY <2>1, <2>2 DEF TypeOK
  <2>5. FailOverHolds'
    BY <2>1, <2>2 DEF FailOverHolds
  <2>6. QED
    BY <2>3, <2>4, <2>5
<1>7. ASSUME SlowEnds
      PROVE  Goal
  <2>1. SlowOver /\ failOver' = FALSE /\ ended' = issue
    BY <1>7, Zenon DEF SlowEnds, OnConnect
  <2>2. lazy' = lazy /\ issue' = issue /\ tries' = tries
    BY <1>7 DEF SlowEnds
  <2>3. Counted
    BY <2>1, <2>2
  <2>4. Types
    BY <2>1, <2>2 DEF TypeOK
  <2>5. FailOverHolds'
    BY <2>1, <2>2 DEF FailOverHolds
  <2>6. QED
    BY <2>3, <2>4, <2>5
<1>8. ASSUME Issue
      PROVE  Goal
  <2>1. failOver' = TRUE /\ issue' = TRUE /\ tries' = Tries
    BY <1>8, Zenon DEF Issue, OnError
  <2>2. UNCHANGED slowVars /\ lazy' = lazy /\ ended' = ended
    BY <1>8 DEF Issue, slowVars
  <2>3. tries' \in 0 .. Tries
    BY <2>1, TriesAssumption
  <2>4. Counted
    BY <2>1, <2>2
  <2>5. Types
    BY <2>1, <2>2, <2>3 DEF TypeOK
  <2>6. FailOverHolds'
    BY <2>1, <2>2 DEF FailOverHolds
  <2>7. QED
    BY <2>4, <2>5, <2>6
<1>9. ASSUME ReconnectFails
      PROVE  Goal
  <2>1. /\ UNCHANGED slowVars
        /\ lazy' = lazy /\ failOver' = failOver /\ issue' = issue /\ ended' = ended
    BY <1>9 DEF ReconnectFails, slowVars
  <2>2. tries' \in 0 .. Tries
    BY <1>9, TriesAssumption DEF ReconnectFails, TypeOK
  <2>3. Counted
    BY <2>1, <2>2
  <2>4. Types
    BY <2>1, <2>2 DEF TypeOK
  <2>5. FailOverHolds'
    BY <2>1, <2>2 DEF FailOverHolds
  <2>6. QED
    BY <2>3, <2>4, <2>5
<1>10. ASSUME Reconnect
      PROVE  Goal
  <2>1. failOver' = FALSE /\ issue' = FALSE /\ ended' = FALSE /\ tries' = 0
    BY <1>10, Zenon DEF Reconnect, OnConnect
  <2>2. UNCHANGED slowVars /\ lazy' = lazy
    BY <1>10 DEF Reconnect, slowVars
  <2>3. tries' \in 0 .. Tries
    BY <2>1, TriesAssumption
  <2>4. Counted
    BY <2>1, <2>2
  <2>5. Types
    BY <2>1, <2>2, <2>3 DEF TypeOK
  <2>6. FailOverHolds'
    BY <2>1, <2>2 DEF FailOverHolds
  <2>7. QED
    BY <2>4, <2>5, <2>6
<1>11. ASSUME UNCHANGED vars
      PROVE  Goal
  <2>1. UNCHANGED slowVars
    BY <1>11 DEF vars, slowVars
  <2>2. UNCHANGED switchVars
    BY <1>11 DEF vars, switchVars
  <2>3. QED
    BY <1>1, <2>1, <2>2
<1>12. Goal
  BY <1>2, <1>4, <1>5, <1>6, <1>7, <1>8, <1>9, <1>10, <1>11 DEF Next
<1>13. SlowTypeOK' /\ SlowInv'
  BY <1>12, SlowStep DEF TypeOK
<1>14. QED
  BY <1>12, <1>13

(* The store starts with no session and no request.                        *)
LEMMA InitInv == Init => Inv
<1> SUFFICES ASSUME Init
             PROVE  Inv
  OBVIOUS
<1>1. Free \in Request /\ ~Free.timed /\ ~Free.again /\ ~Free.waiting /\ Free.calls = 0
  BY DEF Free, Request
<1>2. SlowTypeOK /\ SlowInv
  <2>1. slow \in BOOLEAN /\ retry = 0
    BY Zenon DEF Init, SlowInit
  <2>2. QED
    BY <2>1, SlowCountAssumption DEF SlowTypeOK, SlowInv
<1>3. req \in [Requests -> Request] /\ CallsInv
  BY <1>1 DEF Init, CallsInv
<1>4. 0 \in Versions /\ 0 \in 0 .. Tries /\ <<>> \in Seq(Write)
  BY BoundAssumption, TriesAssumption DEF Versions
<1>5. TypeOK
  BY <1>2, <1>3, <1>4, Zenon DEF Init, TypeOK
<1>6. FailOverHolds /\ CopiesInv
  BY DEF Init, FailOverHolds, CopiesInv, LastWrite
<1>7. QED
  BY <1>2, <1>3, <1>5, <1>6 DEF Inv

(* The conjunction is inductive.                                           *)
LEMMA InvStep == Inv /\ [Next]_vars => Inv'
<1> SUFFICES ASSUME Inv, [Next]_vars
             PROVE  Inv'
  OBVIOUS
<1>1. CallsInv' /\ req' \in [Requests -> Request]
  BY CallsStep DEF Inv
<1>2. /\ CopiesInv'
      /\ writes' \in Seq(Write)
      /\ primary' \in Versions /\ memory' \in Versions /\ latest' \in Versions
      /\ version' \in Versions
      /\ missed' \in BOOLEAN
  BY DataStep DEF Inv
<1>3. /\ FailOverHolds' /\ SlowInv' /\ SlowTypeOK'
      /\ lazy' \in Lazy /\ failOver' \in BOOLEAN /\ issue' \in BOOLEAN /\ ended' \in BOOLEAN
      /\ tries' \in 0 .. Tries
  BY SwitchStep DEF Inv
<1>4. TypeOK'
  BY <1>1, <1>2, <1>3 DEF TypeOK
<1>5. QED
  BY <1>1, <1>2, <1>3, <1>4 DEF Inv

(* Every reachable state satisfies the inductive invariant.                *)
LEMMA Invariance == Spec => []Inv
BY InitInv, InvStep, PTL DEF Spec

(* Every reachable state is of its type.                                   *)
THEOREM TypeCorrect == Spec => []TypeOK
BY Invariance, PTL DEF Inv

(* An answer, the timer and a second read of the session store never both  *)
(* call the callback of one request, which only its own error calls again. *)
THEOREM CalledOnce == Spec => []AnsweredOnce
<1>1. Inv => AnsweredOnce
  BY DEF Inv, CallsInv, AnsweredOnce
<1>2. QED
  BY <1>1, Invariance, PTL

(* An issue of the default client keeps the fail-over client in use, until *)
(* the end of slow requests ends both.                                     *)
THEOREM IssueHolds == Spec => []FailOverHolds
BY Invariance, PTL DEF Inv

(* The clients of a store that is not lazy agree on the session, unless a  *)
(* write to the default client is under way, was lost, overtaken or, as    *)
(* the callback threw, not made.                                           *)
THEOREM ClientsAgree == Spec => []CopiesAgree
<1>1. Inv => CopiesAgree
  BY DEF Inv, CopiesInv, LastWrite, CopiesAgree
<1>2. QED
  BY <1>1, Invariance, PTL

-----------------------------------------------------------------------------
(* The keys of the memcached client.                                       *)

(* What a call is at, and what its key may be, by what it does.            *)
StagesInv ==
    \A c \in Clients : LET k == call[c] IN
        /\ k.op = "none" => k = NoCall
        /\ k.op \in {"set", "get", "delete"} => k.key \in Keys
        /\ k.op = "pattern" => k.key \in Patterns
        /\ k.op = "set" => k.at \in {"value", "read", "write"}
        /\ k.op = "get" => k.at \in {"read", "drop"}
        /\ k.op \in {"delete", "pattern"} => k.at \in {"read", "drop", "write"}

(* An index, or a copy of one, has finitely many keys.                     *)
IndexInv ==
    /\ IsFiniteSet(KeysOf(index))
    /\ \A c \in Clients : IsFiniteSet(KeysOf(call[c].copy))

(* As long as nothing was raced: a value that is set stays for the index;  *)
(* what a call read of the index is still there when it acts on it, and is *)
(* what the index is made for; a get() only drops what is not in it; what  *)
(* a deletion means is gone before it leaves the index.                    *)
CopyInv(c) == LET k == call[c] IN
    /\ k.op = "set" /\ k.at # "value" => k.key \in stored
    /\ k.at \in {"drop", "write"} => k.copy = index /\ Plain(k.op, k.key, KeysOf(index))
    /\ k.op = "get" /\ k.at = "drop" => Find(k.key, KeysOf(index)) = {}
    /\ k.op \in {"delete", "pattern"} /\ k.at = "write" => live \cap Meant(c) = {}

RacesInv == ~excused => \A c \in Clients : CopyInv(c)

(* The inductive invariant of the keys.                                    *)
KeysInv ==
    /\ KeyTypeOK
    /\ StagesInv
    /\ IndexInv
    /\ Kept
    /\ RacesInv

(* A set of numbers has a least one, and so a statement about all numbers  *)
(* that is wrong is wrong at a first one.                                  *)
LEMMA LeastNat ==
    ASSUME NEW S \in SUBSET Nat, S # {}
    PROVE  \E n \in S : \A m \in S : n <= m
<1>1. \A m, n \in Nat : <<m, n>> \in OpToRel(<, Nat) <=> m < n
  BY Zenon DEF OpToRel
<1>2. PICK R : IsWellFoundedOn(R, Nat) /\ \A m, n \in Nat : <<m, n>> \in R <=> m < n
  <2>1. IsWellFoundedOn(OpToRel(<, Nat), Nat)
    BY NatLessThanWellFounded, Zenon
  <2>2. QED
    BY <2>1, <1>1, Zenon
<1>3. PICK n \in S : \A m \in S : ~(<<m, n>> \in R)
  <2>1. IsWellFoundedOn(R, Nat) /\ S \subseteq Nat
    BY <1>2
  <2>2. QED
    BY <2>1, WFMin, Zenon
<1>4. \A m \in S : ~(m < n)
  BY <1>2, <1>3
<1>5. QED
  BY <1>4

(* The first names of a key.                                               *)
LEMMA HeadFacts ==
    ASSUME NEW S, NEW v \in Seq(S), NEW l \in 0 .. Len(v)
    PROVE  /\ SubSeq(v, 1, l) \in Seq(S)
           /\ Len(SubSeq(v, 1, l)) = l
           /\ \A i \in 1 .. l : SubSeq(v, 1, l)[i] = v[i]
OBVIOUS

(* A node is above a key when it has the same first names.                 *)
LEMMA PrefixFacts ==
    ASSUME NEW S, NEW n \in Seq(S), NEW v \in Seq(S)
    PROVE  /\ IsPrefix(n, v) <=> Len(n) <= Len(v) /\ \A i \in 1 .. Len(n) : n[i] = v[i]
           /\ IsPrefix(n, v) => n = SubSeq(v, 1, Len(n))
<1>1. SubSeq(n, 1, Len(n)) = n
  OBVIOUS
<1>2. ASSUME Len(n) <= Len(v)
      PROVE  n = SubSeq(v, 1, Len(n)) <=> \A i \in 1 .. Len(n) : n[i] = v[i]
  <2>1. /\ SubSeq(v, 1, Len(n)) \in Seq(S)
        /\ Len(SubSeq(v, 1, Len(n))) = Len(n)
        /\ \A i \in 1 .. Len(n) : SubSeq(v, 1, Len(n))[i] = v[i]
    BY <1>2, HeadFacts
  <2>2. (\A i \in 1 .. Len(n) : n[i] = SubSeq(v, 1, Len(n))[i]) => n = SubSeq(v, 1, Len(n))
    BY <2>1, SeqEqual
  <2>3. QED
    BY <2>1, <2>2
<1>3. QED
  BY <1>1, <1>2 DEF IsPrefix

(* The nodes of the tree: the root, and the beginnings of the keys in it.  *)
LEMMA NodesAre ==
    ASSUME NEW S, NEW t \in SUBSET Seq(S)
    PROVE  /\ Nodes(t) \subseteq Seq(S)
           /\ <<>> \in Nodes(t)
           /\ \A n \in Seq(S) : n # <<>> => (n \in Nodes(t) <=> \E v \in t : IsPrefix(n, v))
<1>1. <<>> \in Seq(S)
  OBVIOUS
<1>2. \A n : n \in Nodes(t) <=> n = <<>> \/ \E v \in t : n \in Prefixes(v)
  <2>1. \A n : n \in UNION {Prefixes(v) : v \in t} <=> \E v \in t : n \in Prefixes(v)
    BY Zenon
  <2>2. QED
    BY <2>1, Zenon DEF Nodes
<1>3. ASSUME NEW v \in t, NEW n
      PROVE  n \in Prefixes(v) <=> n \in Seq(S) /\ IsPrefix(n, v)
  <2>1. \A l \in 0 .. Len(v) : /\ SubSeq(v, 1, l) \in Seq(S)
                               /\ Len(SubSeq(v, 1, l)) = l
                               /\ \A i \in 1 .. l : SubSeq(v, 1, l)[i] = v[i]
    BY HeadFacts
  <2>2. n \in Prefixes(v) => n \in Seq(S) /\ IsPrefix(n, v)
    <3>1. SUFFICES ASSUME NEW l \in 0 .. Len(v), n = SubSeq(v, 1, l)
                   PROVE  n \in Seq(S) /\ IsPrefix(n, v)
      BY DEF Prefixes
    <3>2. QED
      <4>1. /\ n \in Seq(S) /\ v \in Seq(S)
            /\ Len(n) <= Len(v)
            /\ \A i \in 1 .. Len(n) : n[i] = v[i]
        BY <2>1, <3>1
      <4>2. QED
        BY <4>1, PrefixFacts
  <2>3. n \in Seq(S) /\ IsPrefix(n, v) => n \in Prefixes(v)
    <3>1. SUFFICES ASSUME n \in Seq(S), IsPrefix(n, v) PROVE \E l \in 0 .. Len(v) : n = SubSeq(v, 1, l)
      BY DEF Prefixes
    <3>2. n = SubSeq(v, 1, Len(n)) /\ Len(n) \in 0 .. Len(v)
      BY <3>1, PrefixFacts
    <3>3. QED
      BY <3>2
  <2>4. QED
    BY <2>2, <2>3
<1>4. QED
  BY <1>1, <1>2, <1>3

(* One node is below another when it has one name more.                    *)
LEMMA ChildrenAre ==
    ASSUME NEW S, NEW t \in SUBSET Seq(S), NEW n \in Seq(S), NEW m \in Seq(S)
    PROVE  m \in Children(t, n) <=>
              /\ m \in Nodes(t)
              /\ Len(m) = Len(n) + 1
              /\ \A i \in 1 .. Len(n) : m[i] = n[i]
BY PrefixFacts DEF Children

(* All that is above a node is a node.                                     *)
LEMMA HeadIsNode ==
    ASSUME NEW S, NEW t \in SUBSET Seq(S), NEW n \in Nodes(t), NEW l \in 0 .. Len(n)
    PROVE  SubSeq(n, 1, l) \in Nodes(t)
<1>1. n \in Seq(S)
  BY NodesAre
<1>2. /\ SubSeq(n, 1, l) \in Seq(S)
      /\ Len(SubSeq(n, 1, l)) = l
      /\ \A i \in 1 .. l : SubSeq(n, 1, l)[i] = n[i]
  BY <1>1, HeadFacts
<1>3. CASE SubSeq(n, 1, l) = <<>>
  BY <1>3, NodesAre
<1>4. CASE SubSeq(n, 1, l) # <<>>
  <2>1. n # <<>>
    BY <1>2, <1>4
  <2>2. PICK v \in t : IsPrefix(n, v)
    BY <1>1, <2>1, NodesAre
  <2>3. IsPrefix(SubSeq(n, 1, l), v)
    <3>1. Len(n) <= Len(v) /\ \A i \in 1 .. Len(n) : n[i] = v[i]
      BY <1>1, <2>2, PrefixFacts
    <3>2. Len(SubSeq(n, 1, l)) <= Len(v) /\ \A i \in 1 .. l : SubSeq(n, 1, l)[i] = v[i]
      <4>1. l <= Len(n) /\ l \in Nat /\ Len(n) \in Nat /\ Len(v) \in Nat
        BY <1>1
      <4>2. QED
        BY <1>2, <3>1, <4>1
    <3>3. QED
      BY <1>2, <3>2, PrefixFacts
  <2>4. QED
    BY <1>2, <1>4, <2>3, NodesAre
<1>5. QED
  BY <1>3, <1>4

(* Where findKeyInStorage() arrives when it goes down name by name: at the *)
(* nodes that match the items, as many levels down.  A first level where it*)
(* would not is impossible.                                                *)
LEMMA ReachedAre ==
    ASSUME NEW S, NEW t \in SUBSET Seq(S), NEW p \in Seq(S)
    PROVE  Reached(p, t) = {n \in Nodes(t) : /\ Len(n) = Len(p)
                                             /\ \A i \in 1 .. Len(p) : p[i] \in {Star, n[i]}}
<1> DEFINE L(d) == {n \in Nodes(t) : Len(n) = d /\ \A i \in 1 .. d : p[i] \in {Star, n[i]}}
           Def(f) == [d \in 0 .. Len(p) |->
                        IF d = 0 THEN {<<>>} ELSE Expand(p, t, f[d - 1], d)]
<1>1. L(0) = {<<>>}
  BY NodesAre
<1>2. ASSUME NEW d \in 1 .. Len(p)
      PROVE  Expand(p, t, L(d - 1), d) = L(d)
  <2>1. ASSUME NEW m \in Expand(p, t, L(d - 1), d)
        PROVE  m \in L(d)
    <3>1. PICK n \in L(d - 1) : m \in Children(t, n) /\ p[d] \in {Star, m[d]}
      BY <2>1 DEF Expand
    <3>2. m \in Nodes(t) /\ m \in Seq(S) /\ n \in Seq(S)
      BY <3>1, NodesAre DEF Children
    <3>3. Len(n) = d - 1 /\ Len(m) = d /\ \A i \in 1 .. d - 1 : m[i] = n[i]
      BY <3>1, <3>2, ChildrenAre
    <3>4. \A i \in 1 .. d : p[i] \in {Star, m[i]}
      BY <3>1, <3>3
    <3>5. QED
      BY <3>2, <3>3, <3>4
  <2>2. ASSUME NEW m \in L(d)
        PROVE  m \in Expand(p, t, L(d - 1), d)
    <3>1. m \in Seq(S) /\ m \in Nodes(t) /\ Len(m) = d /\ d - 1 \in 0 .. Len(m)
      BY NodesAre
    <3>2. PICK n : n = SubSeq(m, 1, d - 1)
      OBVIOUS
    <3>3. n \in Seq(S) /\ Len(n) = d - 1 /\ \A i \in 1 .. d - 1 : n[i] = m[i]
      BY <3>1, <3>2, HeadFacts
    <3>4. n \in Nodes(t)
      BY <3>1, <3>2, HeadIsNode
    <3>5. n \in L(d - 1)
      BY <3>3, <3>4
    <3>6. m \in Children(t, n)
      BY <3>1, <3>3, ChildrenAre
    <3>7. p[d] \in {Star, m[d]}
      OBVIOUS
    <3>8. QED
      BY <3>5, <3>6, <3>7 DEF Expand
  <2>3. QED
    BY <2>1, <2>2
<1> PICK level : level = [d \in 0 .. Len(p) |-> L(d)]
  OBVIOUS
<1>3. level = Def(level)
  BY <1>1, <1>2
<1>4. PICK f : f = Def(f) /\ Reached(p, t) = f[Len(p)]
  <2>1. Reached(p, t) = (CHOOSE f : f = Def(f))[Len(p)]
    BY Zenon DEF Reached
  <2> HIDE DEF Def
  <2>2. (CHOOSE f : f = Def(f)) = Def(CHOOSE f : f = Def(f))
    BY <1>3, Zenon
  <2>3. QED
    BY <2>1, <2>2, Zenon
<1>5. \A d \in 0 .. Len(p) : f[d] = L(d)
  <2>1. SUFFICES ASSUME {d \in 0 .. Len(p) : f[d] # L(d)} # {} PROVE FALSE
    OBVIOUS
  <2>2. PICK d \in {e \in 0 .. Len(p) : f[e] # L(e)} :
           \A e \in {k \in 0 .. Len(p) : f[k] # L(k)} : d <= e
    <3> DEFINE Wrong == {e \in 0 .. Len(p) : f[e] # L(e)}
    <3>1. Wrong \in SUBSET Nat /\ Wrong # {}
      BY <2>1
    <3> HIDE DEF Wrong
    <3>2. \E d \in Wrong : \A e \in Wrong : d <= e
      BY <3>1, LeastNat
    <3>3. QED
      BY <3>2 DEF Wrong
  <2>3. d # 0
    BY <1>1, <1>4, <2>2
  <2>4. d \in 1 .. Len(p) /\ d - 1 \in 0 .. Len(p) /\ f[d - 1] = L(d - 1)
    <3>1. d \in 1 .. Len(p) /\ d - 1 \in 0 .. Len(p) /\ ~(d <= d - 1)
      BY <2>3
    <3>2. QED
      BY <3>1, <2>2
  <2>5. f[d] = Expand(p, t, f[d - 1], d)
    BY <1>4, <2>3
  <2>6. QED
    BY <1>2, <2>2, <2>4, <2>5
<1>6. QED
  BY <1>4, <1>5

(* A set of numbers that is bounded has a greatest one.                    *)
LEMMA MaxFacts ==
    ASSUME NEW n \in Nat, NEW T \in SUBSET (0 .. n), T # {}
    PROVE  Max(T) \in T /\ \A i \in T : i <= Max(T)
<1>1. PICK k \in {n - i : i \in T} : \A l \in {n - i : i \in T} : k <= l
  <2> DEFINE Below == {n - i : i \in T}
  <2>1. Below \in SUBSET Nat /\ Below # {}
    <3>1. \A i \in T : n - i \in Nat
      OBVIOUS
    <3>2. QED
      BY <3>1
  <2> HIDE DEF Below
  <2>2. \E k \in Below : \A l \in Below : k <= l
    BY <2>1, LeastNat
  <2>3. QED
    BY <2>2 DEF Below
<1>2. PICK m \in T : k = n - m
  OBVIOUS
<1>3. \A i \in T : m >= i
  <2>1. \A i \in T : n - m <= n - i
    BY <1>1, <1>2
  <2>2. QED
    BY <2>1
<1>4. /\ (CHOOSE x \in T : \A y \in T : x >= y) \in T
      /\ \A y \in T : (CHOOSE x \in T : \A z \in T : x >= z) >= y
  BY <1>3, Zenon
<1>5. Max(T) \in T /\ \A i \in T : Max(T) >= i
  BY <1>4, Zenon DEF Max
<1>6. QED
  BY <1>5

(* What findKeyInStorage() finds of several items.                         *)
LEMMA FindIs ==
    ASSUME NEW S, NEW t \in SUBSET Seq(S), NEW p \in Seq(S), Len(p) > 1
    PROVE  Find(p, t) = {v \in t : /\ Matches(p, v)
                                   /\ Last(p) = Star \/ Beneath(t, v) = {v}}
<1>1. Len(p) # 1 /\ Len(p) \in 1 .. Len(p)
  <2>1. PICK k \in Nat : k = Len(p)
    OBVIOUS
  <2>2. QED
    BY <2>1
<1> DEFINE Ends == {m \in Reached(p, t) : Last(p) = Star \/ Children(t, m) = {}}
<1>2. \A v : v \in Find(p, t) <=> \E n \in Ends : v \in t /\ IsPrefix(n, v)
  <2>1. Find(p, t) = UNION {Beneath(t, n) : n \in Ends}
    BY <1>1, Zenon DEF Find
  <2> HIDE DEF Ends
  <2>2. \A v : v \in Find(p, t) <=> \E n \in Ends : v \in Beneath(t, n)
    BY <2>1
  <2>3. QED
    BY <2>2 DEF Beneath
<1>3. \A n : n \in Ends <=> /\ n \in Nodes(t)
                            /\ Len(n) = Len(p)
                            /\ \A i \in 1 .. Len(p) : p[i] \in {Star, n[i]}
                            /\ Last(p) = Star \/ Children(t, n) = {}
  <2>1. \A n : n \in Reached(p, t) <=> /\ n \in Nodes(t)
                                       /\ Len(n) = Len(p)
                                       /\ \A i \in 1 .. Len(p) : p[i] \in {Star, n[i]}
    <3>1. Reached(p, t) = {n \in Nodes(t) : /\ Len(n) = Len(p)
                                            /\ \A i \in 1 .. Len(p) : p[i] \in {Star, n[i]}}
      BY ReachedAre
    <3>2. QED
      BY <3>1, Zenon
  <2>2. QED
    BY <2>1
<1> HIDE DEF Ends
<1>4. ASSUME NEW v \in t, NEW n \in Ends, IsPrefix(n, v)
      PROVE  Matches(p, v) /\ (Last(p) = Star \/ Beneath(t, v) = {v})
  <2>1. n \in Seq(S) /\ n \in Nodes(t) /\ Len(n) = Len(p)
    BY <1>3, NodesAre
  <2>2. Len(p) <= Len(v) /\ \A i \in 1 .. Len(p) : n[i] = v[i]
    BY <1>4, <2>1, PrefixFacts
  <2>3. \A i \in 1 .. Len(p) : p[i] \in {Star, v[i]}
    BY <1>3, <2>2
  <2>4. CASE Last(p) = Star
    BY <2>2, <2>3, <2>4 DEF Matches
  <2>5. CASE Last(p) # Star
    <3>1. ASSUME NEW w \in t, Len(w) > Len(n), \A i \in 1 .. Len(n) : w[i] = n[i]
          PROVE  FALSE
      <4>1. PICK m : m = SubSeq(w, 1, Len(n) + 1)
        OBVIOUS
      <4>2. Len(n) + 1 \in 0 .. Len(w) /\ w \in Seq(S)
        BY <2>1, <3>1
      <4>3. /\ m \in Seq(S)
            /\ Len(m) = Len(n) + 1
            /\ \A i \in 1 .. Len(n) + 1 : m[i] = w[i]
        BY <4>1, <4>2, HeadFacts
      <4>4. IsPrefix(m, w) /\ m # <<>>
        BY <2>1, <4>2, <4>3, PrefixFacts
      <4>5. m \in Nodes(t)
        BY <4>3, <4>4, NodesAre
      <4>6. \A i \in 1 .. Len(n) : m[i] = n[i]
        BY <2>1, <3>1, <4>3
      <4>7. m \in Children(t, n)
        BY <2>1, <4>3, <4>5, <4>6, ChildrenAre
      <4>8. QED
        BY <1>3, <2>5, <4>7
    <3>2. Len(v) = Len(p)
      BY <2>1, <2>2, <3>1
    <3>3. \A w \in t : IsPrefix(v, w) <=> w = v
      <4>1. SUFFICES ASSUME NEW w \in t PROVE IsPrefix(v, w) <=> w = v
        OBVIOUS
      <4>2. IsPrefix(v, w) => Len(v) <= Len(w) /\ \A i \in 1 .. Len(v) : v[i] = w[i]
        BY PrefixFacts
      <4>3. IsPrefix(v, w) => Len(w) = Len(v)
        BY <2>1, <2>2, <3>1, <3>2, <4>2
      <4>4. IsPrefix(v, w) => w = v
        BY <4>2, <4>3, SeqEqual
      <4>5. IsPrefix(v, v)
        BY PrefixFacts
      <4>6. QED
        BY <4>4, <4>5
    <3>4. QED
      BY <2>2, <2>3, <3>2, <3>3 DEF Matches, Beneath
  <2>6. QED
    BY <2>4, <2>5
<1>5. ASSUME NEW v \in t, Matches(p, v), Last(p) = Star \/ Beneath(t, v) = {v}
      PROVE  \E n \in Ends : IsPrefix(n, v)
  <2>1. Len(p) \in 0 .. Len(v) /\ \A i \in 1 .. Len(p) : p[i] \in {Star, v[i]}
    BY <1>5 DEF Matches
  <2>2. PICK n : n = SubSeq(v, 1, Len(p))
    OBVIOUS
  <2>3. n \in Seq(S) /\ Len(n) = Len(p) /\ \A i \in 1 .. Len(p) : n[i] = v[i]
    BY <2>1, <2>2, HeadFacts
  <2>4. IsPrefix(n, v) /\ n # <<>>
    BY <1>1, <2>1, <2>3, PrefixFacts
  <2>5. n \in Nodes(t)
    BY <2>3, <2>4, NodesAre
  <2>6. ASSUME Last(p) # Star PROVE Children(t, n) = {}
    <3>1. SUFFICES ASSUME NEW m \in Children(t, n) PROVE FALSE
      OBVIOUS
    <3>2. m \in Seq(S) /\ m \in Nodes(t)
      BY NodesAre DEF Children
    <3>3. Len(m) = Len(n) + 1 /\ \A i \in 1 .. Len(n) : m[i] = n[i]
      BY <2>3, <3>2, ChildrenAre
    <3>4. PICK w \in t : IsPrefix(m, w)
      <4>1. m # <<>>
        BY <2>3, <3>3
      <4>2. QED
        BY <3>2, <4>1, NodesAre
    <3>5. Len(m) <= Len(w) /\ \A i \in 1 .. Len(m) : m[i] = w[i]
      BY <3>2, <3>4, PrefixFacts
    <3>6. Len(v) = Len(p)
      BY <1>5, <2>6 DEF Matches
    <3>7. Len(v) <= Len(w) /\ \A i \in 1 .. Len(v) : v[i] = w[i]
      BY <2>3, <3>3, <3>5, <3>6
    <3>8. w \in Beneath(t, v)
      BY <3>7, PrefixFacts DEF Beneath
    <3>9. Len(w) # Len(v)
      BY <2>3, <3>3, <3>5, <3>6
    <3>10. QED
      BY <1>5, <2>6, <3>8, <3>9
  <2>7. \A i \in 1 .. Len(p) : p[i] \in {Star, n[i]}
    BY <2>1, <2>3
  <2>8. QED
    BY <1>3, <2>3, <2>4, <2>5, <2>6, <2>7
<1>6. QED
  BY <1>2, <1>4, <1>5

(* A node has as many branches as the keys it is a part of, or fewer.      *)
LEMMA ChildrenFinite ==
    ASSUME NEW S, NEW t \in SUBSET Seq(S), IsFiniteSet(t), NEW n \in Seq(S)
    PROVE  IsFiniteSet(Children(t, n))
<1> DEFINE f == [v \in t |-> SubSeq(v, 1, Len(n) + 1)]
           T == {f[v] : v \in t}
<1>1. f \in Surjection(t, T)
  BY DEF Surjection
<1>2. IsFiniteSet(T)
  BY <1>1, FS_Surjection
<1>3. ASSUME NEW m \in Children(t, n)
      PROVE  m \in T
  <2>1. m \in Seq(S) /\ m \in Nodes(t)
    BY NodesAre DEF Children
  <2>2. Len(m) = Len(n) + 1
    BY <2>1, ChildrenAre
  <2>3. m # <<>>
    BY <2>2
  <2>4. PICK v \in t : IsPrefix(m, v)
    BY <2>1, <2>3, NodesAre
  <2>5. m = SubSeq(v, 1, Len(n) + 1)
    BY <2>1, <2>2, <2>4, PrefixFacts
  <2>6. QED
    BY <2>5
<1>4. QED
  BY <1>2, <1>3, FS_Subset

(* Two branches make a fork.                                               *)
LEMMA TwoIsMore ==
    ASSUME NEW T, IsFiniteSet(T), NEW a \in T, NEW b \in T, a # b
    PROVE  Cardinality(T) > 1
<1>1. Cardinality(T) \in Nat
  BY FS_CardinalityType
<1>2. Cardinality(T) # 0
  BY FS_EmptySet
<1>3. Cardinality(T) # 1
  BY FS_Singleton
<1>4. QED
  BY <1>1, <1>2, <1>3

(* deleteKeyInStorage() of a key that is alone.                            *)
LEMMA CutIs ==
    ASSUME NEW S, NEW t \in SUBSET Seq(S), IsFiniteSet(t),
           NEW key \in t, key # <<>>, Alone(key, t)
    PROVE  Cut(key, t) = t \ {key}
<1> DEFINE Forks == {i \in 1 .. Len(key) - 1 : Cardinality(Children(t, SubSeq(key, 1, i))) > 1}
<1>1. key \in Seq(S) /\ Len(key) \in Nat \ {0}
  OBVIOUS
<1>2. PICK F : F = Fork(key, t)
  OBVIOUS
<1>3. F \in 0 .. Len(key) - 1 /\ \A i \in Forks : i <= F
  <2> DEFINE T == {0} \cup Forks
  <2>1. T \in SUBSET (0 .. Len(key) - 1) /\ T # {} /\ Len(key) - 1 \in Nat
    BY <1>1
  <2>2. F = Max(T)
    BY <1>2 DEF Fork
  <2> HIDE DEF T
  <2>3. F \in T /\ \A i \in T : i <= F
    BY <2>1, <2>2, MaxFacts
  <2>4. QED
    BY <2>1, <2>3 DEF T
<1>4. PICK b : b = SubSeq(key, 1, F + 1)
  OBVIOUS
<1>5. b \in Seq(S) /\ Len(b) = F + 1 /\ \A i \in 1 .. F + 1 : b[i] = key[i]
  <2>1. F + 1 \in 0 .. Len(key)
    BY <1>1, <1>3
  <2>2. QED
    BY <1>1, <1>4, <2>1, HeadFacts
<1>6. IsPrefix(b, key)
  BY <1>1, <1>3, <1>5, PrefixFacts
<1>7. ASSUME NEW v \in t, v # key, IsPrefix(b, v)
      PROVE  FALSE
  <2>1. v \in Seq(S) /\ F + 1 <= Len(v) /\ \A i \in 1 .. F + 1 : key[i] = v[i]
    BY <1>5, <1>7, PrefixFacts
  <2>2. ~IsPrefix(key, v) /\ ~IsPrefix(v, key)
    BY <1>7 DEF Alone
  <2> DEFINE Apart == {i \in 1 .. Len(key) : i <= Len(v) /\ key[i] # v[i]}
  <2>3. Apart # {}
    <3>1. SUFFICES ASSUME Apart = {} PROVE FALSE
      OBVIOUS
    <3>2. CASE Len(key) <= Len(v)
      <4>1. \A i \in 1 .. Len(key) : key[i] = v[i]
        BY <1>1, <2>1, <3>1, <3>2
      <4>2. QED
        BY <1>1, <2>1, <2>2, <3>2, <4>1, PrefixFacts
    <3>3. CASE Len(v) <= Len(key)
      <4>1. \A i \in 1 .. Len(v) : v[i] = key[i]
        BY <1>1, <2>1, <3>1, <3>3
      <4>2. QED
        BY <1>1, <2>1, <2>2, <3>3, <4>1, PrefixFacts
    <3>4. QED
      BY <1>1, <2>1, <3>2, <3>3
  <2>4. PICK d \in Apart : \A i \in Apart : d <= i
    <3>1. Apart \in SUBSET Nat
      OBVIOUS
    <3> HIDE DEF Apart
    <3>2. QED
      BY <2>3, <3>1, LeastNat
  <2>5. d \in 1 .. Len(key) /\ d \in 1 .. Len(v) /\ key[d] # v[d]
    BY <2>1
  <2>6. \A i \in 1 .. d - 1 : key[i] = v[i]
    <3>1. SUFFICES ASSUME NEW i \in 1 .. d - 1, key[i] # v[i] PROVE FALSE
      OBVIOUS
    <3>2. i \in Apart /\ ~(d <= i)
      BY <1>1, <2>1, <2>5, <3>1
    <3>3. QED
      BY <2>4, <3>2
  <2>7. d > F + 1
    BY <1>3, <2>1, <2>5
  <2>8. d - 1 \in 1 .. Len(key) - 1 /\ d - 1 \in 0 .. Len(key) /\ d \in 0 .. Len(key) /\ d \in 0 .. Len(v)
    BY <1>1, <1>3, <2>1, <2>5, <2>7
  <2>9. PICK n : n = SubSeq(key, 1, d - 1)
    OBVIOUS
  <2>10. n \in Seq(S) /\ Len(n) = d - 1 /\ \A i \in 1 .. d - 1 : n[i] = key[i]
    BY <1>1, <2>8, <2>9, HeadFacts
  <2>11. ASSUME NEW w \in {key, v}
         PROVE  SubSeq(w, 1, d) \in Children(t, n) /\ SubSeq(w, 1, d)[d] = w[d]
    <3>1. w \in Seq(S) /\ w \in t /\ d \in 0 .. Len(w) /\ \A i \in 1 .. d - 1 : w[i] = key[i]
      BY <1>1, <2>1, <2>6, <2>8
    <3>2. PICK m : m = SubSeq(w, 1, d)
      OBVIOUS
    <3>3. m \in Seq(S) /\ Len(m) = d /\ \A i \in 1 .. d : m[i] = w[i]
      BY <3>1, <3>2, HeadFacts
    <3>4. IsPrefix(m, w) /\ m # <<>>
      BY <2>5, <3>1, <3>3, PrefixFacts
    <3>5. m \in Nodes(t)
      BY <3>1, <3>3, <3>4, NodesAre
    <3>6. \A i \in 1 .. d - 1 : m[i] = n[i]
      BY <2>5, <2>10, <3>1, <3>3
    <3>7. m \in Children(t, n)
      BY <2>5, <2>10, <3>3, <3>5, <3>6, ChildrenAre
    <3>8. QED
      BY <2>5, <3>2, <3>3, <3>7
  <2>12. SubSeq(key, 1, d) # SubSeq(v, 1, d)
    BY <2>5, <2>11
  <2>13. Cardinality(Children(t, n)) > 1
    BY <2>10, <2>11, <2>12, ChildrenFinite, TwoIsMore
  <2>14. d - 1 \in Forks
    BY <2>8, <2>9, <2>13
  <2>15. QED
    BY <1>3, <2>7, <2>8, <2>14
<1>8. \A i \in 1 .. Len(key) - 1 : SubSeq(key, 1, i) \in Nodes(t)
  <2>1. key \in Nodes(t)
    <3>1. IsPrefix(key, key)
      BY <1>1, PrefixFacts
    <3>2. QED
      BY <1>1, <3>1, NodesAre
  <2>2. QED
    BY <1>1, <2>1, HeadIsNode
<1>9. Cut(key, t) = t \ Beneath(t, b)
  BY <1>2, <1>4, <1>8 DEF Cut
<1>10. Beneath(t, b) = {key}
  BY <1>6, <1>7 DEF Beneath
<1>11. QED
  BY <1>9, <1>10

-----------------------------------------------------------------------------
(* Keys and patterns as sequences of words.                                *)
Words == UNION {Range(p) : p \in Keys \cup Patterns}

LEMMA KeysAreSeqs ==
    /\ \A p \in Keys \cup Patterns : p \in Seq(Words) /\ p # <<>> /\ Len(p) \in Nat \ {0}
    /\ Keys \subseteq Seq(Words)
<1>1. ASSUME NEW p \in Keys \cup Patterns
      PROVE  p \in Seq(Words) /\ p # <<>> /\ Len(p) \in Nat \ {0}
  <2>1. p \in Seq(Range(p)) /\ p # <<>>
    BY KeysAssumption
  <2>2. Range(p) \subseteq Words
    BY DEF Words
  <2>3. p \in Seq(Words)
    <3>1. Len(p) \in Nat /\ DOMAIN p = 1 .. Len(p) /\ \A i \in 1 .. Len(p) : p[i] \in Range(p)
      BY <2>1
    <3>2. p = [i \in 1 .. Len(p) |-> p[i]]
      BY <2>1
    <3>3. QED
      BY <2>2, <3>1, <3>2
  <2>4. QED
    BY <2>1, <2>3
<1>2. QED
  BY <1>1

(* A key matches itself, and no other.                                     *)
LEMMA KeyMatches ==
    ASSUME NEW key \in Keys
    PROVE  /\ Matches(key, key)
           /\ \A v \in Keys : Matches(key, v) => v = key
<1>1. key \in Seq(Words) /\ Len(key) \in 1 .. Len(key) /\ \A i \in 1 .. Len(key) : key[i] # Star
  BY KeysAreSeqs, KeysAssumption DEF Contains
<1>2. Matches(key, key)
  BY <1>1 DEF Matches
<1>3. ASSUME NEW v \in Keys, Matches(key, v)
      PROVE  v = key
  <2>1. Last(key) # Star
    BY <1>1 DEF Last
  <2>2. v \in Seq(Words) /\ Len(key) = Len(v) /\ \A i \in 1 .. Len(key) : key[i] = v[i]
    BY <1>1, <1>3, <2>1, KeysAreSeqs DEF Matches
  <2>3. QED
    BY <1>1, <2>2, SeqEqual
<1>4. QED
  BY <1>2, <1>3

(* findKeyInStorage() of a key or a pattern of several items.              *)
LEMMA FoundAre ==
    ASSUME NEW t \in SUBSET Keys, NEW p \in Keys \cup Patterns, Len(p) > 1
    PROVE  Find(p, t) = {v \in t : Matches(p, v) /\ (Last(p) = Star \/ Beneath(t, v) = {v})}
<1>1. p \in Seq(Words) /\ t \in SUBSET Seq(Words)
  BY KeysAreSeqs
<1>2. QED
  BY <1>1, FindIs

(* ... are keys that it means.                                             *)
LEMMA FoundIsMeant ==
    ASSUME NEW t \in SUBSET Keys, NEW p \in Keys \cup Patterns, Len(p) > 1
    PROVE  Find(p, t) \subseteq {v \in t : Matches(p, v)}
BY FoundAre

(* A key in the index that is alone there is found.                        *)
LEMMA KeyIsFound ==
    ASSUME NEW t \in SUBSET Keys, NEW key \in t, Alone(key, t)
    PROVE  key \in Find(key, t)
<1>1. key \in Seq(Words) /\ key # <<>> /\ t \subseteq Seq(Words) /\ Len(key) \in Nat \ {0}
  BY KeysAreSeqs
<1>2. IsPrefix(key, key) /\ Matches(key, key)
  BY <1>1, PrefixFacts, KeyMatches
<1>3. CASE Len(key) = 1
  <2>1. key \in Nodes(t)
    BY <1>1, <1>2, NodesAre
  <2>2. key \in Reached(key, t)
    BY <1>1, <2>1, ReachedAre
  <2>3. QED
    BY <1>3, <2>2, Zenon DEF Find
<1>4. CASE Len(key) > 1
  <2>1. Beneath(t, key) = {key}
    BY <1>2 DEF Beneath, Alone
  <2>2. Find(key, t) = {v \in t : Matches(key, v) /\ (Last(key) = Star \/ Beneath(t, v) = {v})}
    BY <1>4, FoundAre
  <2>3. QED
    BY <1>2, <2>1, <2>2, Zenon
<1>5. Len(key) = 1 \/ Len(key) > 1
  <2>1. PICK n \in Nat \ {0} : n = Len(key)
    BY <1>1
  <2>2. QED
    BY <2>1
<1>6. QED
  BY <1>3, <1>4, <1>5

(* Deleting adds nothing to the index.                                     *)
LEMMA DropShrinks ==
    ASSUME NEW t, NEW p
    PROVE  Drop(p, t) \subseteq t
BY DEF Drop, DropFound, Cut

(* Deleting a key that is alone deletes it only.                           *)
LEMMA DropOfKey ==
    ASSUME NEW t \in SUBSET Keys, IsFiniteSet(t), NEW key \in t, Alone(key, t)
    PROVE  Drop(key, t) = t \ {key}
<1>1. t \subseteq Seq(Words) /\ key # <<>> /\ ~Contains(key, Star)
  BY KeysAreSeqs, KeysAssumption
<1>2. QED
  BY <1>1, CutIs DEF Drop

(* Where the index is used as it is meant to be, deleting leaves all keys  *)
(* that are not meant.                                                     *)
LEMMA DropSpares ==
    ASSUME NEW t \in SUBSET Keys, IsFiniteSet(t), NEW p \in Keys \cup Patterns,
           NEW op \in {"delete", "pattern"}, Plain(op, p, t),
           NEW v \in t, ~Matches(p, v)
    PROVE  v \in Drop(p, t)
<1>1. CASE p \in t /\ Alone(p, t)
  <2>1. v # p
    BY <1>1, KeyMatches
  <2>2. QED
    BY <1>1, <2>1, DropOfKey
<1>2. CASE Len(p) > 1 /\ Contains(p, Star)
  <2>1. Find(p, t) \subseteq t /\ v \notin Find(p, t)
    BY <1>2, FoundIsMeant
  <2>2. Cardinality(Find(p, t)) # Cardinality(t)
    BY <2>1, FS_Subset
  <2>3. QED
    BY <1>2, <2>1, <2>2 DEF Drop, DropFound
<1>3. QED
  BY <1>1, <1>2 DEF Plain

(* An index is finite if what it was made from was.                        *)
LEMMA KeysOfIndex ==
    ASSUME NEW i \in Index
    PROVE  /\ KeysOf(i) \in SUBSET Keys
           /\ i \in SUBSET Keys => KeysOf(i) = i
BY NoIndexAssumption DEF Index, KeysOf

-----------------------------------------------------------------------------
(* Each step keeps the invariant.                                          *)

(* An empty server: no value, no index and no call.                        *)
LEMMA KeysInit == KeyInit => KeysInv
<1> SUFFICES ASSUME KeyInit PROVE KeysInv
  OBVIOUS
<1>1. KeyTypeOK
  <2>1. NoCall \in Call
    BY DEF NoCall, Call, Index
  <2>2. NoIndex \in Index
    BY DEF Index
  <2>3. calls \in 0 .. MaxCalls
    BY CallsAssumption DEF KeyInit
  <2>4. QED
    BY <2>1, <2>2, <2>3 DEF KeyInit, KeyTypeOK
<1>2. KeysOf(NoIndex) = {} /\ IsFiniteSet({})
  BY FS_EmptySet DEF KeysOf
<1>3. StagesInv
  BY DEF KeyInit, StagesInv, NoCall
<1>4. IndexInv
  BY <1>2 DEF KeyInit, IndexInv, NoCall
<1>5. Kept /\ RacesInv
  BY DEF KeyInit, Kept, RacesInv, CopyInv, NoCall
<1>6. QED
  BY <1>1, <1>3, <1>4, <1>5 DEF KeysInv

(* What a call knows stays true while nobody else touches it.              *)
LEMMA CopyStays ==
    ASSUME NEW d \in Clients, CopyInv(d), call'[d] = call[d],
           index' = index, live' \subseteq live,
           \/ call[d].key \in stored'
           \/ call[d].key \notin stored
           \/ call[d].op # "set" \/ call[d].at = "value"
    PROVE  CopyInv(d)'
<1>1. Meant(d)' = Meant(d)
  BY DEF Meant
<1>2. QED
  BY <1>1 DEF CopyInv

(* A step of one call that touches neither values nor index.               *)
LEMMA CallStep ==
    ASSUME KeysInv, NEW c \in Clients, NEW k \in Call,
           call' = [call EXCEPT ![c] = k],
           UNCHANGED <<stored, index, live>>,
           calls' \in 0 .. MaxCalls, excused' \in BOOLEAN, excused => excused',
           k.op = "none" => k = NoCall,
           k.op \in {"set", "get", "delete"} => k.key \in Keys,
           k.op = "pattern" => k.key \in Patterns,
           k.op = "set" => k.at \in {"value", "read", "write"},
           k.op = "get" => k.at \in {"read", "drop"},
           k.op \in {"delete", "pattern"} => k.at \in {"read", "drop", "write"},
           k.copy \in {NoIndex, index, call[c].copy},
           ~excused' => CopyInv(c)'
    PROVE  KeysInv'
<1>1. call \in [Clients -> Call] /\ index \in Index
  BY DEF KeysInv, KeyTypeOK
<1>2. /\ call' \in [Clients -> Call]
      /\ call'[c] = k
      /\ \A d \in Clients \ {c} : call'[d] = call[d]
  BY <1>1
<1>3. KeyTypeOK'
  BY <1>2 DEF KeysInv, KeyTypeOK
<1>4. StagesInv'
  BY <1>2 DEF KeysInv, StagesInv
<1>5. IndexInv'
  <2>1. IsFiniteSet(KeysOf(NoIndex))
    BY FS_EmptySet DEF KeysOf
  <2>2. IsFiniteSet(KeysOf(k.copy))
    BY <2>1 DEF KeysInv, IndexInv
  <2>3. QED
    BY <1>2, <2>2 DEF KeysInv, IndexInv
<1>6. Kept'
  BY DEF KeysInv, Kept
<1>7. RacesInv'
  <2>1. SUFFICES ASSUME ~excused', NEW d \in Clients PROVE CopyInv(d)'
    BY DEF RacesInv
  <2>2. CASE d = c
    BY <2>1, <2>2
  <2>3. CASE d # c
    BY <1>2, <2>1, <2>3, CopyStays DEF KeysInv, RacesInv
  <2>4. QED
    BY <2>2, <2>3
<1>8. QED
  BY <1>3, <1>4, <1>5, <1>6, <1>7 DEF KeysInv

LEMMA BeginKeeps ==
    ASSUME KeysInv, NEW c \in Clients, NEW op, NEW p, NEW at, Begin(c, op, p, at),
           \/ op = "set" /\ at = "value" /\ p \in Keys
           \/ op \in {"get", "delete"} /\ at = "read" /\ p \in Keys
           \/ op = "pattern" /\ at = "read" /\ p \in Patterns
    PROVE  KeysInv'
<1> DEFINE k == [op |-> op, key |-> p, at |-> at, copy |-> NoIndex]
<1>1. call' = [call EXCEPT ![c] = k]
  BY DEF Begin
<1>2. k \in Call
  BY DEF Call, Index
<1>3. calls' \in 0 .. MaxCalls /\ UNCHANGED <<stored, index, live, excused>> /\ excused \in BOOLEAN
  BY CallsAssumption DEF Begin, KeysInv, KeyTypeOK
<1>4. call'[c] = k
  BY <1>1 DEF KeysInv, KeyTypeOK
<1>5. CopyInv(c)'
  BY <1>4 DEF CopyInv
<1>6. QED
  BY <1>1, <1>2, <1>3, <1>5, CallStep

(* A call that is over, or given up.                                       *)
LEMMA EndKeeps ==
    ASSUME KeysInv, NEW c \in Clients, End(c), UNCHANGED <<stored, index, calls, live>>,
           excused' \in BOOLEAN, excused => excused'
    PROVE  KeysInv'
<1>1. call' = [call EXCEPT ![c] = NoCall] /\ NoCall \in Call
  BY DEF End, NoCall, Call, Index
<1>2. calls' \in 0 .. MaxCalls
  BY DEF KeysInv, KeyTypeOK
<1>3. call'[c] = NoCall
  BY <1>1 DEF KeysInv, KeyTypeOK
<1>4. CopyInv(c)'
  BY <1>3 DEF CopyInv, NoCall
<1>5. QED
  BY <1>1, <1>2, <1>4, CallStep DEF NoCall

LEMMA FailedKeeps ==
    ASSUME KeysInv, NEW c \in Clients, Failed(c)
    PROVE  KeysInv'
BY EndKeeps DEF Failed, KeysInv, KeyTypeOK

(* The index is read.                                                      *)
LEMMA IndexReadKeeps ==
    ASSUME KeysInv, NEW c \in Clients, NEW at, IndexRead(c, at),
           \/ call[c].op = "set" /\ at = "write"
           \/ call[c].op \in {"delete", "pattern"} /\ at = "drop"
           \/ call[c].op = "get" /\ at = "drop" /\ Unknown(call[c].key, index)
    PROVE  KeysInv'
<1> DEFINE k == [call[c] EXCEPT !.at = at, !.copy = index]
<1>1. call \in [Clients -> Call] /\ index \in Index /\ excused \in BOOLEAN /\ calls \in 0 .. MaxCalls
  BY DEF KeysInv, KeyTypeOK
<1>2. call' = [call EXCEPT ![c] = k]
  BY <1>1 DEF IndexRead
<1>3. k \in Call
  BY <1>1 DEF Call
<1>4. /\ k.op = call[c].op /\ k.key = call[c].key /\ k.at = at /\ k.copy = index
      /\ call'[c] = k
  BY <1>1, <1>2 DEF Call
<1>5. UNCHANGED <<stored, index, calls, live>> /\ excused' \in BOOLEAN /\ (excused => excused')
  BY DEF IndexRead
<1>6. ASSUME ~excused' PROVE CopyInv(c)'
  <2>1. ~excused /\ Plain(k.op, k.key, KeysOf(index))
    BY <1>4, <1>6 DEF IndexRead
  <2>2. call[c].at = "read" /\ CopyInv(c)
    BY <2>1 DEF IndexRead, KeysInv, RacesInv
  <2>3. k.op = "get" => Find(k.key, KeysOf(index)) = {}
    BY <1>4 DEF Unknown, KeysOf
  <2>4. k.op = "set" => k.key \in stored
    BY <1>4, <2>2 DEF CopyInv
  <2>5. k.op # "set" => k.at # "write"
    BY <1>4
  <2>6. QED
    BY <1>4, <1>5, <2>1, <2>3, <2>4, <2>5 DEF CopyInv
<1>7. /\ k.op # "none"
      /\ k.op \in {"set", "get", "delete"} => k.key \in Keys
      /\ k.op = "pattern" => k.key \in Patterns
  BY <1>4 DEF KeysInv, StagesInv
<1>8. /\ k.op = "set" => k.at = "write"
      /\ k.op \in {"get", "delete", "pattern"} => k.at = "drop"
  BY <1>4
<1> HIDE DEF k
<1>9. QED
  BY <1>1, <1>2, <1>3, <1>4, <1>5, <1>6, <1>7, <1>8, CallStep

LEMMA ReadsKeep ==
    ASSUME KeysInv, NEW c \in Clients, ReadToAdd(c) \/ ReadToDelete(c) \/ ReadToGet(c)
    PROVE  KeysInv'
<1>1. CASE ReadToAdd(c)
  BY <1>1, IndexReadKeeps DEF ReadToAdd
<1>2. CASE ReadToDelete(c)
  BY <1>2, IndexReadKeeps DEF ReadToDelete
<1>3. CASE ReadToGet(c)
  <2>1. CASE Unknown(call[c].key, index)
    BY <1>3, <2>1, IndexReadKeeps DEF ReadToGet
  <2>2. CASE ~Unknown(call[c].key, index)
    <3>1. /\ End(c)
          /\ UNCHANGED <<stored, index, calls, live>>
          /\ excused' \in BOOLEAN
          /\ excused => excused'
      BY <1>3, <2>2 DEF ReadToGet
    <3>2. QED
      BY <3>1, EndKeeps
  <2>3. QED
    BY <2>1, <2>2
<1>4. QED
  BY <1>1, <1>2, <1>3

(* The value of a set() arrives.                                           *)
LEMMA ValueSetKeeps ==
    ASSUME KeysInv, NEW c \in Clients, ValueSet(c)
    PROVE  KeysInv'
<1>1. /\ call \in [Clients -> Call] /\ stored \in SUBSET Keys
      /\ call[c].op = "set" /\ call[c].key \in Keys
  BY DEF ValueSet, KeysInv, KeyTypeOK, StagesInv, NoCall, Call
<1> DEFINE k == [call[c] EXCEPT !.at = "read"]
<1>2. /\ call' = [call EXCEPT ![c] = k]
      /\ stored' = stored \cup {call[c].key}
      /\ UNCHANGED <<index, calls, live, excused>>
  BY <1>1 DEF ValueSet
<1>3. k \in Call /\ k.op = "set" /\ k.key = call[c].key /\ k.at = "read" /\ k.copy = call[c].copy
  BY <1>1 DEF Call
<1> HIDE DEF k
<1>4. /\ call' \in [Clients -> Call]
      /\ call'[c] = k
      /\ \A d \in Clients \ {c} : call'[d] = call[d]
  BY <1>1, <1>2, <1>3
<1>5. KeyTypeOK'
  BY <1>1, <1>2, <1>4 DEF KeysInv, KeyTypeOK
<1>6. StagesInv'
  BY <1>1, <1>3, <1>4 DEF KeysInv, StagesInv
<1>7. IndexInv'
  BY <1>2, <1>3, <1>4 DEF KeysInv, IndexInv
<1>8. Kept'
  BY <1>2 DEF KeysInv, Kept
<1>9. RacesInv'
  <2>1. SUFFICES ASSUME ~excused, NEW d \in Clients PROVE CopyInv(d)'
    BY <1>2 DEF RacesInv
  <2>2. CASE d = c
    BY <1>2, <1>3, <1>4, <2>2 DEF CopyInv
  <2>3. CASE d # c
    BY <1>2, <1>4, <2>1, <2>3, CopyStays DEF KeysInv, RacesInv
  <2>4. QED
    BY <2>2, <2>3
<1>10. QED
  BY <1>5, <1>6, <1>7, <1>8, <1>9 DEF KeysInv

(* The values of a deletion go, or that of a get() the index has not.      *)
LEMMA ValuesDeletedKeeps ==
    ASSUME KeysInv, NEW c \in Clients, ValuesDeleted(c)
    PROVE  KeysInv'
<1>1. /\ call \in [Clients -> Call] /\ stored \in SUBSET Keys /\ live \in SUBSET Keys
      /\ excused \in BOOLEAN
      /\ call[c].op \in {"get", "delete", "pattern"} /\ call[c].at = "drop"
      /\ call[c].op \in {"get", "delete"} => call[c].key \in Keys
      /\ call[c].op = "pattern" => call[c].key \in Patterns
      /\ index \in Index
  BY DEF ValuesDeleted, KeysInv, KeyTypeOK, StagesInv, NoCall, Call
<1>2. PICK k : /\ k \in Call
               /\ call' = [call EXCEPT ![c] = k]
               /\ call[c].op = "get" => k = NoCall
               /\ call[c].op # "get" => /\ k.op = call[c].op
                                        /\ k.key = call[c].key
                                        /\ k.at = "write"
                                        /\ k.copy = call[c].copy
  <2>1. CASE call[c].op = "get"
    <3>1. NoCall \in Call
      BY DEF NoCall, Call, Index
    <3>2. QED
      BY <2>1, <3>1 DEF ValuesDeleted, End
  <2>2. CASE call[c].op # "get"
    <3>1. call' = [call EXCEPT ![c] = [call[c] EXCEPT !.at = "write"]]
      BY <1>1, <2>2 DEF ValuesDeleted
    <3>2. [call[c] EXCEPT !.at = "write"] \in Call
      BY <1>1 DEF Call
    <3>3. /\ [call[c] EXCEPT !.at = "write"].op = call[c].op
          /\ [call[c] EXCEPT !.at = "write"].key = call[c].key
          /\ [call[c] EXCEPT !.at = "write"].at = "write"
          /\ [call[c] EXCEPT !.at = "write"].copy = call[c].copy
      BY <1>1 DEF Call
    <3>4. QED
      BY <2>2, <3>1, <3>2, <3>3
  <2>3. QED
    BY <2>1, <2>2
<1>3. /\ call' \in [Clients -> Call]
      /\ call'[c] = k
      /\ \A d \in Clients \ {c} : call'[d] = call[d]
  BY <1>1, <1>2
<1>4. /\ stored' = stored \ Found(c)
      /\ live' = live \ Meant(c)
      /\ excused' = (excused \/ Crossed(Found(c)))
      /\ UNCHANGED <<index, calls>>
  BY DEF ValuesDeleted
<1>5. KeyTypeOK'
  BY <1>1, <1>3, <1>4 DEF KeysInv, KeyTypeOK
<1>6. StagesInv'
  BY <1>1, <1>2, <1>3 DEF KeysInv, StagesInv, NoCall
<1>7. IndexInv'
  <2>1. IsFiniteSet(KeysOf(k.copy))
    BY <1>1, <1>2, FS_EmptySet DEF KeysInv, IndexInv, NoCall, KeysOf
  <2>2. QED
    BY <1>3, <1>4, <2>1 DEF KeysInv, IndexInv
<1>8. ASSUME ~excused' PROVE ~excused /\ ~Crossed(Found(c)) /\ CopyInv(c) /\ live \subseteq stored \cap KeysOf(index)
  BY <1>4, <1>8 DEF KeysInv, Kept, RacesInv
<1>9. ASSUME ~excused' PROVE live \cap Found(c) \subseteq Meant(c)
  <2>1. /\ CopyInv(c) /\ live \subseteq KeysOf(index)
        /\ call[c].copy = index
        /\ Plain(call[c].op, call[c].key, KeysOf(index))
        /\ KeysOf(index) \in SUBSET Keys
    BY <1>1, <1>8, <1>9, KeysOfIndex DEF CopyInv
  <2>2. CASE call[c].op = "get"
    <3>1. call[c].key \notin KeysOf(index)
      <4>1. Find(call[c].key, KeysOf(index)) = {}
        BY <1>1, <2>1, <2>2 DEF CopyInv
      <4>2. call[c].key \in KeysOf(index) => Alone(call[c].key, KeysOf(index))
        BY <2>1, <2>2 DEF Plain
      <4>3. QED
        BY <2>1, <4>1, <4>2, KeyIsFound
    <3>2. Found(c) = {call[c].key}
      BY <2>2 DEF Found
    <3>3. QED
      BY <2>1, <3>1, <3>2
  <2>3. CASE call[c].op = "delete"
    BY <1>1, <2>3, KeyMatches DEF Found, Meant
  <2>4. CASE call[c].op = "pattern"
    <3>1. Len(call[c].key) > 1
      BY <2>1, <2>4 DEF Plain
    <3>2. Found(c) \subseteq {v \in KeysOf(index) : Matches(call[c].key, v)}
      BY <1>1, <2>1, <2>4, <3>1, FoundIsMeant DEF Found
    <3>3. Meant(c) = {v \in Keys : Matches(call[c].key, v)}
      BY <2>4 DEF Meant
    <3>4. QED
      BY <2>1, <3>2, <3>3
  <2>5. QED
    BY <1>1, <2>2, <2>3, <2>4
<1>10. Kept'
  BY <1>4, <1>8, <1>9 DEF Kept
<1>11. RacesInv'
  <2>1. SUFFICES ASSUME ~excused', NEW d \in Clients PROVE CopyInv(d)'
    BY DEF RacesInv
  <2>2. CASE d # c
    <3>1. CopyInv(d) /\ ~excused /\ ~Crossed(Found(c))
      BY <1>8, <2>1 DEF KeysInv, RacesInv
    <3>2. call[d].op = "set" /\ call[d].at # "value" => call[d].key \notin Found(c)
      BY <3>1 DEF Crossed
    <3>3. QED
      BY <1>3, <1>4, <2>2, <3>1, <3>2, CopyStays
  <2>3. CASE d = c /\ call[c].op = "get"
    BY <1>2, <1>3, <2>3 DEF CopyInv, NoCall
  <2>4. CASE d = c /\ call[c].op # "get"
    <3>1. /\ call[c].copy = index
          /\ Plain(call[c].op, call[c].key, KeysOf(index))
      BY <1>1, <1>8, <2>1 DEF CopyInv
    <3>2. Meant(c)' = Meant(c)
      BY <1>2, <1>3, <2>4 DEF Meant
    <3>3. live' \cap Meant(c)' = {}
      BY <1>4, <3>2
    <3>4. QED
      BY <1>1, <1>2, <1>3, <1>4, <2>4, <3>1, <3>3 DEF CopyInv
  <2>5. QED
    BY <2>2, <2>3, <2>4
<1>12. QED
  BY <1>5, <1>6, <1>7, <1>10, <1>11 DEF KeysInv

(* The index is written.                                                   *)
LEMMA IndexWrittenKeeps ==
    ASSUME KeysInv, NEW c \in Clients, IndexWritten(c)
    PROVE  KeysInv'
<1> DEFINE k == call[c]
<1>1. /\ call \in [Clients -> Call] /\ stored \in SUBSET Keys /\ live \in SUBSET Keys
      /\ excused \in BOOLEAN
      /\ k.op \in {"set", "delete", "pattern"} /\ k.at = "write"
      /\ k.op \in {"set", "delete"} => k.key \in Keys
      /\ k.op = "pattern" => k.key \in Patterns
      /\ index \in Index /\ k.copy \in Index
      /\ IsFiniteSet(KeysOf(k.copy))
  BY DEF IndexWritten, KeysInv, KeyTypeOK, StagesInv, IndexInv, NoCall, Call
<1>2. KeysOf(k.copy) \in SUBSET Keys
  BY <1>1, KeysOfIndex
<1>3. /\ k.op = "set" => index' = Add(k.key, k.copy) /\ live' = live \cup {k.key}
      /\ k.op # "set" => index' = Remaining(k.key, k.copy) /\ live' = live
      /\ excused' = (excused \/ Raced(c))
      /\ call' = [call EXCEPT ![c] = NoCall]
      /\ UNCHANGED <<stored, calls>>
  BY DEF IndexWritten, End
<1> HIDE DEF k
<1>4. /\ call' \in [Clients -> Call]
      /\ call'[c] = NoCall
      /\ \A d \in Clients \ {c} : call'[d] = call[d]
  BY <1>1, <1>3 DEF NoCall, Call, Index
<1>5. ASSUME k.op = "set"
      PROVE  index' \in Index /\ KeysOf(index') = KeysOf(k.copy) \cup {k.key} /\ IsFiniteSet(KeysOf(index'))
  <2>1. index' = KeysOf(k.copy) \cup {k.key} /\ index' \in SUBSET Keys /\ index' \in Index
    BY <1>1, <1>2, <1>3, <1>5 DEF Add, Index
  <2>2. KeysOf(index') = index'
    BY <2>1, KeysOfIndex
  <2>3. IsFiniteSet(KeysOf(k.copy) \cup {k.key})
    BY <1>1, FS_AddElement
  <2>4. QED
    BY <2>1, <2>2, <2>3
<1>6. ASSUME k.op # "set"
      PROVE  /\ index' \in Index
             /\ \/ KeysOf(index') = {} /\ KeysOf(k.copy) = {}
                \/ KeysOf(index') = Drop(k.key, KeysOf(k.copy))
             /\ IsFiniteSet(KeysOf(index'))
  <2>1. CASE index' = NoIndex /\ k.copy = NoIndex
    <3>1. KeysOf(NoIndex) = {}
      BY DEF KeysOf
    <3>2. QED
      BY <2>1, <3>1, FS_EmptySet DEF Index
  <2>2. CASE index' = Drop(k.key, KeysOf(k.copy))
    <3>1. Drop(k.key, KeysOf(k.copy)) \subseteq KeysOf(k.copy)
      BY DropShrinks
    <3>2. index' \in SUBSET Keys /\ index' \in Index /\ IsFiniteSet(index')
      BY <1>1, <1>2, <2>2, <3>1, FS_Subset DEF Index
    <3>3. QED
      BY <2>2, <3>2, KeysOfIndex
  <2>3. QED
    BY <1>3, <1>6, <2>1, <2>2 DEF Remaining
<1>7. KeyTypeOK'
  BY <1>1, <1>3, <1>4, <1>5, <1>6 DEF KeysInv, KeyTypeOK
<1>8. StagesInv'
  BY <1>4 DEF KeysInv, StagesInv, NoCall
<1>9. IndexInv'
  <2>1. IsFiniteSet(KeysOf(NoCall.copy))
    BY FS_EmptySet DEF NoCall, KeysOf
  <2>2. QED
    BY <1>4, <1>5, <1>6, <2>1 DEF KeysInv, IndexInv
<1>10. ASSUME ~excused'
       PROVE  /\ ~excused /\ ~Raced(c) /\ CopyInv(c)
              /\ live \subseteq stored \cap KeysOf(index)
              /\ k.copy = index
              /\ Plain(k.op, k.key, KeysOf(index))
  BY <1>1, <1>3, <1>10 DEF KeysInv, Kept, RacesInv, CopyInv, k
<1>11. Kept'
  <2>1. SUFFICES ASSUME ~excused' PROVE live' \subseteq stored' \cap KeysOf(index')
    BY DEF Kept
  <2>2. CASE k.op = "set"
    <3>1. k.key \in stored
      BY <1>1, <1>10, <2>1, <2>2 DEF CopyInv, k
    <3>2. QED
      BY <1>3, <1>5, <1>10, <2>1, <2>2, <3>1
  <2>3. CASE k.op # "set"
    <3>1. ASSUME NEW v \in live PROVE v \in KeysOf(index) /\ ~Matches(k.key, v)
      <4>1. live \cap {w \in Keys : Matches(k.key, w)} = {}
        BY <1>1, <1>10, <2>1, <2>3 DEF CopyInv, Meant, k
      <4>2. QED
        BY <1>1, <1>10, <2>1, <3>1, <4>1
    <3>2. \A v \in live : v \in Drop(k.key, KeysOf(index))
      BY <1>1, <1>2, <1>10, <2>1, <2>3, <3>1, DropSpares
    <3>3. live \subseteq KeysOf(index')
      BY <1>6, <1>10, <2>1, <2>3, <3>1, <3>2
    <3>4. QED
      BY <1>3, <1>10, <2>1, <2>3, <3>3
  <2>4. QED
    BY <2>2, <2>3
<1>12. RacesInv'
  <2>1. SUFFICES ASSUME ~excused', NEW d \in Clients PROVE CopyInv(d)'
    BY DEF RacesInv
  <2>2. CASE d = c
    BY <1>4, <2>2 DEF CopyInv, NoCall
  <2>3. CASE d # c
    <3>1. call[d].at \notin {"drop", "write"} /\ CopyInv(d)
      BY <1>10, <2>1, <2>3 DEF Raced, KeysInv, RacesInv
    <3>2. QED
      BY <1>3, <1>4, <2>3, <3>1 DEF CopyInv
  <2>4. QED
    BY <2>2, <2>3
<1>13. QED
  BY <1>7, <1>8, <1>9, <1>11, <1>12 DEF KeysInv

(* The server drops a value.                                               *)
LEMMA EvictedKeeps ==
    ASSUME KeysInv, NEW key \in Keys, Evicted(key)
    PROVE  KeysInv'
<1>1. /\ stored' = stored \ {key} /\ live' = live \ {key}
      /\ excused' = (excused \/ Crossed({key}))
      /\ UNCHANGED <<index, call, calls>>
  BY DEF Evicted
<1>2. KeyTypeOK' /\ StagesInv' /\ IndexInv'
  BY <1>1 DEF KeysInv, KeyTypeOK, StagesInv, IndexInv
<1>3. Kept'
  BY <1>1 DEF KeysInv, Kept
<1>4. RacesInv'
  <2>1. SUFFICES ASSUME ~excused', NEW d \in Clients PROVE CopyInv(d)'
    BY DEF RacesInv
  <2>2. CopyInv(d) /\ ~Crossed({key})
    BY <1>1, <2>1 DEF KeysInv, RacesInv
  <2>3. call[d].op = "set" /\ call[d].at # "value" => call[d].key # key
    BY <2>2 DEF Crossed
  <2>4. QED
    BY <1>1, <2>2, <2>3, CopyStays
<1>5. QED
  BY <1>2, <1>3, <1>4 DEF KeysInv

(* ... or the index.                                                       *)
LEMMA IndexEvictedKeeps ==
    ASSUME KeysInv, IndexEvicted
    PROVE  KeysInv'
<1>1. index' = NoIndex /\ excused' = TRUE /\ UNCHANGED <<stored, call, calls, live>>
  BY DEF IndexEvicted
<1>2. KeyTypeOK'
  BY <1>1 DEF KeysInv, KeyTypeOK, Index
<1>3. StagesInv'
  BY <1>1 DEF KeysInv, StagesInv
<1>4. IndexInv'
  BY <1>1, FS_EmptySet DEF KeysInv, IndexInv, KeysOf
<1>5. Kept' /\ RacesInv'
  BY <1>1 DEF Kept, RacesInv
<1>6. QED
  BY <1>2, <1>3, <1>4, <1>5 DEF KeysInv

(* The conjunction is inductive.                                           *)
LEMMA KeysStep == KeysInv /\ [KeyNext]_keyVars => KeysInv'
<1> SUFFICES ASSUME KeysInv, [KeyNext]_keyVars PROVE KeysInv'
  OBVIOUS
<1>1. CASE UNCHANGED keyVars
  BY <1>1 DEF keyVars, KeysInv, KeyTypeOK, StagesInv, IndexInv, Kept, RacesInv, CopyInv, Meant
<1>2. ASSUME NEW c \in Clients, NEW key \in Keys, SetKey(c, key) \/ GetKey(c, key) \/ DeleteKey(c, key)
      PROVE  KeysInv'
  BY <1>2, BeginKeeps DEF SetKey, GetKey, DeleteKey
<1>3. ASSUME NEW c \in Clients, NEW p \in Patterns, DeletePattern(c, p)
      PROVE  KeysInv'
  BY <1>3, BeginKeeps DEF DeletePattern
<1>4. QED
  BY <1>1, <1>2, <1>3, ValueSetKeeps, ReadsKeep, ValuesDeletedKeeps, IndexWrittenKeeps,
     FailedKeeps, EvictedKeeps, IndexEvictedKeeps DEF KeyNext

(* Every reachable state satisfies the inductive invariant of the keys.    *)
THEOREM KeysInvariance == KeySpec => []KeysInv
BY KeysInit, KeysStep, PTL DEF KeySpec

(* Every reachable state of the memcached client is of its type.           *)
THEOREM KeyTypeCorrect == KeySpec => []KeyTypeOK
<1>1. KeysInv => KeyTypeOK
  BY DEF KeysInv
<1>2. QED
  BY <1>1, KeysInvariance, PTL

(* What set() of the memcached client has stored stays stored and indexed  *)
(* until it is deleted or evicted: get() drops no value that was set, and  *)
(* a pattern finds all it means, unless calls raced, a key was a part of   *)
(* another, or the server dropped the index.                               *)
THEOREM KeysStayKept == KeySpec => []Kept
<1>1. KeysInv => Kept
  BY DEF KeysInv
<1>2. QED
  BY <1>1, KeysInvariance, PTL

(* Whatever tree the calls leave: findKeyInStorage() finds in it what a    *)
(* search of a set of keys would, and deleteKeyInStorage() of a key that is*)
(* alone takes that key only.                                              *)
THEOREM TreeAlwaysIsASet == KeySpec => []TreeIsASet
<1>1. KeysInv => TreeIsASet
  <2> SUFFICES ASSUME KeysInv PROVE TreeIsASet
    OBVIOUS
  <2> PICK t : t = KeysOf(index)
    OBVIOUS
  <2>1. t \in SUBSET Keys /\ IsFiniteSet(t) /\ t \subseteq Seq(Words)
    BY KeysOfIndex, KeysAreSeqs DEF KeysInv, KeyTypeOK, IndexInv
  <2>2. ASSUME NEW p \in Keys \cup Patterns, Len(p) > 1
        PROVE  Find(p, t) = {v \in t : Matches(p, v) /\ (Last(p) = Star \/ Beneath(t, v) = {v})}
    BY <2>1, <2>2, FoundAre
  <2>3. \A key \in t : Alone(key, t) => Drop(key, t) = t \ {key}
    BY <2>1, DropOfKey
  <2>4. QED
    BY <2>2, <2>3 DEF TreeIsASet
<1>2. QED
  BY <1>1, KeysInvariance, PTL
=============================================================================
