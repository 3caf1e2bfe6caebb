---------------------------- MODULE SessionStore ----------------------------
(***************************************************************************)
(* The session store (lib/cache/sessionClientStore.js) with the two things *)
(* that may switch it between its clients: SlowRequests, and               *)
(* setupDegradation of lib/cache/clients/memcached.js, which watches the   *)
(* server.                                                                 *)
(*                                                                         *)
(* The default client (memcached) answers late, with an error or never;    *)
(* its calls use a pool of connections, and overtake each other.  The      *)
(* fail-over client (clients/void.js with memory) answers within the call. *)
(* One session is followed; its content is a version number, 0 for none,   *)
(* and neither copy reaches its time to live.                              *)
(***************************************************************************)
EXTENDS SlowRequests, FiniteSets, Sequences, SequencesExt

CONSTANTS
    Requests,       \* requests that may be under way at once
    NoRequest,      \* stands for no request: nobody waits for the call
    Tries,          \* reconnection: attempts of one reconnect()
    Lazy,           \* the values that isLazyFailOver may have
    MaxVersion,     \* bound: calls of set()
    MaxWrites       \* bound: writes under way at the default client

ASSUME NoRequestAssumption == NoRequest \notin Requests
ASSUME TriesAssumption == Tries \in Nat \ {0}
ASSUME LazyAssumption == Lazy \subseteq BOOLEAN
ASSUME BoundAssumption == MaxVersion \in Nat /\ MaxWrites \in Nat

Versions == 0 .. MaxVersion

(* A request is waiting until its callback is called; timed says that its  *)
(* timer runs, reading and again that the default client was asked to read *)
(* for it, at first and after the timer; calls counts calls of callback,   *)
(* and threw says that it threw where get() or set() catches it.           *)
Request == [waiting : BOOLEAN, timed : BOOLEAN, get : BOOLEAN,
            reading : BOOLEAN, again : BOOLEAN, threw : BOOLEAN, calls : 0 .. 2]

Write == [version : Versions, req : Requests \cup {NoRequest}]

VARIABLES
    lazy,           \* isLazyFailOver: the fail-over client gets no writes
    failOver,       \* failOverMode: client is the fail-over client, and failOverClient the default one
    issue,          \* isErrorHappened: waiting for 'connected'
    tries,          \* attempts that the running reconnect() has left
    req,            \* state of each request
    writes,         \* writes under way at the default client, oldest first
    primary,        \* the session at the default client
    memory,         \* the session at the fail-over client
    latest,         \* history: the version the application wrote last
    version,        \* history: versions written so far
    missed,         \* history: a write to the default client was lost, overtaken or left out
    ended           \* history: slow requests ended the fail-over during an issue

vars == <<slowVars, lazy, failOver, issue, tries, req, writes, primary, memory,
          latest, version, missed, ended>>

TypeOK ==
    /\ lazy \in Lazy
    /\ failOver \in BOOLEAN
    /\ SlowTypeOK
    /\ issue \in BOOLEAN
    /\ tries \in 0 .. Tries
    /\ req \in [Requests -> Request]
    /\ writes \in Seq(Write)
    /\ primary \in Versions
    /\ memory \in Versions
    /\ latest \in Versions
    /\ version \in Versions
    /\ missed \in BOOLEAN
    /\ ended \in BOOLEAN

Free == [waiting |-> FALSE, timed |-> FALSE, get |-> FALSE,
         reading |-> FALSE, again |-> FALSE, threw |-> FALSE, calls |-> 0]

Init ==
    /\ lazy \in Lazy
    /\ failOver = FALSE
    /\ SlowInit
    /\ issue = FALSE
    /\ tries = 0
    /\ req = [r \in Requests |-> Free]
    /\ writes = <<>>
    /\ primary = 0
    /\ memory = 0
    /\ latest = 0
    /\ version = 0
    /\ missed = FALSE
    /\ ended = FALSE

switchVars == <<lazy, failOver, issue, tries, ended>>

dataVars == <<writes, primary, memory, latest, version, missed>>

-----------------------------------------------------------------------------

(* A request whose calls are all over may be taken for another. *)
Idle(r) ==
    /\ ~req[r].waiting /\ ~req[r].reading /\ ~req[r].again
    /\ \A k \in DOMAIN writes : writes[k].req # r

WaitingUntimed == [Free EXCEPT !.waiting = TRUE]

Waiting == [Free EXCEPT !.waiting = TRUE, !.timed = TRUE]

(* A callback that throws is called again with what it threw. *)
Answered(q, throws) ==
    [q EXCEPT !.waiting = FALSE, !.timed = FALSE, !.threw = throws,
              !.calls = q.calls + (IF throws THEN 2 ELSE 1)]

(* get(): the fail-over client answers at once. *)
Get(r, throws) ==
    /\ Idle(r)
    /\ throws => failOver
    /\ req' = [req EXCEPT ![r] =
                 IF failOver THEN Answered(Waiting, throws)
                 ELSE [Waiting EXCEPT !.get = TRUE, !.reading = TRUE]]
    /\ CountAnswer(failOver)
    /\ UNCHANGED <<switchVars, dataVars>>

(* What a request writes to both clients, or, lazy, to client alone. *)
OnlyOne == failOver

InMemory == failOver \/ ~lazy

AtPrimary == ~failOver \/ ~lazy

Put(v, r, cut) ==
    /\ Len(writes) < MaxWrites
    /\ latest' = v
    /\ memory' = IF InMemory THEN v ELSE memory
    /\ writes' = IF AtPrimary /\ ~cut
                 THEN Append(writes, [version |-> v,
                                      req |-> IF failOver THEN NoRequest ELSE r])
                 ELSE writes
    /\ missed' = (missed \/ (AtPrimary /\ cut))
    /\ UNCHANGED primary

(* A callback that throws keeps set() from writing to the second client. *)
Set(r, throws) ==
    /\ Idle(r)
    /\ throws => failOver
    /\ version < MaxVersion
    /\ version' = version + 1
    /\ Put(version', r, throws)
    /\ req' = [req EXCEPT ![r] = IF failOver THEN Answered(Waiting, throws) ELSE Waiting]
    /\ CountAnswer(failOver)
    /\ UNCHANGED switchVars

(* destroy(): delete() of the fail-over client takes the callback for its  *)
(* isPattern argument, so that only the timer answers the request.         *)
Destroy(r) ==
    /\ Idle(r)
    /\ Put(0, r, FALSE)
    /\ req' = [req EXCEPT ![r] = Waiting]
    /\ UNCHANGED <<slowVars, switchVars, version>>

(* The handler's callback: an answer after the timer is ignored. *)
DoneAgain(r, throws) ==
    /\ req' = [req EXCEPT ![r] = Answered([@ EXCEPT !.reading = FALSE], throws)]
    /\ CountAnswer(TRUE)

Done(r, throws) ==
    /\ req' = [req EXCEPT ![r] = IF @.timed THEN Answered([@ EXCEPT !.reading = FALSE], throws)
                                 ELSE [@ EXCEPT !.reading = FALSE]]
    /\ CountAnswer(req[r].timed)

(* The default client's answers to reads, or its errors. *)
ReadAnswered(r, throws) ==
    /\ req[r].reading
    /\ throws => req[r].timed
    /\ Done(r, throws)
    /\ UNCHANGED <<switchVars, dataVars>>

(* The second read has no timer, and answers the request by itself. *)
ReadAgainAnswered(r, throws) ==
    /\ req[r].again
    /\ req' = [req EXCEPT ![r] = Answered([@ EXCEPT !.again = FALSE], throws)]
    /\ UNCHANGED <<slowVars, switchVars, dataVars>>

(* ... to writes, of which a request may wait for the answer. *)
WriteAnswered(k, stored) ==
    LET w == writes[k] IN
    /\ writes' = RemoveAt(writes, k)
    /\ primary' = IF stored THEN w.version ELSE primary
    /\ missed' = (missed \/ ~stored \/ k # 1)
    /\ IF w.req = NoRequest THEN UNCHANGED <<slowVars, req>> ELSE Done(w.req, FALSE)
    /\ UNCHANGED <<switchVars, memory, latest, version>>

(* ... and its silence: a call that nothing comes back from. *)
Unanswered(r) ==
    /\ req[r].reading
    /\ req' = [req EXCEPT ![r].reading = FALSE]
    /\ UNCHANGED <<slowVars, switchVars, dataVars>>

WriteUnanswered(k, stored) ==
    /\ writes' = RemoveAt(writes, k)
    /\ primary' = IF stored THEN writes[k].version ELSE primary
    /\ missed' = (missed \/ ~stored \/ k # 1)
    /\ UNCHANGED <<slowVars, switchVars, req, memory, latest, version>>

(* onError() and onConnect(), which every cause of a switch shares. *)
OnError == failOver' = TRUE

OnConnect == failOver' = FALSE

(* A request's timer.  A get() is then given to failOverClient, whichever  *)
(* that is now.                                                            *)
Expire(r, throws) ==
    /\ req[r].timed
    /\ CountSlow
    /\ IF Begins THEN OnError ELSE UNCHANGED failOver
    /\ throws => req[r].get /\ ~lazy /\ ~failOver'
    /\ req' = [req EXCEPT ![r] =
                 IF ~req[r].get THEN Answered(@, FALSE)
                 ELSE IF lazy THEN [@ EXCEPT !.timed = FALSE]
                 ELSE IF failOver' THEN [@ EXCEPT !.timed = FALSE, !.again = TRUE]
                 ELSE Answered(@, throws)]
    /\ UNCHANGED <<lazy, issue, tries, ended, dataVars>>

(* The timer of the slow fail-over. *)
SlowEnds ==
    /\ SlowOver
    /\ OnConnect
    /\ ended' = issue
    /\ UNCHANGED <<lazy, issue, tries, req, dataVars>>

(* The client reports an issue; the first starts a reconnect(). *)
Issue ==
    /\ ~issue
    /\ issue' = TRUE
    /\ OnError
    /\ tries' = Tries
    /\ UNCHANGED <<slowVars, lazy, ended, req, dataVars>>

(* An attempt to reconnect: it fails, the last one for good, ... *)
ReconnectFails ==
    /\ tries > 0
    /\ tries' = tries - 1
    /\ UNCHANGED <<slowVars, lazy, failOver, issue, ended, req, dataVars>>

(* ... or the client is 'connected'. *)
ReconnectInIssue ==
    /\ tries > 0
    /\ tries' = 0
    /\ OnConnect
    /\ ended' = FALSE
    /\ UNCHANGED <<slowVars, lazy, issue, req, dataVars>>

Reconnect ==
    /\ tries > 0
    /\ tries' = 0
    /\ issue' = FALSE
    /\ OnConnect
    /\ ended' = FALSE
    /\ UNCHANGED <<slowVars, lazy, req, dataVars>>

Next ==
    \/ \E r \in Requests :
          \/ Destroy(r)
          \/ Unanswered(r)
          \/ \E throws \in BOOLEAN :
                \/ Get(r, throws)
                \/ Set(r, throws)
                \/ ReadAnswered(r, throws)
                \/ ReadAgainAnswered(r, throws)
                \/ Expire(r, throws)
    \/ \E k \in DOMAIN writes, stored \in BOOLEAN :
          WriteAnswered(k, stored) \/ WriteUnanswered(k, stored)
    \/ SlowEnds
    \/ Issue
    \/ ReconnectFails
    \/ Reconnect

(* Timers run out. *)
Fairness ==
    /\ \A r \in Requests : WF_vars(\E throws \in BOOLEAN : Expire(r, throws))
    /\ WF_vars(SlowEnds)
    /\ WF_vars(ReconnectFails \/ Reconnect)

Spec == Init /\ [][Next]_vars

FairSpec == Spec /\ Fairness

-----------------------------------------------------------------------------

(* The callback of a request is called once, though an answer, the timer   *)
(* and a second read may all come to it, and once more only when it threw. *)
AnsweredOnce == \A r \in Requests : req[r].calls <= IF req[r].threw THEN 2 ELSE 1

(* During an issue the fail-over client is used, unless slow requests had  *)
(* begun a fail-over as well, whose end ended both.                        *)
FailOverHolds == issue /\ ~ended => failOver

(* The fail-over client has what the application wrote last, so that it    *)
(* can take over at any moment; the default client has it too, when no     *)
(* write to it is under way, was lost or overtaken by another.             *)
CopiesAgree ==
    ~lazy => /\ memory = latest
             /\ writes = <<>> /\ ~missed => primary = latest

(* No fail-over lasts: it ends, or reconnect() gave up. *)
FailOverEnds == failOver ~> (~failOver \/ (issue /\ tries = 0))

(* Whatever the clients say or do not say, a request is answered, but for  *)
(* a get() whose timer ran out: a lazy store never answers it, and one     *)
(* that reads again has no timer, and in fail-over mode it asks the        *)
(* default client, which may be the silent one.                            *)
AnsweredInTime ==
    \A r \in Requests :
        req[r].waiting
        ~> (~req[r].waiting \/ req[r].again \/ (lazy /\ req[r].get /\ ~req[r].timed))
=============================================================================
