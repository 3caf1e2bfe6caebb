-------------------------------- MODULE Cache --------------------------------
(***************************************************************************)
(* The cache (lib/cache/cache.js) as wrapWithCache() and delete() use it,  *)
(* over redis (lib/cache/clients/redis.js), with clients/void.js to fail   *)
(* over to.                                                                *)
(*                                                                         *)
(* One key is followed.  Behind it is a source of data whose versions the  *)
(* wrapped action computes its results from; the application calls         *)
(* delete() for what it changed.  Redis executes the commands of its one   *)
(* connection in order, and keeps those it is given while the connection   *)
(* is down, until an attempt to connect fails.  A command answers the      *)
(* request that waits for it, unless that was given up before.  The void   *)
(* client answers within the call.                                         *)
(***************************************************************************)
EXTENDS SlowRequests, Sequences

CONSTANTS
    Calls,          \* calls of the wrapped function that may be under way at once
    NoCall,         \* nobody's: the command of a set() or delete()
    None,           \* no entry
    Memory,         \* the values that useMemory of the void client may have
    MaxVersion,     \* bound: changes of the data
    MaxPipe         \* bound: commands under way at redis

ASSUME NoCallAssumption == NoCall \notin Calls
ASSUME MemoryAssumption == Memory \subseteq BOOLEAN
ASSUME BoundAssumption == MaxVersion \in Nat /\ MaxPipe \in Nat

Versions == 0 .. MaxVersion

(* A result with the version it is made from; excused is history, see below. *)
Entry == [version : Versions, excused : BOOLEAN]

ASSUME NoneAssumption == None \notin Entry

Command == [op : {"get", "set", "keys", "del"}, call : Calls \cup {NoCall},
            entry : Entry, timed : BOOLEAN]

(* A call waits for the cache, then for its action, which began when the   *)
(* data had this version; again says that the cache answered it once more. *)
Call == [at : {"free", "get", "action"}, began : Versions, again : BOOLEAN]

VARIABLES
    useMemory,      \* of the void client
    failOver,       \* failOverMode: client is failOverClient
    down,           \* the connection to redis is down
    reported,       \* isErrorHappened: waiting for 'connect'
    pipe,           \* commands under way at redis, oldest first
    stored,         \* the entry at redis
    memory,         \* the entry at the void client
    call,           \* state of each call
    data,           \* version of the data
    asked,          \* history: the version that delete() was last called for
    floor           \* history: the last that a delete() told somebody is done

vars == <<slowVars, useMemory, failOver, down, reported, pipe, stored, memory,
          call, data, asked, floor>>

TypeOK ==
    /\ SlowTypeOK
    /\ useMemory \in Memory
    /\ failOver \in BOOLEAN
    /\ down \in BOOLEAN
    /\ reported \in BOOLEAN
    /\ pipe \in Seq(Command)
    /\ stored \in Entry \cup {None}
    /\ memory \in Entry \cup {None}
    /\ call \in [Calls -> Call]
    /\ data \in Versions
    /\ asked \in Versions
    /\ floor \in Versions

Free == [at |-> "free", began |-> 0, again |-> FALSE]

Init ==
    /\ SlowInit
    /\ useMemory \in Memory
    /\ failOver = FALSE
    /\ down = FALSE
    /\ reported = FALSE
    /\ pipe = <<>>
    /\ stored = None
    /\ memory = None
    /\ call = [c \in Calls |-> Free]
    /\ data = 0
    /\ asked = 0
    /\ floor = 0

switchVars == <<useMemory, failOver, down, reported>>

-----------------------------------------------------------------------------

(* client.get(), client.set() and client.delete() of redis write a command. *)
Send(op, c, entry) ==
    pipe' = Append(pipe, [op |-> op, call |-> c, entry |-> entry, timed |-> TRUE])

Room == Len(pipe) < MaxPipe

(* ... and those of the void client, which knows no patterns.              *)
VoidGet == IF useMemory THEN memory ELSE None

VoidSet(entry) == memory' = IF useMemory THEN entry ELSE memory

Plain(v) == [version |-> v, excused |-> FALSE]

(* history: an entry that is older than what a delete() was called for     *)
(* before it is put, or that the delete() which reports v done has not     *)
(* reached, is excused for being older.                                    *)
Result(v) == [version |-> v, excused |-> v < asked]

Excuse(e, v) ==
    IF e = None THEN None ELSE [e EXCEPT !.excused = @ \/ e.version < v]

ExcusePipe(p, v) ==
    [k \in DOMAIN p |->
        IF p[k].op = "set" THEN [p[k] EXCEPT !.entry = Excuse(@, v)] ELSE p[k]]

VoidDelete(pattern, v) == memory' = IF pattern THEN Excuse(memory, v) ELSE None

AtLeast(v) == floor' = IF v > floor THEN v ELSE floor

(* What the cache's answer does to a call: with a result or an error it is *)
(* done, without them its action begins.                                   *)
Found(q) == [Free EXCEPT !.again = q.at # "get"]

Missed(q) == [at |-> "action", began |-> data, again |-> q.at # "get"]

Given(q, entry) == IF entry # None THEN Found(q) ELSE Missed(q)

-----------------------------------------------------------------------------
(* The application.                                                        *)

(* get() and set() of the cache.  For a set() nobody waits. *)
Asking == [Free EXCEPT !.at = "get"]

Get(c) ==
    /\ IF failOver
       THEN call' = [call EXCEPT ![c] = Given(Asking, VoidGet)] /\ UNCHANGED pipe
       ELSE call' = [call EXCEPT ![c] = Asking] /\ Room /\ Send("get", c, Plain(0))
    /\ CountAnswer(failOver)

Set(v) ==
    /\ IF failOver
       THEN VoidSet(Result(v)) /\ UNCHANGED pipe
       ELSE Room /\ Send("set", NoCall, Result(v)) /\ UNCHANGED memory
    /\ CountAnswer(failOver)

(* The wrapped function is called. *)
Enter(c) ==
    /\ call[c].at = "free"
    /\ \A k \in DOMAIN pipe : pipe[k].call # c
    /\ Get(c)
    /\ UNCHANGED <<switchVars, stored, memory, data, asked, floor>>

(* The action ends; its result is written to the client of that moment. *)
ActionDone(c, ok) ==
    /\ call[c].at = "action"
    /\ call' = [call EXCEPT ![c] = Free]
    /\ IF ok THEN \E v \in call[c].began .. data : Set(v)
             ELSE UNCHANGED <<slowVars, pipe, memory>>
    /\ UNCHANGED <<switchVars, stored, data, asked, floor>>

Change ==
    /\ data < MaxVersion
    /\ data' = data + 1
    /\ UNCHANGED <<slowVars, switchVars, pipe, stored, memory, call, asked, floor>>

(* delete(): of the key, or of a pattern that it matches, for which redis  *)
(* is asked for the keys first.  Nobody is told when it has no callback,   *)
(* or when the callback was given in the place of isPattern: no version is *)
(* reported then but the first, which every entry has.                     *)
Delete(pattern, told) ==
    LET v == IF told THEN data ELSE 0 IN
    /\ asked' = IF told THEN data ELSE asked
    /\ IF failOver
       THEN /\ VoidDelete(pattern, v)
            /\ stored' = Excuse(stored, v)
            /\ pipe' = ExcusePipe(pipe, v)
            /\ AtLeast(v)
       ELSE /\ Room
            /\ Send(IF pattern THEN "keys" ELSE "del", NoCall, Plain(v))
            /\ UNCHANGED <<memory, stored, floor>>
    /\ CountAnswer(failOver)
    /\ UNCHANGED <<switchVars, call, data>>

-----------------------------------------------------------------------------
(* Redis answers.                                                          *)

(* The callback of get(), if the request was not given up before. *)
ReplyAgain(m) ==
    IF m.op = "get" THEN [call EXCEPT ![m.call] = Given(@, stored)] ELSE call

Reply(m) ==
    IF m.op = "get" /\ m.timed THEN [call EXCEPT ![m.call] = Given(@, stored)]
                               ELSE call

(* A delete() reports that it is done, if somebody is told. *)
Deleted(m) ==
    IF m.timed /\ m.op \in {"keys", "del"}
    THEN AtLeast(m.entry.version) /\ memory' = Excuse(memory, m.entry.version)
    ELSE UNCHANGED <<floor, memory>>

(* The keys that match a pattern are deleted one by one, and only then is  *)
(* the delete() done.                                                      *)
ListedIsDone(m) == Deleted(m)

Listed(m) == IF stored = None THEN Deleted(m) ELSE UNCHANGED <<floor, memory>>

Answer ==
    LET m == Head(pipe) IN
    /\ ~down
    /\ pipe # <<>>
    /\ pipe' = IF m.op = "keys" /\ stored # None
               THEN Append(Tail(pipe), [m EXCEPT !.op = "del"]) ELSE Tail(pipe)
    /\ call' = Reply(m)
    /\ stored' = CASE m.op = "set" -> m.entry
                   [] m.op = "del" -> None
                   [] OTHER -> stored
    /\ IF m.op = "keys" THEN Listed(m) ELSE Deleted(m)
    /\ CountAnswer(m.timed /\ ~(m.op = "keys" /\ stored # None))
    /\ UNCHANGED <<switchVars, data, asked>>

(* An error goes to the callback: of a get(), to that of the call. *)
Refused(ms) ==
    LET told == {ms[k].call : k \in {j \in DOMAIN ms : ms[j].op = "get" /\ ms[j].timed}}
    IN /\ call' = [c \in Calls |-> IF c \in told THEN Found(call[c]) ELSE call[c]]
       /\ CountAnswer(\E k \in DOMAIN ms : ms[k].timed)

AnswerError ==
    /\ ~down
    /\ pipe # <<>>
    /\ pipe' = Tail(pipe)
    /\ Refused(<<Head(pipe)>>)
    /\ UNCHANGED <<switchVars, stored, memory, data, asked, floor>>

Evict ==
    /\ \/ stored # None /\ stored' = None /\ UNCHANGED memory
       \/ memory # None /\ memory' = None /\ UNCHANGED stored
    /\ UNCHANGED <<slowVars, switchVars, pipe, call, data, asked, floor>>

-----------------------------------------------------------------------------
(* The clients are switched.                                               *)

OnError == failOver' = TRUE

OnConnect == failOver' = FALSE

(* The timer of a request, whose callback is then called without an error  *)
(* and without a result.                                                   *)
GiveUpQuietly(m) == UNCHANGED <<call, stored, memory, floor>>

GiveUp(m) ==
    CASE m.op = "get" -> /\ call' = [call EXCEPT ![m.call] = Missed(@)]
                         /\ UNCHANGED <<stored, memory, floor>>
      [] m.op = "set" -> UNCHANGED <<call, stored, memory, floor>>
      [] OTHER -> /\ AtLeast(m.entry.version)
                  /\ stored' = Excuse(stored, m.entry.version)
                  /\ memory' = Excuse(memory, m.entry.version)
                  /\ UNCHANGED call

Expire(k) ==
    LET m == pipe[k]
        late == [pipe EXCEPT ![k].timed = FALSE]
    IN
    /\ m.timed
    /\ pipe' = IF m.op \in {"keys", "del"} THEN ExcusePipe(late, m.entry.version) ELSE late
    /\ CountSlow
    /\ IF Begins THEN OnError ELSE UNCHANGED failOver
    /\ GiveUp(m)
    /\ UNCHANGED <<useMemory, down, reported, data, asked>>

SlowEnds ==
    /\ SlowOver
    /\ OnConnect
    /\ UNCHANGED <<useMemory, down, reported, pipe, stored, memory, call, data, asked, floor>>

(* The connection breaks, or an attempt to connect again fails: what was   *)
(* sent, or kept for later, is refused, though redis may have executed the *)
(* first commands of what was sent, of which the last that stored or       *)
(* deleted decides.                                                        *)
Executed(m, e) ==
    CASE m.op = "set" -> m.entry
      [] m.op = "del" -> None
      [] OTHER -> e

Break ==
    /\ down' = TRUE
    /\ \/ UNCHANGED stored
       \/ ~down /\ \E k \in DOMAIN pipe : stored' = Executed(pipe[k], stored)
    /\ pipe' = <<>>
    /\ Refused(pipe)
    /\ UNCHANGED <<useMemory, failOver, reported, memory, data, asked, floor>>

(* The client says so by 'error', of which the first counts. *)
Report ==
    /\ down
    /\ ~reported
    /\ reported' = TRUE
    /\ OnError
    /\ UNCHANGED <<slowVars, useMemory, down, pipe, stored, memory, call, data, asked, floor>>

Reconnect ==
    /\ down
    /\ down' = FALSE
    /\ reported' = FALSE
    /\ IF reported THEN OnConnect ELSE UNCHANGED failOver
    /\ UNCHANGED <<slowVars, useMemory, pipe, stored, memory, call, data, asked, floor>>

Next ==
    \/ \E c \in Calls :
          \/ Enter(c)
          \/ \E ok \in BOOLEAN : ActionDone(c, ok)
    \/ Change
    \/ \E pattern, told \in BOOLEAN : Delete(pattern, told)
    \/ Answer
    \/ AnswerError
    \/ Evict
    \/ \E k \in DOMAIN pipe : Expire(k)
    \/ SlowEnds
    \/ Break
    \/ Report
    \/ Reconnect

(* Timers run out, and the wrapped action answers. *)
Fairness ==
    \A c \in Calls :
        /\ WF_vars(\E k \in DOMAIN pipe : pipe[k].call = c /\ Expire(k))
        /\ WF_vars(\E ok \in BOOLEAN : ActionDone(c, ok))

Spec == Init /\ [][Next]_vars

FairSpec == Spec /\ Fairness

-----------------------------------------------------------------------------

(* The cache answers a call once, so that it runs its action once and its  *)
(* callback is called once: an answer, an error and the timer may all come *)
(* to it, in any order and in the middle of its action.                    *)
DoneOnce == \A c \in Calls : ~call[c].again

(* No entry is older than what a delete() has reported done, but one that  *)
(* an action computed before it and that was written after it, or one that *)
(* the delete() did not reach: it went to the other client, its timer ran  *)
(* out, or it was a pattern for the void client.                           *)
Fresh ==
    \A e \in {stored, memory} :
        e # None /\ ~e.excused => e.version >= floor

(* A call ends, though redis never answers. *)
CallsEnd == \A c \in Calls : call[c].at # "free" ~> call[c].at = "free"
=============================================================================
