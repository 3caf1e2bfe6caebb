---------------------------- MODULE SlowRequests ----------------------------
(***************************************************************************)
(* requestTimeoutMixing of lib/cache/cache.js: what the cache and the      *)
(* session store each have an instance of.  A request is given up when its *)
(* timer runs out before its answer; SlowCount of them in a row begin a    *)
(* slow fail-over, which a timer ends.  The load balancer makes the timers *)
(* longer or shorter: they run out at any time.                            *)
(***************************************************************************)
EXTENDS Naturals

CONSTANT SlowCount      \* slowRequestCount

ASSUME SlowCountAssumption == SlowCount \in Nat \ {0}

VARIABLES
    slow,           \* failOverMode of the mixing, whose timer is running
    retry           \* retryCount

slowVars == <<slow, retry>>

SlowTypeOK == slow \in BOOLEAN /\ retry \in 0 .. SlowCount

SlowInit == slow = FALSE /\ retry = 0

(* A request is answered; only in time it counts. *)
CountAnswer(inTime) ==
    /\ retry' = IF inTime THEN 0 ELSE retry
    /\ UNCHANGED slow

(* A request's timer: the SlowCount-th in a row begins a slow fail-over. *)
Begins == ~slow /\ retry + 1 >= SlowCount

CountSlow ==
    /\ slow' = (slow \/ Begins)
    /\ retry' = IF slow THEN retry ELSE retry + 1

(* The timer of the slow fail-over. *)
SlowOverOnAnswer == slow /\ retry = 0 /\ slow' = FALSE /\ retry' = 0

SlowEndsCounting == slow /\ slow' = FALSE /\ UNCHANGED retry

SlowOver == slow /\ slow' = FALSE /\ retry' = 0
=============================================================================
