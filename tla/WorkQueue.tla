------------------------------ MODULE WorkQueue ------------------------------
(***************************************************************************)
(* What a shared queue promises of the notifications published to it.  On  *)
(* its way there a notification may be lost; once it is there, it is done  *)
(* with by an acknowledgment only, however often the worker that was given *)
(* it goes away, and never comes back afterwards.  A worker is given one   *)
(* notification at a time.                                                 *)
(*                                                                         *)
(* Nothing is promised once the queue is excused.                          *)
(***************************************************************************)

CONSTANTS
    Messages,
    Workers,
    Nobody          \* no worker

VARIABLES
    stage,          \* "new", "sent", "lost", "ready", "given" or "done"
    holder,         \* the worker that a notification is given to
    acked,          \* notifications that a worker acknowledged
    excused

vars == <<stage, holder, acked, excused>>

Init ==
    /\ stage = [m \in Messages |-> "new"]
    /\ holder = [m \in Messages |-> Nobody]
    /\ acked = {}
    /\ excused \in BOOLEAN

Move(m, from, to) == stage[m] = from /\ stage'[m] = to /\ holder'[m] = Nobody

Publish(m) == Move(m, "new", "sent") \/ Move(m, "new", "lost")

Arrive(m) == Move(m, "sent", "ready")

Lose(m) == Move(m, "sent", "lost")

Give(m, w) ==
    /\ stage[m] = "ready"
    /\ stage'[m] = "given"
    /\ holder'[m] = w
    /\ w \notin {holder[n] : n \in Messages}

Return(m) == Move(m, "given", "ready")

Finish(m) == m \in acked' /\ (Move(m, "given", "done") \/ Move(m, "ready", "done"))

Keep(m) == stage'[m] = stage[m] /\ holder'[m] = holder[m]

Next ==
    /\ excused => excused'
    /\ acked \subseteq acked'
    /\ \/ excused'
       \/ \A m \in Messages :
             \/ Publish(m) \/ Arrive(m) \/ Lose(m)
             \/ \E w \in Workers : Give(m, w)
             \/ Return(m) \/ Finish(m) \/ Keep(m)

Spec == Init /\ [][Next]_vars
=============================================================================
