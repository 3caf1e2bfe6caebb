------------------------------- MODULE Roster -------------------------------
(***************************************************************************)
(* What a Notification component promises of the names that an application *)
(* subscribes to: a name is served by one callback at a time, by the one   *)
(* that the application wants, and not beyond its withdrawal.  It does not *)
(* promise to be connected: serving may stop at any time.                  *)
(*                                                                         *)
(* A name is excused when the application withdrew what it could not reach *)
(* or when two links crossed; nothing is promised of it then.              *)
(***************************************************************************)

CONSTANTS
    Names,          \* names that may be subscribed to
    Callbacks,      \* callbacks that may be asked for
    None            \* no callback

VARIABLES
    want,           \* the callback that is asked for, per name
    serving,        \* the callback that is served, per name
    excused         \* nothing is promised, per name

vars == <<want, serving, excused>>

Init ==
    /\ want = [n \in Names |-> None]
    /\ serving = [n \in Names |-> None]
    /\ excused = [n \in Names |-> FALSE]

(* The application asks for a callback; what is served is not replaced. *)
Ask(n) ==
    /\ serving[n] = None
    /\ want'[n] \in Callbacks
    /\ serving'[n] = None

Withdraw(n) == want'[n] = None /\ serving'[n] = None

Start(n) ==
    /\ serving[n] = None
    /\ want[n] \in Callbacks
    /\ want'[n] = want[n]
    /\ serving'[n] = want[n]

Stop(n) == want'[n] = want[n] /\ serving'[n] = None

Keep(n) == want'[n] = want[n] /\ serving'[n] = serving[n]

Next ==
    \A n \in Names :
        /\ excused[n] => excused'[n]
        /\ excused'[n] \/ Ask(n) \/ Withdraw(n) \/ Start(n) \/ Stop(n) \/ Keep(n)

Spec == Init /\ [][Next]_vars
=============================================================================
