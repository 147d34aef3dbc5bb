------------------------------ MODULE PacedLane ------------------------------
(***************************************************************************)
(* What a lane of the shared rate limiter (ratelimit.py) promises to the   *)
(* processes of a host, whoever they are and however they interleave:      *)
(* requests are given slots, a slot is never further away than MaxWait,    *)
(* slots keep their distance, and who need not wait finds room in the      *)
(* sliding window.  The lane may forget all slots at once: the file that   *)
(* holds them starts over when it could not be read.                       *)
(***************************************************************************)
EXTENDS Integers, FiniteSets

CONSTANTS
    Interval,   \* min_interval_s or read_min_interval_s
    MaxWait,    \* max_wait_s
    Window,     \* window_s
    Cap,        \* max_per_window
    MayForget   \* may the file become unreadable?

VARIABLES
    now,        \* the clock
    booked      \* every slot given since the lane last forgot

Init == now = 1 /\ booked = {}

\* Slots that still count in the window.
Recent == {b \in booked : now - b < Window}

Book(t) ==
    /\ \A b \in booked : b + Interval <= t
    /\ t = now => Cardinality(Recent) < Cap
    /\ booked' = booked \cup {t}
    /\ UNCHANGED now

\* All slots are forgotten, or all but one that is given at once.
Forget ==
    /\ MayForget
    /\ booked' \in {{}, {now}}
    /\ UNCHANGED now

Tick == now' = now + 1 /\ UNCHANGED booked

Next == Tick \/ Forget \/ \E t \in now .. now + MaxWait : Book(t)

Spec == Init /\ [][Next]_<<now, booked>>
=============================================================================
