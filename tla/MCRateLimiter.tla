---------------------------- MODULE MCRateLimiter ----------------------------
(* Instances of RateLimiter for TLC: the callers are interchangeable.        *)
EXTENDS RateLimiter, TLC

CallerSymmetry == Permutations(Callers)

\* Nobody has used the lane yet.
Untouched(l) ==
    /\ booked[l] = {}
    /\ state.last[l] = 0 /\ state.until[l] = 0 /\ state.streak[l] = 0
    /\ \A c \in Callers : caller[c].stage # "idle" => caller[c].lane # l

\* The lanes share the file but none of its fields, so a behaviour that uses
\* both shows nothing that those of one lane do not.
OneLane == \E l \in Lanes : Untouched(l)
==============================================================================
