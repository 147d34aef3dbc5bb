----------------------------- MODULE RateLimiter -----------------------------
(***************************************************************************)
(* The rate limiter that the gpt2agent processes of a host share           *)
(* (ratelimit.py), with the requests it paces (sse.py, backend.py).        *)
(*                                                                         *)
(* The state file is guarded by a lock file that is never replaced, so     *)
(* each _locked_state is one step.  What a caller reads in one of them it  *)
(* uses after others have come and gone, and after it has slept.  A file   *)
(* that cannot be read counts as an empty one, and is written back so.     *)
(***************************************************************************)
EXTENDS Integers, FiniteSets

CONSTANTS
    Callers,        \* requests under way at one time, in any process
    Traffic,        \* the lanes they use
    MinInterval,    \* min_interval_s
    ReadInterval,   \* read_min_interval_s
    MaxPerWindow,   \* max_per_window
    Window,         \* window_s
    MaxWait,        \* max_wait_s
    MaxJitter,      \* the largest jitter added to a wait
    Base,           \* first 429 cooldown (60 s)
    FlagCooldown,   \* cooldown of a flagged session (1800 s)
    DiskFaults,     \* may reading or saving the state fail?
    MaxNow          \* bound: the clock stops here

Lanes == {"conversation", "read"}

ASSUME LimitsAssumption ==
    /\ Traffic \subseteq Lanes
    /\ MinInterval \in Nat \ {0}
    /\ ReadInterval \in Nat \ {0}
    /\ MaxPerWindow \in Nat \ {0}
    /\ Window \in Nat \ {0}
    /\ MaxWait \in Nat
    /\ MaxJitter \in Nat
    /\ Base \in Nat \ {0}
    /\ FlagCooldown \in Nat \ {0}
    /\ DiskFaults \in BOOLEAN
    /\ MaxNow \in Nat

VARIABLES
    now,     \* the wall clock all processes read
    state,   \* the state file
    caller,  \* where each request stands
    booked,  \* history: per lane, the slots saved since the file was last lost
    lost     \* history: some change was not saved, or overwrote an unread file

disk == <<state, booked, lost>>

vars == <<now, disk, caller>>

\* Where acquire_conversation and acquire_read stand, then the request itself.
Stages == {"idle", "admitted", "cooling", "waiting", "sent", "streaming"}

StateFile == [slots  : SUBSET Nat,            \* conv_requests
              last   : [Lanes -> Nat],        \* last_conv, last_read; 0: none
              until  : [Lanes -> Nat],        \* http429:<lane>; 0: none noted
              streak : [Lanes -> 0 .. 4]]     \* 429streak; 4 and more act alike

Caller == [stage : Stages, lane : Lanes, wake : Nat]

Idle == [stage |-> "idle", lane |-> "read", wake |-> 0]

TypeOK ==
    /\ now \in Nat
    /\ state \in StateFile
    /\ caller \in [Callers -> Caller]
    /\ booked \in [Lanes -> SUBSET Nat]
    /\ lost \in BOOLEAN

\* What _read makes of a file that is missing or cannot be read.
Blank == [slots  |-> {},
          last   |-> [l \in Lanes |-> 0],
          until  |-> [l \in Lanes |-> 0],
          streak |-> [l \in Lanes |-> 0]]

NoSlots == [l \in Lanes |-> {}]

Init ==
    /\ now = 1
    /\ state = Blank
    /\ caller = [c \in Callers |-> Idle]
    /\ booked = NoSlots
    /\ lost = FALSE

-----------------------------------------------------------------------------
(* The state file                                                          *)

\* What a caller may find in the file.
Read == {state} \cup (IF DiskFaults THEN {Blank} ELSE {})

\* _locked_state has read st and writes new back.  When that fails it says
\* nothing; when st is not what the file held, that is gone.
Save(st, new) ==
    \/ /\ state' = new
       /\ booked' = IF st = state THEN booked ELSE NoSlots
       /\ lost' = (lost \/ st # state)
    \/ DiskFaults /\ lost' = TRUE /\ UNCHANGED <<state, booked>>

Later(a, b) == IF a < b THEN b ELSE a

Sooner(a, b) == IF a < b THEN a ELSE b

Pause(lane) == IF lane = "conversation" THEN MinInterval ELSE ReadInterval

\* The slots that are left when _lane_wait has dropped the expired ones.
Fresh(st) == {s \in st.slots : now - s < Window}

WindowFull(st) == Cardinality(Fresh(st)) >= MaxPerWindow

Oldest(S) == CHOOSE s \in S : \A u \in S : s <= u

\* Mutant of Paced: a last slot that still lies ahead is not waited for.
PacedFromPast(st, lane) ==
    IF st.last[lane] = 0 \/ st.last[lane] > now
      THEN now
      ELSE Later(now, st.last[lane] + Pause(lane))

\* When the lane's last slot lets another one follow.
Paced(st, lane) ==
    IF st.last[lane] = 0 THEN now
                         ELSE Later(now, st.last[lane] + Pause(lane))

\* now + _lane_wait
Slot(st, lane) ==
    IF lane = "conversation" /\ WindowFull(st)
      THEN Later(Paced(st, lane), Oldest(Fresh(st)) + Window)
      ELSE Paced(st, lane)

\* Mutant of Reserved: the time of the call is recorded, not that of the slot.
ReservedNow(st, lane, t) ==
    IF lane = "conversation"
      THEN [st EXCEPT !.last[lane] = now, !.slots = Fresh(st) \cup {now}]
      ELSE [st EXCEPT !.last[lane] = now]

Reserved(st, lane, t) ==
    IF lane = "conversation"
      THEN [st EXCEPT !.last[lane] = t, !.slots = Fresh(st) \cup {t}]
      ELSE [st EXCEPT !.last[lane] = t]

\* The cooldown after the n-th 429 in a row doubles three times.
Backoff(n) == CASE n = 1 -> Base [] n = 2 -> 2 * Base [] n = 3 -> 4 * Base
                [] OTHER -> 8 * Base

Throttling(st, lane) ==
    LET n == Sooner(st.streak[lane] + 1, 4)
    IN [st EXCEPT !.streak[lane] = n, !.until[lane] = now + Backoff(n)]

Calmed(st, lane) == [st EXCEPT !.streak[lane] = 0]

Cooldown(st, lane, t) == IF t > now THEN [st EXCEPT !.until[lane] = t] ELSE st

-----------------------------------------------------------------------------
(* acquire_conversation and acquire_read                                   *)

Goes(c, stage, lane, wake) ==
    caller' = [caller EXCEPT
                 ![c] = [stage |-> stage, lane |-> lane, wake |-> wake]]

Leaves(c) == caller' = [caller EXCEPT ![c] = Idle]

\* A conversation also looks up the cooldown of its model, which no answer sets:
\* its reset time would come from a probe that always fails (sse._limits).
Begin(c, lane) ==
    /\ caller[c].stage = "idle"
    /\ Goes(c, "admitted", lane, 0)
    /\ UNCHANGED <<now, disk>>

\* Look up the cooldown of the lane: sleep until it is over; a conversation gives
\* up when that is too long, a read sleeps as long as it may.
CheckCooldown(c) ==
    LET lane == caller[c].lane
    IN /\ caller[c].stage = "admitted"
       /\ \E st \in Read :
            LET over == Later(now, st.until[lane])
            IN IF over <= now + MaxWait \/ lane = "read"
                 THEN Goes(c, "cooling", lane, Sooner(over, now + MaxWait))
                 ELSE Leaves(c)
       /\ UNCHANGED <<now, disk>>

\* The jitter that makes a conversation look human; reads have none.
Jitter(lane) == IF lane = "conversation" THEN MaxJitter ELSE 0

\* _reserve, by a caller that has slept: take the next slot and sleep up to
\* it, a conversation a little longer.  A slot that could not be saved is used
\* all the same, but nobody else knows of it.
Reserve(c) ==
    LET lane == caller[c].lane
    IN /\ caller[c].stage = "cooling"
       /\ caller[c].wake <= now
       /\ \E st \in Read :
            LET t == Slot(st, lane)
            IN /\ t <= now + MaxWait
               /\ \E jitter \in 0 .. Jitter(lane) :
                    /\ t = now => jitter = 0
                    /\ Goes(c, "waiting", lane, t + jitter)
               /\ \/ /\ state' = Reserved(st, lane, t)
                     /\ booked' = [(IF st = state THEN booked ELSE NoSlots)
                                      EXCEPT ![lane] = @ \cup {t}]
                     /\ lost' = (lost \/ st # state)
                  \/ DiskFaults /\ lost' = TRUE /\ UNCHANGED <<state, booked>>
       /\ UNCHANGED now

\* LocalRateLimitError leaves the state file as it was.
TooLong(c) ==
    /\ caller[c].stage = "cooling"
    /\ caller[c].wake <= now
    /\ \E st \in Read : Slot(st, caller[c].lane) > now + MaxWait
    /\ Leaves(c)
    /\ UNCHANGED <<now, disk>>

Send(c) ==
    /\ caller[c].stage = "waiting"
    /\ caller[c].wake <= now
    /\ Goes(c, "sent", caller[c].lane, 0)
    /\ UNCHANGED <<now, disk>>

-----------------------------------------------------------------------------
(* The answer                                                              *)

Answered(c, stage) ==
    caller[c].stage = stage /\ UNCHANGED now

\* 200 to a read: the streak of the lane stays.
ReadSucceeds(c) ==
    /\ Answered(c, "sent")
    /\ caller[c].lane = "read"
    /\ Leaves(c)
    /\ UNCHANGED disk

\* 200 to a conversation clears the streak; the answer streams in.
StreamOpens(c) ==
    /\ Answered(c, "sent")
    /\ caller[c].lane = "conversation"
    /\ Goes(c, "streaming", "conversation", 0)
    /\ \E st \in Read : Save(st, Calmed(st, "conversation"))

\* 429: note_429
Throttled(c) ==
    LET lane == caller[c].lane
    IN /\ Answered(c, "sent")
       /\ Leaves(c)
       /\ \E st \in Read : Save(st, Throttling(st, lane))

\* An error frame of the stream, "unusual activity", cools the whole lane down.
Flagged(c) ==
    /\ Answered(c, "streaming")
    /\ Leaves(c)
    /\ \E st \in Read :
         Save(st, Cooldown(st, "conversation", now + FlagCooldown))

\* The stream ends; or, at any point, another error, a cancelled call, a
\* killed process.
Ends(c) ==
    /\ caller[c].stage # "idle"
    /\ Leaves(c)
    /\ UNCHANGED <<now, disk>>

Tick ==
    /\ now < MaxNow
    /\ now' = now + 1
    /\ UNCHANGED <<disk, caller>>

-----------------------------------------------------------------------------
Acquire(c) ==
    \/ \E lane \in Traffic : Begin(c, lane)
    \/ CheckCooldown(c)
    \/ Reserve(c)
    \/ TooLong(c)
    \/ Send(c)

Answer(c) ==
    \/ ReadSucceeds(c)
    \/ StreamOpens(c)
    \/ Throttled(c)
    \/ Flagged(c)
    \/ Ends(c)

Next ==
    \/ \E c \in Callers : Acquire(c) \/ Answer(c)
    \/ Tick

Spec == Init /\ [][Next]_vars

-----------------------------------------------------------------------------
(* Properties *)

ConversationLane ==
    INSTANCE PacedLane WITH Interval <- MinInterval, Cap <- MaxPerWindow,
                            MayForget <- DiskFaults,
                            booked <- booked["conversation"]

ReadLane ==
    INSTANCE PacedLane WITH Interval <- ReadInterval, Window <- 0, Cap <- 1,
                            MayForget <- DiskFaults, booked <- booked["read"]

\* However the processes interleave, the slots _reserve puts on file for
\* conversations are MinInterval apart and at most MaxWait ahead, and a caller
\* is let through at once only when the window has room for it; all of them may
\* be forgotten at once, by a fault of the disk only.
ConversationsArePaced == ConversationLane!Spec

\* The same for reads, which have no window.
ReadsArePaced == ReadLane!Spec

Sleeps(c) == caller[c].stage = "waiting"

\* Until the disk has lost something, any two callers of a lane that sleep for
\* their slots, in whatever processes, wake up the lane's interval apart, less
\* the jitter: no slot that a caller holds is forgotten by those that reserve
\* after it (acquire_conversation, acquire_read).
SleepersKeepApart ==
    ~lost =>
        \A c, d \in Callers :
            LET lane == caller[c].lane
            IN c # d /\ Sleeps(c) /\ Sleeps(d) /\ caller[d].lane = lane =>
                 \/ caller[c].wake + Pause(lane) <= caller[d].wake + Jitter(lane)
                 \/ caller[d].wake + Pause(lane) <= caller[c].wake + Jitter(lane)

\* The window never holds more than MaxPerWindow slots. The code does not
\* keep this one: README, "Disagreements".
WindowCap ==
    \A t \in booked["conversation"] :
        Cardinality({u \in booked["conversation"] : u <= t /\ t - u < Window})
            <= MaxPerWindow

\* A read that succeeds ends the lane's streak of 429s, as the docstrings of
\* note_429 and clear_429_streak say. The code does not keep this one: README,
\* "Disagreements".
SuccessEndsStreak ==
    [][\A c \in Callers :
         caller[c].stage = "sent" /\ ReadSucceeds(c) => state'.streak["read"] = 0]_vars
=============================================================================
