-------------------------- MODULE RateLimiterProofs --------------------------
(***************************************************************************)
(* Proofs about RateLimiter, for any number of callers, any settings and   *)
(* any disk faults: its types, that each lane implements PacedLane, and    *)
(* that callers who sleep for their slots keep apart until the disk has    *)
(* lost something.                                                         *)
(***************************************************************************)
EXTENDS RateLimiter, FiniteSetTheorems, WellFoundedInduction, TLAPS

USE LimitsAssumption DEF Lanes

-----------------------------------------------------------------------------
(* The slot _reserve computes *)

LEMMA NatMinimum ==
    ASSUME NEW S \in SUBSET Nat, S # {}
    PROVE  Oldest(S) \in S /\ \A u \in S : Oldest(S) <= u
<1> DEFINE Less == {ss \in Nat \X Nat : ss[1] < ss[2]}
<1>1. OpToRel(<, Nat) = Less
  BY Zenon DEF OpToRel
<1>2. IsWellFoundedOn(Less, Nat)
  BY <1>1, NatLessThanWellFounded, Zenon
<1>3. PICK x \in S : \A y \in S : ~(<<y, x>> \in Less)
  <2> HIDE DEF Less
  <2> QED
    BY <1>2, WFMin, Zenon
<1>4. ASSUME NEW y \in S PROVE x <= y
  <2>1. y < x => <<y, x>> \in Less
    OBVIOUS
  <2>2. ~(y < x)
    BY <1>3, <2>1
  <2>3. QED
    BY <2>2
<1>5. QED
  BY <1>4 DEF Oldest

LEMMA FreshSlots ==
    ASSUME NEW st \in StateFile
    PROVE  Fresh(st) \in SUBSET Nat /\ Fresh(st) \subseteq st.slots
  BY DEF Fresh, StateFile

LEMMA FullNotEmpty ==
    ASSUME NEW st \in StateFile, IsFiniteSet(st.slots), WindowFull(st)
    PROVE  Fresh(st) # {}
<1>1. IsFiniteSet(Fresh(st))
  BY FreshSlots, FS_Subset
<1>2. Fresh(st) = {} => Cardinality(Fresh(st)) = 0
  BY FS_EmptySet
<1>3. QED
  BY <1>2 DEF WindowFull

\* A slot is never in the past, never too close to the last one of its lane,
\* and a conversation that gets one at once finds room in the window.
LEMMA SlotBounds ==
    ASSUME now \in Nat, NEW st \in StateFile, IsFiniteSet(st.slots), NEW lane \in Lanes
    PROVE  /\ Slot(st, lane) \in Nat
           /\ Slot(st, lane) >= now
           /\ st.last[lane] # 0 => Slot(st, lane) >= st.last[lane] + Pause(lane)
           /\ lane = "conversation" /\ Slot(st, lane) = now => ~WindowFull(st)
<1> DEFINE paced == Paced(st, lane)
<1>1. now \in Nat /\ st.last[lane] \in Nat /\ Pause(lane) \in Nat
  BY DEF StateFile, Pause
<1>2. /\ paced \in Nat
      /\ paced >= now
      /\ st.last[lane] # 0 => paced >= st.last[lane] + Pause(lane)
  BY <1>1 DEF Paced, Later
<1>3. CASE lane = "conversation" /\ WindowFull(st)
  <2> DEFINE first == Oldest(Fresh(st))
  <2>1. first \in Fresh(st)
    BY <1>3, FullNotEmpty, FreshSlots, NatMinimum
  <2>2. first \in Nat /\ now - first < Window
    BY <2>1 DEF Fresh, StateFile
  <2>3. Slot(st, lane) = Later(paced, first + Window)
    BY <1>3 DEF Slot
  <2> HIDE DEF paced, first
  <2>4. QED
    BY <1>1, <1>2, <2>2, <2>3 DEF Later
<1>4. CASE ~(lane = "conversation" /\ WindowFull(st))
  <2>1. Slot(st, lane) = paced
    BY <1>4 DEF Slot
  <2> HIDE DEF paced
  <2>2. QED
    BY <1>2, <1>4, <2>1
<1>5. QED
  BY <1>3, <1>4

\* The first slot of an empty file is the present.
LEMMA BlankFile ==
    ASSUME now \in Nat, NEW lane \in Lanes
    PROVE  /\ Blank \in StateFile /\ IsFiniteSet(Blank.slots)
           /\ \A l \in Lanes : Blank.last[l] = 0
           /\ Slot(Blank, lane) = now
<1>1. /\ Blank \in StateFile /\ Blank.slots = {}
      /\ \A l \in Lanes : Blank.last[l] = 0
  BY DEF Blank, StateFile
<1>2. Fresh(Blank) = {}
  BY <1>1, FreshSlots
<1>3. ~WindowFull(Blank)
  BY <1>2, FS_EmptySet DEF WindowFull
<1> QED
  BY <1>1, <1>3, FS_EmptySet DEF Slot, Paced

-----------------------------------------------------------------------------
(* Types *)

Typed == TypeOK /\ IsFiniteSet(state.slots)

LEMMA TypedInit == Init => Typed
<1> SUFFICES ASSUME Init PROVE Typed
  OBVIOUS
<1>1. /\ now = 1 /\ state = Blank /\ caller = [c \in Callers |-> Idle]
      /\ booked = NoSlots /\ lost = FALSE
  BY DEF Init
<1>2. state \in StateFile /\ IsFiniteSet(state.slots)
  BY <1>1, BlankFile
<1> QED
  BY <1>1, <1>2 DEF Typed, TypeOK, NoSlots, Caller, Idle, Stages

\* What a caller reads is a state file.
LEMMA ReadTypes ==
    ASSUME Typed, NEW st \in Read
    PROVE  st \in StateFile /\ IsFiniteSet(st.slots) /\ (st = state \/ st = Blank)
<1>1. st = state \/ st = Blank
  BY DEF Read
<1>2. now \in Nat /\ state \in StateFile /\ IsFiniteSet(state.slots)
  BY DEF Typed, TypeOK
<1> QED
  BY <1>1, <1>2, BlankFile

\* Every state a caller may save is a state file.
LEMMA SavedTypes ==
    ASSUME now \in Nat, NEW st \in StateFile, IsFiniteSet(st.slots),
           NEW lane \in Lanes, NEW t \in Nat, NEW key \in Lanes
    PROVE  /\ Reserved(st, lane, t) \in StateFile
           /\ IsFiniteSet(Reserved(st, lane, t).slots)
           /\ Throttling(st, lane) \in StateFile
           /\ Throttling(st, lane).slots = st.slots
           /\ Calmed(st, lane) \in StateFile /\ Calmed(st, lane).slots = st.slots
           /\ Cooldown(st, key, t) \in StateFile
           /\ Cooldown(st, key, t).slots = st.slots
<1>2. Fresh(st) \in SUBSET Nat /\ IsFiniteSet(Fresh(st))
  BY FreshSlots, FS_Subset
<1>3. IsFiniteSet(Fresh(st) \cup {t})
  BY <1>2, FS_AddElement
<1>4. Reserved(st, lane, t) \in StateFile /\ IsFiniteSet(Reserved(st, lane, t).slots)
  BY <1>2, <1>3 DEF Reserved, StateFile
<1>5. Throttling(st, lane) \in StateFile /\ Throttling(st, lane).slots = st.slots
  <2> DEFINE n == Sooner(st.streak[lane] + 1, 4)
             r == now + Backoff(n)
             counted == [st EXCEPT !.streak[lane] = n]
  <2>1. n \in 0 .. 4
    BY DEF Sooner, StateFile
  <2>2. r \in Nat
    BY DEF Backoff
  <2>3. Throttling(st, lane) = [counted EXCEPT !.until[lane] = r]
    BY Zenon DEF Throttling
  <2> HIDE DEF n, r
  <2>4. counted \in StateFile /\ counted.slots = st.slots
    BY <2>1 DEF StateFile
  <2> HIDE DEF counted
  <2>5. QED
    BY <2>2, <2>3, <2>4 DEF StateFile
<1>6. Calmed(st, lane) \in StateFile /\ Calmed(st, lane).slots = st.slots
  BY DEF Calmed, StateFile
<1>7. Cooldown(st, key, t) \in StateFile /\ Cooldown(st, key, t).slots = st.slots
  BY DEF Cooldown, StateFile
<1>8. QED
  BY <1>4, <1>5, <1>6, <1>7

DiskTyped ==
    /\ state \in StateFile /\ IsFiniteSet(state.slots)
    /\ booked \in [Lanes -> SUBSET Nat]
    /\ lost \in BOOLEAN

LEMMA SaveTypes ==
    ASSUME Typed, NEW st, NEW new \in StateFile, IsFiniteSet(new.slots), Save(st, new)
    PROVE  DiskTyped'
  BY DEF Save, Typed, TypeOK, DiskTyped, NoSlots

LEMMA TypedStep == Typed /\ [Next]_vars => Typed'
<1> SUFFICES ASSUME Typed, [Next]_vars PROVE Typed'
  OBVIOUS
<1>t. TypeOK /\ IsFiniteSet(state.slots)
  BY DEF Typed
<1> USE DEF disk
<1>1. ASSUME NEW c \in Callers, NEW lane \in Traffic, Begin(c, lane)
      PROVE  Typed'
  BY <1>t, <1>1 DEF Begin, Goes, Typed, TypeOK, Caller, Stages
<1>2. ASSUME NEW c \in Callers, CheckCooldown(c)
      PROVE  Typed'
  <2>1. ASSUME NEW st \in Read
        PROVE  Sooner(Later(now, st.until[caller[c].lane]), now + MaxWait) \in Nat
    <3>1. st \in StateFile
      BY ReadTypes
    <3>2. caller[c].lane \in Lanes /\ now \in Nat
      BY <1>t DEF TypeOK, Caller
    <3>3. st.until[caller[c].lane] \in Nat
      BY <3>1, <3>2 DEF StateFile
    <3> QED
      BY <3>2, <3>3 DEF Sooner, Later
  <2>2. caller' \in [Callers -> Caller]
    BY <1>t, <1>2, <2>1
    DEF CheckCooldown, Goes, Leaves, Idle, TypeOK, Caller, Stages
  <2> QED
    BY <1>t, <1>2, <2>2 DEF CheckCooldown, Typed, TypeOK
<1>3. ASSUME NEW c \in Callers, Reserve(c)
      PROVE  Typed'
  <2>1. PICK st \in Read :
          LET t == Slot(st, caller[c].lane)
          IN /\ \E jitter \in 0 .. Jitter(caller[c].lane) :
                  Goes(c, "waiting", caller[c].lane, t + jitter)
             /\ \/ /\ state' = Reserved(st, caller[c].lane, t)
                   /\ booked' \in {[booked EXCEPT ![caller[c].lane] = @ \cup {t}],
                                   [NoSlots EXCEPT ![caller[c].lane] = @ \cup {t}]}
                   /\ lost' \in BOOLEAN
                \/ lost' = TRUE /\ UNCHANGED <<state, booked>>
             /\ now' = now
    BY <1>t, <1>3 DEF Reserve, TypeOK
  <2> DEFINE lane == caller[c].lane
             t == Slot(st, lane)
  <2>2. lane \in Lanes /\ now \in Nat
    BY <1>t DEF TypeOK, Caller
  <2>3. st \in StateFile /\ IsFiniteSet(st.slots)
    BY ReadTypes
  <2>4. t \in Nat
    BY <2>2, <2>3, SlotBounds
  <2>5. /\ \E jitter \in 0 .. Jitter(lane) : Goes(c, "waiting", lane, t + jitter)
        /\ \/ /\ state' = Reserved(st, lane, t)
              /\ booked' \in {[booked EXCEPT ![lane] = @ \cup {t}],
                              [NoSlots EXCEPT ![lane] = @ \cup {t}]}
              /\ lost' \in BOOLEAN
           \/ lost' = TRUE /\ UNCHANGED <<state, booked>>
        /\ now' = now
    BY <2>1
  <2> HIDE DEF lane, t
  <2>6. state' \in StateFile /\ IsFiniteSet(state'.slots)
    <3>1. state' = Reserved(st, lane, t) \/ state' = state
      BY <2>5
    <3>2. /\ Reserved(st, lane, t) \in StateFile
          /\ IsFiniteSet(Reserved(st, lane, t).slots)
      BY <2>2, <2>3, <2>4, SavedTypes
    <3> QED
      BY <1>t, <3>1, <3>2 DEF TypeOK
  <2>7. caller' \in [Callers -> Caller]
    BY <1>t, <2>2, <2>4, <2>5 DEF Goes, Jitter, TypeOK, Caller, Stages
  <2>8. booked' \in [Lanes -> SUBSET Nat] /\ lost' \in BOOLEAN
    <3>1. \A held \in [Lanes -> SUBSET Nat] :
            [held EXCEPT ![lane] = @ \cup {t}] \in [Lanes -> SUBSET Nat]
      BY <2>2, <2>4
    <3>2. NoSlots \in [Lanes -> SUBSET Nat] /\ booked \in [Lanes -> SUBSET Nat]
      BY <1>t DEF NoSlots, TypeOK
    <3>3. lost' \in BOOLEAN
      BY <2>5
    <3>4. \/ booked' = [booked EXCEPT ![lane] = @ \cup {t}]
          \/ booked' = [NoSlots EXCEPT ![lane] = @ \cup {t}]
          \/ booked' = booked
      BY <2>5
    <3> QED
      BY <3>1, <3>2, <3>3, <3>4
  <2>9. QED
    BY <1>t, <2>5, <2>6, <2>7, <2>8 DEF Typed, TypeOK
<1>4. ASSUME NEW c \in Callers, TooLong(c) \/ Send(c) \/ Ends(c)
      PROVE  Typed'
  BY <1>t, <1>4
  DEF TooLong, Send, Ends, Goes, Leaves, Idle, Typed, TypeOK, Caller, Stages
<1>5. ASSUME NEW c \in Callers, ReadSucceeds(c)
      PROVE  Typed'
  BY <1>t, <1>5
  DEF ReadSucceeds, Answered, Leaves, Idle, Typed, TypeOK, Caller, Stages
<1>6. ASSUME NEW c \in Callers, StreamOpens(c) \/ Throttled(c) \/ Flagged(c)
      PROVE  Typed'
  <2>1. PICK st \in Read, lane \in Lanes, t \in Nat :
          \E new \in {Throttling(st, lane), Calmed(st, lane), Cooldown(st, lane, t)} :
             Save(st, new)
    BY <1>t, <1>6 DEF StreamOpens, Throttled, Flagged, TypeOK, Caller
  <2>2. st \in StateFile /\ IsFiniteSet(st.slots) /\ now \in Nat
    BY <1>t, ReadTypes DEF TypeOK
  <2>3. DiskTyped'
    BY <2>1, <2>2, SavedTypes, SaveTypes
  <2>4. now' = now /\ caller' \in [Callers -> Caller]
    BY <1>t, <1>6
    DEF StreamOpens, Throttled, Flagged, Answered, Goes, Leaves, Idle, TypeOK, Caller,
        Stages
  <2> QED
    BY <1>t, <2>3, <2>4 DEF DiskTyped, Typed, TypeOK
<1>7. CASE Tick
  BY <1>t, <1>7 DEF Tick, Typed, TypeOK
<1>8. CASE UNCHANGED vars
  BY <1>t, <1>8 DEF vars, Typed, TypeOK
<1> QED
  BY <1>1, <1>2, <1>3, <1>4, <1>5, <1>6, <1>7, <1>8 DEF Next, Acquire, Answer

\* Whoever calls and whatever the disk does, the state file stays well formed:
\* what cannot be read counts as empty and is never half of a state.
THEOREM LimiterTypes == Spec => []TypeOK
<1>1. Typed => TypeOK
  BY DEF Typed
<1> QED
  BY <1>1, TypedInit, TypedStep, PTL DEF Spec

-----------------------------------------------------------------------------
(* Pacing *)

\* What the state file knows of the slots that reached it: the last slot of a
\* lane is the largest, and pruning has forgotten none that still counts.
SlotsOnFile ==
    /\ now >= 1
    /\ \A lane \in Lanes : \A b \in booked[lane] :
         1 <= b /\ b <= state.last[lane]
    /\ \A b \in booked["conversation"] : now - b < Window => b \in state.slots

PacedInv == Typed /\ SlotsOnFile

LEMMA PacedInit == Init => PacedInv
<1>1. Init => now = 1 /\ booked = NoSlots
  BY DEF Init
<1> QED
  BY <1>1, TypedInit DEF PacedInv, SlotsOnFile, NoSlots

\* The same conditions survive any step that keeps the recorded slots.
LEMMA SlotsKept ==
    ASSUME PacedInv, now' \in Nat, now' >= now, booked' = booked,
           state'.last = state.last, state'.slots = state.slots
    PROVE  SlotsOnFile'
<1>1. now \in Nat /\ booked["conversation"] \in SUBSET Nat /\ SlotsOnFile
  BY DEF PacedInv, Typed, TypeOK
<1>2. \A b \in booked["conversation"] : now' - b < Window => now - b < Window
  BY <1>1
<1>3. QED
  BY <1>1, <1>2 DEF SlotsOnFile

LEMMA SavedSlots ==
    ASSUME now \in Nat, NEW st \in StateFile, NEW lane \in Lanes, NEW t \in Nat,
           NEW key \in Lanes
    PROVE  /\ Throttling(st, lane).last = st.last
           /\ Calmed(st, lane).last = st.last
           /\ Cooldown(st, key, t).last = st.last
  BY DEF Throttling, Calmed, Cooldown, StateFile

\* A reservation that reaches the file, which has been read.
Books(c) ==
    LET lane == caller[c].lane
        t    == Slot(state, lane)
    IN /\ t <= now + MaxWait
       /\ \E jitter \in 0 .. Jitter(lane) : Goes(c, "waiting", lane, t + jitter)
       /\ state' = Reserved(state, lane, t)
       /\ booked' = [booked EXCEPT ![lane] = @ \cup {t}]
       /\ now' = now

\* A change that overwrites a file that has not been read: all slots are forgotten,
\* but for one that is given at once.
Forgets ==
    /\ DiskFaults /\ lost' = TRUE /\ now' = now
    /\ \A lane \in Lanes : booked'[lane] \in {{}, {now}}
    /\ SlotsOnFile'

\* Every other step keeps the slots, and at most moves the clock.
Elsewhere ==
    /\ booked' = booked /\ now' \in {now, now + 1}
    /\ state'.last = state.last /\ state'.slots = state.slots

LEMMA BlankOnFile ==
    ASSUME now \in Nat, now >= 1, now' = now, DiskFaults, lost' = TRUE,
           booked' = NoSlots
    PROVE  Forgets
  BY DEF Forgets, SlotsOnFile, NoSlots

LEMMA SaveCases ==
    ASSUME PacedInv, now' = now, NEW st \in Read, NEW new, new.last = st.last,
           new.slots = st.slots, Save(st, new)
    PROVE  Elsewhere \/ Forgets
<1>t. now \in Nat /\ now >= 1
  BY DEF PacedInv, Typed, TypeOK, SlotsOnFile
<1>1. CASE UNCHANGED <<state, booked>>
  BY <1>1 DEF Elsewhere
<1>2. CASE st = state /\ state' = new /\ booked' = booked
  BY <1>2 DEF Elsewhere
<1>3. CASE st # state /\ booked' = NoSlots /\ lost' = TRUE
  <2>1. DiskFaults
    BY <1>3 DEF Read
  <2> QED
    BY <1>t, <1>3, <2>1, BlankOnFile
<1> QED
  BY <1>1, <1>2, <1>3 DEF Save, PacedInv, Typed, TypeOK

LEMMA ReserveCases ==
    ASSUME PacedInv, NEW c \in Callers, Reserve(c)
    PROVE  Books(c) \/ Elsewhere \/ Forgets
<1>t. /\ now \in Nat /\ now >= 1 /\ caller[c].lane \in Lanes
      /\ lost \in BOOLEAN
  BY DEF PacedInv, Typed, TypeOK, SlotsOnFile, Caller
<1> DEFINE lane == caller[c].lane
<1>1. PICK st \in Read :
        LET t == Slot(st, lane)
        IN /\ t <= now + MaxWait
           /\ \E jitter \in 0 .. Jitter(lane) : Goes(c, "waiting", lane, t + jitter)
           /\ \/ /\ state' = Reserved(st, lane, t)
                 /\ booked' = [(IF st = state THEN booked ELSE NoSlots)
                                 EXCEPT ![lane] = @ \cup {t}]
                 /\ lost' = (lost \/ st # state)
              \/ DiskFaults /\ lost' = TRUE /\ UNCHANGED <<state, booked>>
  BY DEF Reserve
<1>2. now' = now
  BY DEF Reserve
<1> DEFINE t == Slot(st, lane)
<1>3. CASE UNCHANGED <<state, booked>>
  BY <1>2, <1>3 DEF Elsewhere
<1>4. CASE /\ st = state /\ state' = Reserved(st, lane, t)
           /\ booked' = [booked EXCEPT ![lane] = @ \cup {t}]
  BY <1>1, <1>2, <1>4 DEF Books
<1>5. CASE /\ st # state /\ state' = Reserved(st, lane, t) /\ lost' = TRUE
           /\ booked' = [NoSlots EXCEPT ![lane] = @ \cup {t}]
  <2>1. DiskFaults /\ st = Blank
    BY <1>5 DEF Read
  <2>2. t = now /\ Blank \in StateFile /\ Blank.slots \subseteq Nat
    BY <1>t, <2>1, BlankFile DEF StateFile
  <2> HIDE DEF lane, t
  <2>3. \A l \in Lanes : booked'[l] = IF l = lane THEN {now} ELSE {}
    BY <1>5, <2>2 DEF NoSlots
  <2>4. state' = Reserved(Blank, lane, now) /\ lane \in Lanes
    BY <1>t, <1>5, <2>1, <2>2 DEF lane
  <2>5. state'.last[lane] = now
    BY <2>2, <2>4 DEF Reserved, StateFile
  <2>6. lane = "conversation" => now \in state'.slots
    BY <2>2, <2>4 DEF Reserved, StateFile
  <2>7. SlotsOnFile'
    BY <1>t, <1>2, <2>3, <2>4, <2>5, <2>6 DEF SlotsOnFile
  <2> QED
    BY <1>2, <1>5, <2>1, <2>3, <2>7 DEF Forgets
<1> QED
  BY <1>t, <1>1, <1>3, <1>4, <1>5

\* A reservation on file is a Book step of its lane.
LEMMA ReserveBooks ==
    ASSUME PacedInv, NEW c \in Callers, Books(c),
           NEW lane \in Lanes, lane = caller[c].lane,
           NEW t, t = Slot(state, lane)
    PROVE  /\ SlotsOnFile'
           /\ t \in now .. now + MaxWait
           /\ \A b \in booked[lane] : b + Pause(lane) <= t
           /\ booked' = [booked EXCEPT ![lane] = @ \cup {t}]
           /\ now' = now
<1>t. TypeOK /\ IsFiniteSet(state.slots) /\ SlotsOnFile
  BY DEF PacedInv, Typed
<1>1. /\ state' = Reserved(state, lane, t)
      /\ booked' = [booked EXCEPT ![lane] = @ \cup {t}]
      /\ now' = now
  BY DEF Books
<1>2. /\ t \in Nat /\ t >= now
      /\ state.last[lane] # 0 => t >= state.last[lane] + Pause(lane)
  BY <1>t, SlotBounds DEF TypeOK
<1>3. now \in Nat /\ state.last \in [Lanes -> Nat] /\ Pause(lane) \in Nat
  BY <1>t DEF TypeOK, StateFile, Pause
<1>4. \A b \in booked[lane] : b \in Nat /\ b + Pause(lane) <= t /\ b <= t
  BY <1>t, <1>2, <1>3 DEF SlotsOnFile, TypeOK
<1>5. state'.last = [state.last EXCEPT ![lane] = t]
  BY <1>t, <1>1 DEF Reserved, TypeOK, StateFile
<1>6. \A l \in Lanes : \A b \in booked'[l] : 1 <= b /\ b <= state'.last[l]
  BY <1>t, <1>1, <1>2, <1>3, <1>4, <1>5 DEF SlotsOnFile, TypeOK
<1>7. \A b \in booked'["conversation"] : now - b < Window => b \in state'.slots
  <2>1. CASE lane = "conversation"
    <3>1. state'.slots = Fresh(state) \cup {t}
      BY <1>t, <1>1, <2>1 DEF Reserved, TypeOK, StateFile
    <3>2. booked'["conversation"] = booked["conversation"] \cup {t}
      BY <1>t, <1>1, <2>1 DEF TypeOK
    <3>3. QED
      BY <1>t, <3>1, <3>2 DEF SlotsOnFile, Fresh
  <2>2. CASE lane # "conversation"
    <3>1. state'.slots = state.slots
      BY <1>t, <1>1, <2>2 DEF Reserved, TypeOK, StateFile
    <3>2. booked'["conversation"] = booked["conversation"]
      BY <1>t, <1>1, <2>2 DEF TypeOK
    <3>3. QED
      BY <1>t, <3>1, <3>2 DEF SlotsOnFile
  <2>3. QED
    BY <2>1, <2>2
<1>8. SlotsOnFile'
  BY <1>t, <1>1, <1>6, <1>7 DEF SlotsOnFile
<1>9. t <= now + MaxWait
  BY DEF Books
<1>10. QED
  BY <1>1, <1>2, <1>3, <1>4, <1>8, <1>9

\* A step reserves a slot on file, or forgets all of them, or leaves them alone.
LEMMA StepCases ==
    ASSUME PacedInv, [Next]_vars
    PROVE  (\E c \in Callers : Books(c)) \/ Forgets \/ Elsewhere
<1>t. now \in Nat /\ \A c \in Callers : caller[c].lane \in Lanes
  BY DEF PacedInv, Typed, TypeOK, Caller
<1> USE DEF disk
<1>1. ASSUME NEW c \in Callers,
             \/ \E lane \in Traffic : Begin(c, lane)
             \/ CheckCooldown(c) \/ TooLong(c) \/ Send(c)
             \/ ReadSucceeds(c) \/ Ends(c)
      PROVE  Elsewhere
  BY <1>1 DEF Begin, CheckCooldown, TooLong, Send, ReadSucceeds, Answered, Ends,
              Elsewhere
<1>2. ASSUME NEW c \in Callers, StreamOpens(c) \/ Throttled(c) \/ Flagged(c)
      PROVE  Elsewhere \/ Forgets
  <2>1. now' = now
    BY <1>2 DEF StreamOpens, Throttled, Flagged, Answered
  <2>2. \A st \in Read : st \in StateFile /\ IsFiniteSet(st.slots)
    BY ReadTypes DEF PacedInv
  <2>3. ASSUME NEW st \in Read, NEW lane \in Lanes, NEW t \in Nat,
               \/ Save(st, Throttling(st, lane)) \/ Save(st, Calmed(st, lane))
               \/ Save(st, Cooldown(st, lane, t))
        PROVE  Elsewhere \/ Forgets
    <3>1. /\ Throttling(st, lane).last = st.last
          /\ Calmed(st, lane).last = st.last
          /\ Cooldown(st, lane, t).last = st.last
      BY <1>t, <2>2, SavedSlots
    <3>2. /\ Throttling(st, lane).slots = st.slots
          /\ Calmed(st, lane).slots = st.slots
          /\ Cooldown(st, lane, t).slots = st.slots
      BY <1>t, <2>2, SavedTypes
    <3> QED
      BY <2>1, <2>3, <3>1, <3>2, SaveCases
  <2>4. CASE StreamOpens(c)
    BY <2>3, <2>4 DEF StreamOpens, Lanes
  <2>5. CASE Throttled(c)
    BY <1>t, <2>3, <2>5 DEF Throttled
  <2>6. CASE Flagged(c)
    <3>1. now + FlagCooldown \in Nat
      BY <1>t, LimitsAssumption
    <3> QED
      BY <2>3, <2>6, <3>1 DEF Flagged, Lanes
  <2> QED
    BY <1>2, <2>4, <2>5, <2>6
<1>3. ASSUME NEW c \in Callers, Reserve(c)
      PROVE  Books(c) \/ Elsewhere \/ Forgets
  BY <1>3, ReserveCases
<1>4. CASE Tick
  BY <1>4 DEF Tick, Elsewhere
<1>5. CASE UNCHANGED vars
  BY <1>5 DEF vars, Elsewhere
<1>6. QED
  BY <1>1, <1>2, <1>3, <1>4, <1>5 DEF Next, Acquire, Answer

LEMMA PacedStep ==
    PacedInv /\ [Next]_vars => PacedInv'
<1> SUFFICES ASSUME PacedInv, [Next]_vars PROVE PacedInv'
  OBVIOUS
<1>1. Typed'
  BY TypedStep DEF PacedInv
<1>2. ASSUME NEW c \in Callers, Books(c) PROVE SlotsOnFile'
  <2>1. caller[c].lane \in Lanes
    BY DEF PacedInv, Typed, TypeOK, Caller
  <2>2. QED
    BY <1>2, <2>1, ReserveBooks
<1>3. ASSUME Elsewhere PROVE SlotsOnFile'
  <2>1. now' \in Nat /\ now' >= now
    BY <1>3 DEF Elsewhere, PacedInv, Typed, TypeOK
  <2>2. QED
    BY <1>3, <2>1, SlotsKept DEF Elsewhere
<1>4. ASSUME Forgets PROVE SlotsOnFile'
  BY <1>4 DEF Forgets
<1>5. QED
  BY <1>1, <1>2, <1>3, <1>4, StepCases DEF PacedInv

-----------------------------------------------------------------------------
(* The lanes implement PacedLane *)

\* An instance of PacedLane counts as this module does.
LEMMA SameCount ==
    \A S : /\ ConversationLane!Cardinality(S) = Cardinality(S)
          /\ ReadLane!Cardinality(S) = Cardinality(S)
  BY DEF Cardinality, ConversationLane!Cardinality, ReadLane!Cardinality

LEMMA ConversationInit == Init => ConversationLane!Init
<1>1. Init => now = 1 /\ booked = NoSlots
  BY DEF Init
<1> QED
  BY <1>1 DEF NoSlots, ConversationLane!Init

LEMMA ConversationStep ==
    ASSUME PacedInv, [Next]_vars
    PROVE  [ConversationLane!Next]_<<now, booked["conversation"]>>
<1>t. TypeOK /\ IsFiniteSet(state.slots) /\ SlotsOnFile
  BY DEF PacedInv, Typed
<1>1. ASSUME NEW c \in Callers, Books(c)
      PROVE  [ConversationLane!Next]_<<now, booked["conversation"]>>
  <2> DEFINE lane == caller[c].lane
             t == Slot(state, lane)
  <2>1. lane \in Lanes
    BY <1>t DEF TypeOK, Caller
  <2>2. /\ t \in now .. now + MaxWait
        /\ \A b \in booked[lane] : b + Pause(lane) <= t
        /\ booked' = [booked EXCEPT ![lane] = @ \cup {t}]
        /\ now' = now
    BY <1>1, <2>1, ReserveBooks
  <2>3. CASE lane = "conversation"
    <3>1. ConversationLane!Recent \subseteq Fresh(state)
      BY <1>t DEF ConversationLane!Recent, SlotsOnFile, Fresh
    <3>2. t = now => Cardinality(Fresh(state)) < MaxPerWindow
      <4>1. t = now => ~WindowFull(state)
        BY <1>t, <2>1, <2>3, SlotBounds DEF TypeOK
      <4>2. IsFiniteSet(Fresh(state)) /\ Cardinality(Fresh(state)) \in Nat
        BY <1>t, FreshSlots, FS_Subset, FS_CardinalityType DEF TypeOK
      <4>3. QED
        BY <4>1, <4>2 DEF WindowFull
    <3>3. t = now => Cardinality(ConversationLane!Recent) < MaxPerWindow
      <4>1. IsFiniteSet(Fresh(state))
        BY <1>t, FreshSlots, FS_Subset DEF TypeOK
      <4>2. /\ Cardinality(ConversationLane!Recent) <= Cardinality(Fresh(state))
            /\ Cardinality(ConversationLane!Recent) \in Nat
            /\ Cardinality(Fresh(state)) \in Nat
        BY <3>1, <4>1, FS_Subset, FS_CardinalityType
      <4>3. QED
        BY <3>2, <4>2
    <3>4. booked'["conversation"] = booked["conversation"] \cup {t}
      BY <1>t, <2>2, <2>3 DEF TypeOK
    <3>5. ConversationLane!Book(t)
      BY <2>2, <2>3, <3>3, <3>4, SameCount DEF ConversationLane!Book, Pause
    <3>6. QED
      BY <2>2, <3>5 DEF ConversationLane!Next
  <2>4. CASE lane # "conversation"
    BY <1>t, <2>2, <2>4 DEF TypeOK
  <2>5. QED
    BY <2>3, <2>4
<1>2. CASE Elsewhere
  BY <1>2 DEF Elsewhere, ConversationLane!Next, ConversationLane!Tick
<1>3. CASE Forgets
  BY <1>3 DEF Forgets, ConversationLane!Next, ConversationLane!Forget
<1>4. QED
  BY <1>1, <1>2, <1>3, StepCases

\* The conversation lane keeps what PacedLane promises, for any number of
\* callers and any settings: only what a disk fault loses goes uncounted.
THEOREM ConversationsImplementLane ==
    Spec => ConversationsArePaced
<1>1. PacedInv /\ [Next]_vars =>
        [ConversationLane!Next]_<<now, booked["conversation"]>>
  BY ConversationStep
<1>2. QED
  BY <1>1, ConversationInit, PacedInit, PacedStep, PTL
  DEF Spec, ConversationsArePaced, ConversationLane!Spec

LEMMA ReadInit == Init => ReadLane!Init
<1>1. Init => now = 1 /\ booked = NoSlots
  BY DEF Init
<1> QED
  BY <1>1 DEF NoSlots, ReadLane!Init

LEMMA ReadStep ==
    ASSUME PacedInv, [Next]_vars
    PROVE  [ReadLane!Next]_<<now, booked["read"]>>
<1>t. TypeOK /\ IsFiniteSet(state.slots) /\ SlotsOnFile
  BY DEF PacedInv, Typed
<1>1. ASSUME NEW c \in Callers, Books(c)
      PROVE  [ReadLane!Next]_<<now, booked["read"]>>
  <2> DEFINE lane == caller[c].lane
             t == Slot(state, lane)
  <2>1. lane \in Lanes
    BY <1>t DEF TypeOK, Caller
  <2>2. /\ t \in now .. now + MaxWait
        /\ \A b \in booked[lane] : b + Pause(lane) <= t
        /\ booked' = [booked EXCEPT ![lane] = @ \cup {t}]
        /\ now' = now
    BY <1>1, <2>1, ReserveBooks
  <2>3. CASE lane = "read"
    <3>1. t = now => ReadLane!Recent = {}
      BY <1>t, <2>2, <2>3 DEF ReadLane!Recent, TypeOK, Pause
    <3>2. t = now => Cardinality(ReadLane!Recent) < 1
      BY <3>1, FS_EmptySet
    <3>3. booked'["read"] = booked["read"] \cup {t}
      BY <1>t, <2>2, <2>3 DEF TypeOK
    <3>4. ReadLane!Book(t)
      BY <2>2, <2>3, <3>2, <3>3, SameCount DEF ReadLane!Book, Pause
    <3>5. QED
      BY <2>2, <3>4 DEF ReadLane!Next
  <2>4. CASE lane # "read"
    BY <1>t, <2>2, <2>4 DEF TypeOK
  <2>5. QED
    BY <2>3, <2>4
<1>2. CASE Elsewhere
  BY <1>2 DEF Elsewhere, ReadLane!Next, ReadLane!Tick
<1>3. CASE Forgets
  BY <1>3 DEF Forgets, ReadLane!Next, ReadLane!Forget
<1>4. QED
  BY <1>1, <1>2, <1>3, StepCases

\* The same for the read lane.
THEOREM ReadsImplementLane ==
    Spec => ReadsArePaced
<1>1. PacedInv /\ [Next]_vars => [ReadLane!Next]_<<now, booked["read"]>>
  BY ReadStep
<1>2. QED
  BY <1>1, ReadInit, PacedInit, PacedStep, PTL
  DEF Spec, ReadsArePaced, ReadLane!Spec

-----------------------------------------------------------------------------
(* Sleepers *)

\* Until something is lost, every sleeper's slot is on record, at most the jitter
\* before the time it wakes up.
OnRecord ==
    ~lost =>
        \A c \in Callers : Sleeps(c) =>
            \E t \in booked[caller[c].lane] :
                caller[c].wake \in t .. t + Jitter(caller[c].lane)

SleeperInv == PacedInv /\ OnRecord /\ SleepersKeepApart

\* Nobody lies down to sleep, and no slot is given or forgotten.
NobodyNew ==
    /\ booked' = booked /\ (~lost' => ~lost)
    /\ \A c \in Callers : Sleeps(c)' => caller'[c] = caller[c]

LEMMA SleepCases ==
    ASSUME SleeperInv, [Next]_vars
    PROVE  lost' \/ NobodyNew \/ (~lost /\ \E c \in Callers : Books(c))
<1>t. /\ lost \in BOOLEAN
      /\ caller \in [Callers -> Caller]
  BY DEF SleeperInv, PacedInv, Typed, TypeOK
<1> USE DEF disk
<1>2. ASSUME NEW c \in Callers, NEW stage \in Stages \ {"waiting"}, NEW lane,
             NEW wake, Goes(c, stage, lane, wake) \/ Leaves(c)
      PROVE  \A d \in Callers : Sleeps(d)' => caller'[d] = caller[d]
  BY <1>t, <1>2 DEF Goes, Leaves, Idle, Sleeps
<1>3. ASSUME NEW c \in Callers,
             \/ \E lane \in Traffic : Begin(c, lane)
             \/ CheckCooldown(c) \/ TooLong(c) \/ Send(c)
             \/ ReadSucceeds(c) \/ Ends(c)
      PROVE  NobodyNew
  <2>1. UNCHANGED disk
    BY <1>3 DEF Begin, CheckCooldown, TooLong, Send, ReadSucceeds, Ends
  <2>2. \E stage \in Stages \ {"waiting"} : \E lane, wake :
           Goes(c, stage, lane, wake) \/ Leaves(c)
    BY <1>3 DEF Begin, CheckCooldown, TooLong, Send, ReadSucceeds, Ends, Stages
  <2> QED
    BY <1>2, <2>1, <2>2 DEF NobodyNew
<1>4. ASSUME NEW c \in Callers, StreamOpens(c) \/ Throttled(c) \/ Flagged(c)
      PROVE  lost' \/ NobodyNew
  <2>1. \E stage \in Stages \ {"waiting"} : \E lane, wake :
           Goes(c, stage, lane, wake) \/ Leaves(c)
    BY <1>4 DEF StreamOpens, Throttled, Flagged, Stages
  <2>2. \E st \in Read : \E new : Save(st, new)
    BY <1>4 DEF StreamOpens, Throttled, Flagged
  <2>3. lost' \/ (booked' = booked /\ (~lost' => ~lost))
    BY <1>t, <2>2 DEF Save
  <2> QED
    BY <1>2, <2>1, <2>3 DEF NobodyNew
<1>5. ASSUME NEW c \in Callers, Reserve(c)
      PROVE  lost' \/ (~lost /\ Books(c))
  <2> DEFINE lane == caller[c].lane
  <2>1. PICK st \in Read :
          LET t == Slot(st, lane)
          IN /\ t <= now + MaxWait
             /\ \E jitter \in 0 .. Jitter(lane) :
                   Goes(c, "waiting", lane, t + jitter)
             /\ \/ /\ state' = Reserved(st, lane, t)
                   /\ booked' = [(IF st = state THEN booked ELSE NoSlots)
                                   EXCEPT ![lane] = @ \cup {t}]
                   /\ lost' = (lost \/ st # state)
                \/ DiskFaults /\ lost' = TRUE /\ UNCHANGED <<state, booked>>
    BY <1>5 DEF Reserve
  <2>2. now' = now
    BY <1>5 DEF Reserve
  <2>3. lost' \/ (~lost /\ st = state)
    BY <1>t, <2>1
  <2>4. CASE lost'
    BY <2>4
  <2>5. CASE ~lost' /\ ~lost /\ st = state
    BY <2>1, <2>2, <2>5 DEF Books
  <2> QED
    BY <2>3, <2>4, <2>5
<1>6. CASE Tick
  BY <1>6 DEF Tick, NobodyNew
<1>7. CASE UNCHANGED vars
  BY <1>7 DEF vars, NobodyNew
<1> QED
  BY <1>3, <1>4, <1>5, <1>6, <1>7 DEF Next, Acquire, Answer

\* A new sleeper's slot follows every slot on record by the lane's interval.
LEMMA NewSleeper ==
    ASSUME SleeperInv, ~lost, NEW c \in Callers, Books(c)
    PROVE  (OnRecord /\ SleepersKeepApart)'
<1>t. /\ caller \in [Callers -> Caller] /\ now \in Nat
      /\ booked \in [Lanes -> SUBSET Nat]
      /\ \A d \in Callers : caller[d].lane \in Lanes /\ caller[d].wake \in Nat
      /\ \A lane \in Lanes : Jitter(lane) \in Nat /\ Pause(lane) \in Nat
  BY LimitsAssumption
  DEF SleeperInv, PacedInv, Typed, TypeOK, Caller, Jitter, Pause
<1> DEFINE lane == caller[c].lane
           t == Slot(state, lane)
<1>1. lane \in Lanes
  BY <1>t
<1>2. PICK jitter \in 0 .. Jitter(lane) : Goes(c, "waiting", lane, t + jitter)
  BY DEF Books
<1>3. /\ t \in now .. now + MaxWait
      /\ \A b \in booked[lane] : b + Pause(lane) <= t
      /\ booked' = [booked EXCEPT ![lane] = @ \cup {t}]
  BY <1>1, ReserveBooks DEF SleeperInv
<1> HIDE DEF lane, t
<1>4. t \in Nat /\ jitter \in 0 .. Jitter(lane) /\ Jitter(lane) \in Nat
  BY <1>t, <1>1, <1>2, <1>3, LimitsAssumption
<1>5. /\ caller'[c].stage = "waiting" /\ caller'[c].lane = lane
      /\ caller'[c].wake = t + jitter
      /\ \A d \in Callers \ {c} : caller'[d] = caller[d]
  BY <1>t, <1>2 DEF Goes
<1>6. /\ t \in booked'[lane]
      /\ \A l \in Lanes : booked[l] \subseteq booked'[l]
  BY <1>t, <1>1, <1>3
<1>7. \A d \in Callers \ {c} : Sleeps(d) =>
         \E u \in booked[caller[d].lane] :
            caller[d].wake \in u .. u + Jitter(caller[d].lane)
  BY DEF SleeperInv, OnRecord
<1>8. caller'[c].wake \in t .. t + Jitter(lane)
  BY <1>4, <1>5
<1>9. OnRecord'
  BY <1>t, <1>5, <1>6, <1>7, <1>8 DEF OnRecord, Sleeps
<1>10. \A d \in Callers \ {c} : Sleeps(d) /\ caller[d].lane = lane =>
          caller[d].wake + Pause(lane) <= caller'[c].wake + Jitter(lane)
  <2> SUFFICES ASSUME NEW d \in Callers \ {c}, Sleeps(d), caller[d].lane = lane
               PROVE  caller[d].wake + Pause(lane) <= caller'[c].wake + Jitter(lane)
    OBVIOUS
  <2>1. PICK u \in booked[lane] : caller[d].wake \in u .. u + Jitter(lane)
    BY <1>7
  <2>2. u \in Nat /\ u + Pause(lane) <= t /\ caller[d].wake \in Nat
    BY <1>t, <1>1, <1>3
  <2>3. Pause(lane) \in Nat
    BY <1>t, <1>1
  <2> QED
    BY <1>4, <1>5, <2>1, <2>2, <2>3
<1>11. \A d, e \in Callers \ {c} :
          d # e /\ Sleeps(d) /\ Sleeps(e) /\ caller[e].lane = caller[d].lane =>
             \/ caller[d].wake + Pause(caller[d].lane)
                  <= caller[e].wake + Jitter(caller[d].lane)
             \/ caller[e].wake + Pause(caller[d].lane)
                  <= caller[d].wake + Jitter(caller[d].lane)
  BY DEF SleeperInv, SleepersKeepApart
<1>12. SleepersKeepApart'
  BY <1>5, <1>10, <1>11 DEF SleepersKeepApart, Sleeps
<1> QED
  BY <1>9, <1>12

\* Whatever processes call it, for any settings: until the disk loses something,
\* no two callers are let through closer to each other than their lane's
\* interval, less the jitter each adds of its own.
THEOREM SleepersStayApart ==
    Spec => []SleepersKeepApart
<1>1. Init => SleeperInv
  <2>1. Init => \A c \in Callers : ~Sleeps(c)
    BY DEF Init, Sleeps, Idle
  <2> QED
    BY <2>1, PacedInit DEF SleeperInv, OnRecord, SleepersKeepApart
<1>2. SleeperInv /\ [Next]_vars => SleeperInv'
  <2> SUFFICES ASSUME SleeperInv, [Next]_vars PROVE SleeperInv'
    OBVIOUS
  <2>1. PacedInv'
    BY PacedStep DEF SleeperInv
  <2>2. CASE lost'
    BY <2>1, <2>2 DEF SleeperInv, OnRecord, SleepersKeepApart
  <2>3. CASE NobodyNew
    <3>1. OnRecord'
      BY <2>3 DEF SleeperInv, OnRecord, NobodyNew, Sleeps
    <3>2. SleepersKeepApart'
      BY <2>3 DEF SleeperInv, SleepersKeepApart, NobodyNew, Sleeps
    <3> QED
      BY <2>1, <3>1, <3>2 DEF SleeperInv
  <2>4. ASSUME ~lost, NEW c \in Callers, Books(c) PROVE SleeperInv'
    BY <2>1, <2>4, NewSleeper DEF SleeperInv
  <2> QED
    BY <2>2, <2>3, <2>4, SleepCases
<1>3. SleeperInv => SleepersKeepApart
  BY DEF SleeperInv
<1> QED
  BY <1>1, <1>2, <1>3, PTL DEF Spec

=============================================================================
