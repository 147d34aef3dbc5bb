------------------------- MODULE RequestSetupProofs -------------------------
(* Proofs about RequestSetup, for any number of calls and processes.        *)
EXTENDS RequestSetup, TLAPS

-----------------------------------------------------------------------------
(* Types *)

LEMMA InitTypeOK == ASSUME Init PROVE TypeOK
  BY SetupAssumption DEF Init, TypeOK, Stage, Sessions

LEMMA ReloadTypeOK ==
    ASSUME TypeOK, NEW c \in Calls, Reload(c) PROVE TypeOK'
  <1>1. CASE Load(c)
    BY <1>1, SetupAssumption
       DEF Load, Goes, TypeOK, Stage, breakerVars, sessionVars
  <1>2. CASE Store(c)
    BY <1>2, SetupAssumption
       DEF Store, Goes, TypeOK, Stage, breakerVars, sessionVars
  <1>3. CASE LoadFails(c)
    BY <1>3, SetupAssumption
       DEF LoadFails, Goes, TypeOK, Stage, breakerVars, sessionVars, tokenVars
  <1> QED BY <1>1, <1>2, <1>3 DEF Reload

LEMMA SavesTypes ==
    ASSUME TypeOK, NEW b \in {"closed", "cooling", "flagged"},
           NEW n \in 0 .. Threshold, Saves(b, n)
    PROVE  /\ breaker' \in {"closed", "cooling", "flagged"}
           /\ fails' \in 0 .. Threshold
           /\ late' \in [Calls -> Nat]
  BY DEF Saves, TypeOK, breakerVars

LEMMA NotesFailureTypes ==
    ASSUME TypeOK, NotesFailure
    PROVE  /\ breaker' \in {"closed", "cooling", "flagged"}
           /\ fails' \in 0 .. Threshold
           /\ late' \in [Calls -> Nat]
  <1>1. CASE fails + 1 >= Threshold
    BY <1>1, SavesTypes, SetupAssumption DEF NotesFailure, TypeOK
  <1>2. CASE ~(fails + 1 >= Threshold)
    <2>1. fails + 1 \in 0 .. Threshold
      BY <1>2, SetupAssumption DEF TypeOK
    <2> QED BY <1>2, <2>1, SavesTypes DEF NotesFailure, TypeOK
  <1> QED BY <1>1, <1>2

LEMMA AskTypes ==
    ASSUME TypeOK, NEW c \in Calls, Asks(c)
    PROVE  /\ breaker' \in {"closed", "cooling", "flagged"}
           /\ fails' \in 0 .. Threshold
           /\ late' \in [Calls -> Nat]
  BY DEF Asks, TypeOK

LEMMA DropTypes ==
    ASSUME TypeOK, NEW c \in Calls, Drops(c)
    PROVE  /\ profile' \in [Procs -> Sessions \cup {NoSession}]
           /\ session' \in [Calls -> Sessions \cup {NoSession}]
           /\ dropped' \subseteq Sessions
  <1>1. Home[c] \in Procs
    BY SetupAssumption
  <1>2. {profile[Home[c]], session[c]} \ {NoSession} \subseteq Sessions
    BY <1>1 DEF TypeOK
  <1>3. dropped' \subseteq Sessions
    BY <1>2 DEF Drops, TypeOK
  <1> QED BY <1>1, <1>3 DEF Drops, TypeOK

LEMMA MintTypeOK ==
    ASSUME TypeOK, NEW c \in Calls, Mint(c) PROVE TypeOK'
  <1>1. CASE MintStarts(c)
    BY <1>1, SetupAssumption
       DEF MintStarts, Goes, TypeOK, Stage, breakerVars, tokenVars
  <1>2. CASE Seeded(c)
    <2>1. <<c, attempt[c]>> \in Sessions
      BY DEF TypeOK, Sessions
    <2> QED
      BY <1>2, <2>1, SetupAssumption
         DEF Seeded, Goes, TypeOK, Stage, breakerVars, tokenVars
  <1>3. CASE MintPosts(c)
    BY <1>3, AskTypes DEF MintPosts, Goes, TypeOK, Stage, sessionVars, tokenVars
  <1>4. CASE MintFlagged(c)
    BY <1>4, SavesTypes
       DEF MintFlagged, Goes, TypeOK, Stage, sessionVars, tokenVars
  <1>5. CASE FlaggedDrops(c)
    BY <1>5, DropTypes
       DEF FlaggedDrops, Goes, TypeOK, Stage, breakerVars, tokenVars
  <1>6. CASE MintRejected(c)
    BY <1>6, NotesFailureTypes
       DEF MintRejected, Goes, TypeOK, Stage, sessionVars, tokenVars
  <1>7. CASE MintBreaks(c)
    BY <1>7 DEF MintBreaks, Goes, TypeOK, Stage, breakerVars, sessionVars, tokenVars
  <1>8. CASE Minted(c)
    <2>1. 0 \in 0 .. Threshold
      BY SetupAssumption
    <2> QED
      BY <1>8, <2>1, SavesTypes
         DEF Minted, Goes, TypeOK, Stage, sessionVars, tokenVars
  <1> QED BY <1>1, <1>2, <1>3, <1>4, <1>5, <1>6, <1>7, <1>8 DEF Mint

LEMMA SetupTypeOK ==
    ASSUME TypeOK, NEW c \in Calls, Setup(c) PROVE TypeOK'
  <1>1. CASE TurnedAway(c) \/ Posts(c) \/ GatePosts(c) \/ GateRaises(c)
    BY <1>1 DEF TurnedAway, Posts, GatePosts, GateRaises, Goes, TypeOK, Stage,
                breakerVars, sessionVars, tokenVars
  <1>2. CASE Prepare(c)
    BY <1>2, SetupAssumption
       DEF Prepare, Goes, TypeOK, Stage, breakerVars, sessionVars
  <1>3. CASE Retry(c)
    <2>1. /\ stage' \in [Calls -> Stage]
          /\ attempt' \in [Calls -> 1 .. Attempts]
      BY <1>3, SetupAssumption DEF Retry, Goes, TypeOK, Stage
    <2> QED BY <1>3, <2>1, DropTypes DEF Retry, TypeOK, breakerVars, tokenVars
  <1>4. CASE GateAsks(c)
    BY <1>4 DEF GateAsks, Goes, TypeOK, Stage, breakerVars, sessionVars, tokenVars
  <1> QED BY <1>1, <1>2, <1>3, <1>4 DEF Setup

LEMMA NextTypeOK == ASSUME TypeOK, [Next]_vars PROVE TypeOK'
  <1>1. CASE Refresh
    <2>1. login' \in Nat
      BY <1>1 DEF Refresh, TypeOK
    <2>2. readable' \in BOOLEAN
      BY <1>1, Zenon DEF Refresh, TypeOK
    <2> QED BY <1>1, <2>1, <2>2 DEF Refresh, TypeOK, breakerVars, sessionVars
  <1>2. CASE CooldownEnds
    <2>1. late' \in [Calls -> Nat]
      BY <1>2 DEF CooldownEnds
    <2> QED BY <1>2, <2>1 DEF CooldownEnds, TypeOK, sessionVars, tokenVars
  <1>3. CASE UNCHANGED vars
    BY <1>3 DEF vars, TypeOK, breakerVars, sessionVars, tokenVars
  <1> QED BY <1>1, <1>2, <1>3, ReloadTypeOK, MintTypeOK, SetupTypeOK DEF Next

\* Whatever calls there are, the state keeps its types; in particular no call
\* makes more mint attempts than it has.
THEOREM TypeCorrect == Spec => []TypeOK
  BY InitTypeOK, NextTypeOK, PTL DEF Spec

-----------------------------------------------------------------------------
(* Mints stop                                                              *)

\* The stages by what a call may have asked for since the breaker opened: a mint
\* is begun only while it is closed, so who is about to post has asked nothing.
NothingAsked == {"new", "reloading", "queued", "seeding", "posting"}

Restraint ==
    /\ breaker = "closed" => \A c \in Calls : late[c] = 0
    /\ \A c \in Calls :
         /\ stage[c] \in NothingAsked => late[c] = 0
         /\ late[c] <= 1

LEMMA InitRestraint == ASSUME Init PROVE Restraint
  BY DEF Init, Restraint, NothingAsked

\* A step of c that saves something and leaves c where it may have asked once.
LEMMA SavesRestraint ==
    ASSUME TypeOK, Restraint, NEW c \in Calls,
           stage[c] \notin NothingAsked,
           NEW to \in Stage \ NothingAsked,
           stage' = [stage EXCEPT ![c] = to],
           NEW b \in {"closed", "cooling", "flagged"}, NEW n \in Nat,
           Saves(b, n)
    PROVE  Restraint'
  BY DEF Restraint, Saves, TypeOK, breakerVars, NothingAsked

LEMMA AsksRestraint ==
    ASSUME TypeOK, Restraint, NEW c \in Calls, Asks(c),
           stage[c] = "posting", stage' = [stage EXCEPT ![c] = "asked"]
    PROVE  Restraint'
  BY DEF Restraint, Asks, TypeOK, NothingAsked

\* A step that leaves the breaker and the counts alone and takes c from one
\* stage to a later one.
LEMMA MoveRestraint ==
    ASSUME TypeOK, Restraint, NEW c \in Calls, NEW to \in Stage,
           UNCHANGED breakerVars,
           stage' = [stage EXCEPT ![c] = to],
           to \in NothingAsked => late[c] = 0
    PROVE  Restraint'
  BY DEF Restraint, TypeOK, breakerVars, NothingAsked

LEMMA ReloadRestraint ==
    ASSUME TypeOK, Restraint, NEW c \in Calls, Reload(c) PROVE Restraint'
  BY MoveRestraint
     DEF Reload, Load, Store, LoadFails, Goes, Stage, Restraint,
         NothingAsked, breakerVars

LEMMA MintRestraint ==
    ASSUME TypeOK, Restraint, NEW c \in Calls, Mint(c) PROVE Restraint'
  <1>1. CASE MintStarts(c)
    BY <1>1, MoveRestraint
       DEF MintStarts, Goes, Stage, Restraint, NothingAsked, breakerVars
  <1>2. CASE Seeded(c) \/ FlaggedDrops(c) \/ MintBreaks(c)
    BY <1>2, MoveRestraint
       DEF Seeded, FlaggedDrops, MintBreaks, Goes, Stage, Restraint,
           NothingAsked, breakerVars
  <1>3. CASE MintPosts(c)
    BY <1>3, AsksRestraint DEF MintPosts, Goes
  <1>4. CASE MintFlagged(c)
    <2>1. fails \in Nat
      BY SetupAssumption DEF TypeOK
    <2> QED
      BY <1>4, <2>1, SavesRestraint
         DEF MintFlagged, Goes, Stage, NothingAsked
  <1>5. CASE MintRejected(c)
    <2>1. /\ Threshold \in Nat /\ fails + 1 \in Nat
          /\ breaker \in {"closed", "cooling", "flagged"}
      BY SetupAssumption DEF TypeOK
    <2>2. PICK b \in {"closed", "cooling", "flagged"}, n \in Nat : Saves(b, n)
      BY <1>5, <2>1 DEF MintRejected, NotesFailure
    <2> QED
      BY <1>5, <2>2, SavesRestraint
         DEF MintRejected, Goes, Stage, NothingAsked
  <1>6. CASE Minted(c)
    BY <1>6, SavesRestraint DEF Minted, Goes, Stage, NothingAsked
  <1> QED BY <1>1, <1>2, <1>3, <1>4, <1>5, <1>6 DEF Mint

LEMMA SetupRestraint ==
    ASSUME TypeOK, Restraint, NEW c \in Calls, Setup(c) PROVE Restraint'
  <1>1. CASE GateAsks(c)
    BY <1>1, MoveRestraint
       DEF GateAsks, Goes, Stage, Restraint, NothingAsked, breakerVars
  <1>2. CASE TurnedAway(c) \/ Prepare(c) \/ Posts(c)
    BY <1>2, MoveRestraint
       DEF TurnedAway, Prepare, Posts, Goes, Stage, Restraint,
           NothingAsked, breakerVars
  <1>3. CASE Retry(c) \/ GatePosts(c) \/ GateRaises(c)
    BY <1>3, MoveRestraint
       DEF Retry, GatePosts, GateRaises, Goes, Stage, Restraint,
           NothingAsked, breakerVars
  <1> QED BY <1>1, <1>2, <1>3 DEF Setup

LEMMA NextRestraint ==
    ASSUME TypeOK, Restraint, [Next]_vars PROVE Restraint'
  <1>1. CASE CooldownEnds
    BY <1>1 DEF CooldownEnds, Restraint
  <1>2. CASE Refresh \/ UNCHANGED vars
    BY <1>2 DEF Refresh, vars, breakerVars, Restraint
  <1> QED BY <1>1, <1>2, ReloadRestraint, MintRestraint, SetupRestraint DEF Next

\* However many calls and processes there are, a call mints once at most while
\* the breaker is open, and that mint was begun before.
THEOREM NoRetriesWhileOpen == Spec => []MintsStop
  <1>1. Restraint => MintsStop
    BY DEF Restraint, MintsStop
  <1> QED
    BY <1>1, InitTypeOK, NextTypeOK, InitRestraint, NextRestraint, PTL DEF Spec

-----------------------------------------------------------------------------
(* The bearer                                                              *)

\* Headers never hold a newer token than the sources; who holds the lock has
\* loaded one at least as new as the header it will replace.
Tokens ==
    /\ \A p \in Procs : bearer[p] <= login
    /\ \A c \in Calls :
         /\ loaded[c] <= login
         /\ stage[c] = "new" => loaded[c] = 0
         /\ stage[c] = "reloading" =>
              lock[Home[c]] = c /\ loaded[c] >= bearer[Home[c]]
         /\ stage[c] = "queued" => bearer[Home[c]] >= loaded[c]

BearerInv == Tokens /\ BearerIsCurrent

LEMMA InitBearer == ASSUME Init PROVE BearerInv
  BY SetupAssumption DEF Init, BearerInv, Tokens, BearerIsCurrent

LEMMA LoadBearer ==
    ASSUME TypeOK, BearerInv, NEW c \in Calls, Load(c) PROVE BearerInv'
  <1>1. \A d \in Calls : Home[d] \in Procs
    BY SetupAssumption
  <1>2. Tokens'
    <2>1. ASSUME NEW d \in Calls, stage'[d] = "reloading"
          PROVE  lock'[Home[d]] = d /\ loaded'[d] >= bearer'[Home[d]]
      BY <1>1, <2>1, SetupAssumption DEF Load, Goes, TypeOK, BearerInv, Tokens
    <2> QED BY <1>1, <2>1 DEF Load, Goes, TypeOK, BearerInv, Tokens
  <1>3. BearerIsCurrent'
    BY DEF Load, Goes, TypeOK, BearerInv, BearerIsCurrent
  <1> QED BY <1>2, <1>3 DEF BearerInv

LEMMA StoreBearer ==
    ASSUME TypeOK, BearerInv, NEW c \in Calls, Store(c) PROVE BearerInv'
  <1>1. Home[c] \in Procs /\ \A d \in Calls : Home[d] \in Procs
    BY SetupAssumption
  <1>2. Tokens'
    <2>1. \A p \in Procs : bearer'[p] <= login'
      BY <1>1 DEF Store, TypeOK, BearerInv, Tokens
    <2>2. ASSUME NEW d \in Calls
          PROVE  /\ loaded'[d] <= login'
                 /\ stage'[d] = "new" => loaded'[d] = 0
      BY DEF Store, Goes, TypeOK, BearerInv, Tokens
    <2>3. ASSUME NEW d \in Calls, stage'[d] = "reloading"
          PROVE  lock'[Home[d]] = d /\ loaded'[d] >= bearer'[Home[d]]
      BY <1>1, <2>3 DEF Store, Goes, TypeOK, BearerInv, Tokens
    <2>4. ASSUME NEW d \in Calls, stage'[d] = "queued"
          PROVE  bearer'[Home[d]] >= loaded'[d]
      BY <1>1, <2>4 DEF Store, Goes, TypeOK, BearerInv, Tokens
    <2> QED BY <2>1, <2>2, <2>3, <2>4 DEF Tokens
  <1>3. BearerIsCurrent'
    BY DEF Store, Goes, TypeOK, BearerInv, BearerIsCurrent
  <1> QED BY <1>2, <1>3 DEF BearerInv

LEMMA PrepareBearer ==
    ASSUME TypeOK, BearerInv, NEW c \in Calls, Prepare(c) PROVE BearerInv'
  <1>1. \A d \in Calls : Home[d] \in Procs
    BY SetupAssumption
  <1> QED
    BY <1>1 DEF Prepare, Goes, TypeOK, BearerInv, Tokens, BearerIsCurrent

\* Steps that leave the tokens alone: nothing is queued or reloading after them
\* that was not before.
LEMMA StillBearer ==
    ASSUME TypeOK, BearerInv, UNCHANGED tokenVars,
           \A c \in Calls :
              \/ stage'[c] = stage[c]
              \/ stage[c] = "new" /\ stage'[c] = "queued"
              \/ stage[c] = "queued" /\ stage'[c] = "raised"
              \/ /\ stage[c] \notin {"new", "reloading", "queued", "raised"}
                 /\ stage'[c] \notin {"new", "reloading", "queued"}
    PROVE  BearerInv'
  <1>1. \A d \in Calls : Home[d] \in Procs
    BY SetupAssumption
  <1> QED
    BY <1>1 DEF TypeOK, BearerInv, Tokens, BearerIsCurrent, tokenVars

LEMMA NextBearer ==
    ASSUME TypeOK, BearerInv, [Next]_vars PROVE BearerInv'
  <1>1. CASE Refresh
    BY <1>1 DEF Refresh, TypeOK, BearerInv, Tokens, BearerIsCurrent
  <1>2. CASE CooldownEnds \/ UNCHANGED vars
    BY <1>2, StillBearer DEF CooldownEnds, vars
  <1>3. ASSUME NEW c \in Calls, Reload(c) PROVE BearerInv'
    BY <1>3, LoadBearer, StoreBearer, StillBearer
       DEF Reload, LoadFails, Goes, TypeOK
  <1>4. ASSUME NEW c \in Calls, Mint(c) PROVE BearerInv'
    BY <1>4, StillBearer
       DEF Mint, MintStarts, Seeded, MintPosts, MintFlagged, FlaggedDrops,
           MintRejected, MintBreaks, Minted, Goes, TypeOK
  <1>5. ASSUME NEW c \in Calls, Setup(c) PROVE BearerInv'
    BY <1>5, PrepareBearer, StillBearer
       DEF Setup, TurnedAway, Posts, Retry, GateAsks, GatePosts, GateRaises,
           Goes, TypeOK
  <1> QED BY <1>1, <1>2, <1>3, <1>4, <1>5 DEF Next

\* In every process, however its threads interleave, a call goes on with a token
\* at least as new as the one it found.
THEOREM NoStaleBearer == Spec => []BearerIsCurrent
  <1>1. BearerInv => BearerIsCurrent
    BY DEF BearerInv
  <1> QED
    BY <1>1, InitTypeOK, NextTypeOK, InitBearer, NextBearer, PTL DEF Spec
-----------------------------------------------------------------------------
(* Dropped sessions                                                        *)

\* The session of a mint attempt can have been opened by now.
Opened(x) ==
    \/ x[2] < attempt[x[1]]
    \/ /\ x[2] = attempt[x[1]]
       /\ stage[x[1]] \notin {"new", "reloading", "queued", "minting", "seeding"}

\* A process only holds sessions that its own calls have opened, and none that
\* was dropped.
SessionsInv ==
    /\ \A x \in dropped : Opened(x)
    /\ \A p \in Procs : profile[p] # NoSession =>
         /\ Opened(profile[p])
         /\ profile[p] \notin dropped
         /\ Home[profile[p][1]] = p
    /\ \A c \in Calls : session[c] # NoSession =>
         /\ Opened(session[c])
         /\ Home[session[c][1]] = Home[c]

LEMMA InitSessions == ASSUME Init PROVE SessionsInv
  BY DEF Init, SessionsInv

LEMMA SessionParts ==
    ASSUME NEW x \in Sessions PROVE x[1] \in Calls /\ x[2] \in Nat
  BY SetupAssumption DEF Sessions

\* What may have been opened may have been opened later on.
LEMMA OpenedStays ==
    ASSUME TypeOK, [Next]_vars, NEW x \in Sessions, Opened(x) PROVE Opened(x)'
  <1>1. x[1] \in Calls /\ x[2] \in Nat
    BY SessionParts
  <1>2. CASE Refresh \/ CooldownEnds \/ UNCHANGED vars
    BY <1>1, <1>2 DEF Refresh, CooldownEnds, vars, Opened
  <1>3. ASSUME NEW c \in Calls, Reload(c) PROVE Opened(x)'
    BY <1>1, <1>3 DEF Reload, Load, Store, LoadFails, Goes, TypeOK, Opened
  <1>4. ASSUME NEW c \in Calls, Mint(c) PROVE Opened(x)'
    BY <1>1, <1>4
       DEF Mint, MintStarts, Seeded, MintPosts, MintFlagged, FlaggedDrops,
           MintRejected, MintBreaks, Minted, Goes, TypeOK, Opened
  <1>5. ASSUME NEW c \in Calls, Retry(c) PROVE Opened(x)'
    BY <1>1, <1>5, SetupAssumption DEF Retry, Goes, TypeOK, Opened
  <1>6. ASSUME NEW c \in Calls, Setup(c), ~Retry(c) PROVE Opened(x)'
    BY <1>1, <1>6
       DEF Setup, TurnedAway, Prepare, Posts, GateAsks, GatePosts, GateRaises,
           Goes, TypeOK, Opened
  <1> QED BY <1>2, <1>3, <1>4, <1>5, <1>6 DEF Next

\* The three ways to touch sessions.
LEMMA KeepSessions ==
    ASSUME TypeOK, SessionsInv, [Next]_vars, UNCHANGED <<profile, dropped>>,
           \A c \in Calls :
              session'[c] \in {session[c], NoSession, profile[Home[c]]}
    PROVE  SessionsInv'
  <1>1. \A c \in Calls : Home[c] \in Procs
    BY SetupAssumption
  <1>2. \A x \in dropped' : Opened(x)'
    BY OpenedStays DEF SessionsInv, TypeOK
  <1>3. ASSUME NEW p \in Procs, profile'[p] # NoSession
        PROVE  /\ Opened(profile[p])'
               /\ profile'[p] \notin dropped'
               /\ Home[profile'[p][1]] = p
    <2>1. PICK x \in Sessions : x = profile[p] /\ x = profile'[p]
      BY <1>3 DEF TypeOK
    <2>2. Opened(x) /\ x \notin dropped /\ Home[x[1]] = p
      BY <1>3, <2>1 DEF SessionsInv
    <2>3. Opened(x)'
      BY <2>2, OpenedStays
    <2> QED BY <2>1, <2>2, <2>3 DEF Opened
  <1>4. ASSUME NEW c \in Calls, session'[c] # NoSession
        PROVE  Opened(session[c])' /\ Home[session'[c][1]] = Home[c]
    <2>1. PICK x \in Sessions :
             session'[c] = x /\ (x = session[c] \/ x = profile[Home[c]])
      BY <1>1, <1>4 DEF TypeOK
    <2>2. x # NoSession
      BY SetupAssumption
    <2>3. Opened(x) /\ Home[x[1]] = Home[c]
      BY <1>1, <2>1, <2>2 DEF SessionsInv
    <2>4. Opened(x)'
      BY <2>3, OpenedStays
    <2> QED BY <2>1, <2>3, <2>4 DEF Opened
  <1> QED BY <1>2, <1>3, <1>4 DEF SessionsInv

LEMMA DropsSessions ==
    ASSUME TypeOK, SessionsInv, [Next]_vars, NEW c \in Calls, Drops(c)
    PROVE  SessionsInv'
  <1>1. \A d \in Calls : Home[d] \in Procs
    BY SetupAssumption
  <1>2. ASSUME NEW x \in dropped' PROVE x \in Sessions /\ Opened(x)
    BY <1>1, <1>2 DEF Drops, SessionsInv, TypeOK
  <1>3. \A x \in dropped' : Opened(x)'
    BY <1>2, OpenedStays
  <1>4. ASSUME NEW p \in Procs, profile'[p] # NoSession
        PROVE  /\ Opened(profile[p])'
               /\ profile'[p] \notin dropped'
               /\ Home[profile'[p][1]] = p
    <2>1. PICK x \in Sessions :
             p # Home[c] /\ x = profile[p] /\ x = profile'[p]
      BY <1>1, <1>4 DEF Drops, TypeOK
    <2>2. Opened(x) /\ x \notin dropped /\ Home[x[1]] = p
      BY <1>4, <2>1 DEF SessionsInv, Drops
    <2>3. x \notin {profile[Home[c]], session[c]} \ {NoSession}
      BY <1>1, <2>1, <2>2 DEF SessionsInv
    <2>4. Opened(x)'
      BY <2>2, OpenedStays
    <2> QED BY <2>1, <2>2, <2>3, <2>4 DEF Drops, Opened
  <1>5. ASSUME NEW d \in Calls, session'[d] # NoSession
        PROVE  Opened(session[d])' /\ Home[session'[d][1]] = Home[d]
    <2>1. PICK x \in Sessions : x = session[d] /\ x = session'[d]
      BY <1>5 DEF Drops, TypeOK
    <2>2. Opened(x) /\ Home[x[1]] = Home[d]
      BY <1>5, <2>1 DEF SessionsInv, Drops
    <2>3. Opened(x)'
      BY <2>2, OpenedStays
    <2> QED BY <2>1, <2>2, <2>3 DEF Opened
  <1> QED BY <1>3, <1>4, <1>5 DEF SessionsInv

LEMMA SeededSessions ==
    ASSUME TypeOK, SessionsInv, [Next]_vars, NEW c \in Calls, Seeded(c)
    PROVE  SessionsInv' /\ session'[c] \notin dropped
  <1>1. PICK new \in Sessions : new = <<c, attempt[c]>>
    BY DEF TypeOK, Sessions
  <1>2. /\ new[1] = c /\ new[2] = attempt[c] /\ attempt[c] \in Nat
        /\ session'[c] = new /\ profile'[Home[c]] = new
    <2>1. new[1] = c /\ new[2] = attempt[c]
      BY <1>1
    <2>2. attempt[c] \in Nat
      BY SetupAssumption DEF TypeOK
    <2>3. Home[c] \in Procs
      BY SetupAssumption
    <2>4. session'[c] = new /\ profile'[Home[c]] = new
      BY <1>1, <2>3 DEF TypeOK, Seeded
    <2> QED BY <2>1, <2>2, <2>4
  <1>3. ~Opened(new)
    BY <1>2 DEF Opened, Seeded, Goes
  <1>4. Opened(new)'
    BY <1>2 DEF Opened, Seeded, Goes, TypeOK
  <1>5. new \notin dropped
    BY <1>3 DEF SessionsInv
  <1>6. \A x \in dropped' : Opened(x)'
    BY OpenedStays DEF SessionsInv, Seeded, TypeOK
  <1>7. ASSUME NEW p \in Procs, profile'[p] # NoSession
        PROVE  /\ Opened(profile[p])'
               /\ profile'[p] \notin dropped'
               /\ Home[profile'[p][1]] = p
    <2>1. CASE p = Home[c]
      BY <1>2, <1>4, <1>5, <2>1 DEF Seeded, Opened
    <2>2. CASE p # Home[c]
      <3>1. PICK x \in Sessions : x = profile[p] /\ x = profile'[p]
        BY <1>7, <2>2 DEF Seeded, TypeOK
      <3>2. Opened(x) /\ x \notin dropped /\ Home[x[1]] = p
        BY <1>7, <3>1 DEF SessionsInv
      <3>3. Opened(x)'
        BY <3>2, OpenedStays
      <3> QED BY <3>1, <3>2, <3>3 DEF Opened, Seeded
    <2> QED BY <2>1, <2>2
  <1>8. ASSUME NEW d \in Calls, session'[d] # NoSession
        PROVE  Opened(session[d])' /\ Home[session'[d][1]] = Home[d]
    <2>1. CASE d = c
      BY <1>2, <1>4, <2>1 DEF Opened
    <2>2. CASE d # c
      <3>1. PICK x \in Sessions : x = session[d] /\ x = session'[d]
        BY <1>8, <2>2 DEF Seeded, TypeOK
      <3>2. Opened(x) /\ Home[x[1]] = Home[d]
        BY <1>8, <3>1 DEF SessionsInv
      <3>3. Opened(x)'
        BY <3>2, OpenedStays
      <3> QED BY <3>1, <3>2, <3>3 DEF Opened
    <2> QED BY <2>1, <2>2
  <1> QED BY <1>2, <1>5, <1>6, <1>7, <1>8 DEF SessionsInv

FreshOnly ==
    \A c \in Calls : session'[c] \notin {session[c], NoSession} =>
        session'[c] \notin dropped

LEMMA NextSessions ==
    ASSUME TypeOK, SessionsInv, [Next]_vars PROVE SessionsInv' /\ FreshOnly
  <1>1. \A c \in Calls : Home[c] \in Procs
    BY SetupAssumption
  <1>2. CASE UNCHANGED sessionVars
    BY <1>2, KeepSessions DEF sessionVars, FreshOnly
  <1>3. ASSUME NEW c \in Calls, MintStarts(c) PROVE SessionsInv' /\ FreshOnly
    <2>1. \A d \in Calls : session'[d] \in {session[d], profile[Home[d]]}
      BY <1>3 DEF MintStarts, TypeOK
    <2>2. UNCHANGED <<profile, dropped>>
      BY <1>3 DEF MintStarts
    <2>3. FreshOnly
      BY <1>1, <2>1 DEF FreshOnly, SessionsInv
    <2> QED BY <2>1, <2>2, <2>3, KeepSessions
  <1>4. ASSUME NEW c \in Calls, Seeded(c) PROVE SessionsInv' /\ FreshOnly
    BY <1>4, SeededSessions DEF Seeded, FreshOnly, TypeOK
  <1>5. ASSUME NEW c \in Calls, Drops(c) PROVE SessionsInv' /\ FreshOnly
    BY <1>5, DropsSessions DEF Drops, FreshOnly, TypeOK
  <1>6. ASSUME NEW c \in Calls, Reload(c) PROVE UNCHANGED sessionVars
    BY <1>6 DEF Reload, Load, Store, LoadFails
  <1>7. ASSUME NEW c \in Calls, Mint(c)
        PROVE  MintStarts(c) \/ Seeded(c) \/ Drops(c) \/ UNCHANGED sessionVars
    BY <1>7 DEF Mint, MintPosts, MintFlagged, FlaggedDrops, MintRejected,
                MintBreaks, Minted
  <1>8. ASSUME NEW c \in Calls, Setup(c)
        PROVE  Drops(c) \/ UNCHANGED sessionVars
    BY <1>8 DEF Setup, TurnedAway, Prepare, Posts, Retry, GateAsks, GatePosts,
                GateRaises
  <1>9. CASE Refresh \/ CooldownEnds \/ UNCHANGED vars
    BY <1>2, <1>9 DEF Refresh, CooldownEnds, vars
  <1> QED BY <1>2, <1>3, <1>4, <1>5, <1>6, <1>7, <1>8, <1>9 DEF Next

\* However many threads and processes share profiles, no mint starts on a session
\* that was given up.
THEOREM DroppedSessionsRest == Spec => DroppedIsNotReused
  <1>1. TypeOK /\ SessionsInv /\ [Next]_vars =>
           SessionsInv' /\ [FreshOnly]_vars
    BY NextSessions
  <1> QED
    BY <1>1, InitTypeOK, NextTypeOK, InitSessions, PTL
       DEF Spec, DroppedIsNotReused, FreshOnly
=============================================================================
