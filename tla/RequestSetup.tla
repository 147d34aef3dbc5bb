---------------------------- MODULE RequestSetup ----------------------------
(***************************************************************************)
(* What happens before a conversation is posted: ConversationClient's      *)
(* _request_setup and _bridge_headers (sse.py), SentinelBridge.mint        *)
(* (sentinel_bridge.py), the warm session of SimProfile (sim.py), the      *)
(* legacy SentinelGate (sentinel.py) and the token reload of BackendClient *)
(* (backend.py).                                                           *)
(*                                                                         *)
(* Coroutines of one process interleave at their awaits, mints run in      *)
(* threads, and processes share the circuit breaker in the limiter's state *)
(* file.  Clock readings are kept as far as the code compares them: a      *)
(* cooldown runs out some time.                                            *)
(***************************************************************************)
EXTENDS Naturals

CONSTANTS
    Calls,      \* conversation requests
    Procs,      \* gpt2agent processes of this host
    Home,       \* Home[c]: the process that makes the request
    NoCall,     \* nobody holds the lock
    NoSession,  \* SimProfile.session is None
    Attempts,   \* mint attempts of a call: range(3)
    Threshold,  \* _BREAKER_THRESHOLD
    MaxLogins,  \* bound: tokens the sources yield one after the other
    DiskFaults  \* may saving the limiter's state fail?

Sessions == Calls \X (1 .. Attempts)    \* a session and the mint it was opened for

ASSUME SetupAssumption ==
    /\ Home \in [Calls -> Procs]
    /\ NoCall \notin Calls /\ NoSession \notin Sessions
    /\ Attempts \in Nat \ {0} /\ Threshold \in Nat \ {0}
    /\ MaxLogins \in Nat /\ DiskFaults \in BOOLEAN

VARIABLES
    stage,      \* where a call stands
    attempt,    \* which mint attempt it is at
    breaker,    \* cooldowns["breaker:sentinel_mint"]
    fails,      \* cooldowns["fails:sentinel_mint"]; Threshold and more act alike
    late,       \* history: the mints of a call that asked while the breaker was open
    profile,    \* SimProfile.session of a process
    session,    \* the session a call mints with
    dropped,    \* history: sessions given up by drop_session
    login,      \* the token its sources yield now
    readable,   \* they can be read
    lock,       \* _token_lock of a process
    loaded,     \* the token a call has read from its sources
    bearer,     \* the Authorization header of a process
    header      \* the one a call has copied into its headers

breakerVars == <<breaker, fails, late>>
sessionVars == <<profile, session, dropped>>
tokenVars   == <<login, readable, lock, loaded, bearer, header>>
vars == <<stage, attempt, breakerVars, sessionVars, tokenVars>>

Stage == {"new", "reloading", "queued", "minting", "seeding", "posting",
          "asked", "flagged", "failed", "minted", "degraded", "gate",
          "sent", "raised"}

TypeOK ==
    /\ stage \in [Calls -> Stage]
    /\ attempt \in [Calls -> 1 .. Attempts]
    /\ breaker \in {"closed", "cooling", "flagged"}
    /\ fails \in 0 .. Threshold
    /\ late \in [Calls -> Nat]
    /\ profile \in [Procs -> Sessions \cup {NoSession}]
    /\ session \in [Calls -> Sessions \cup {NoSession}]
    /\ dropped \subseteq Sessions
    /\ login \in Nat /\ readable \in BOOLEAN
    /\ lock \in [Procs -> Calls \cup {NoCall}]
    /\ loaded \in [Calls -> Nat]
    /\ bearer \in [Procs -> Nat]
    /\ header \in [Calls -> Nat]

Init ==
    /\ stage = [c \in Calls |-> "new"]
    /\ attempt = [c \in Calls |-> 1]
    /\ breaker = "closed" /\ fails = 0
    /\ late = [c \in Calls |-> 0]
    /\ profile = [p \in Procs |-> NoSession]
    /\ session = [c \in Calls |-> NoSession]
    /\ dropped = {}
    /\ login = 0 /\ readable = TRUE
    /\ lock = [p \in Procs |-> NoCall]
    /\ loaded = [c \in Calls |-> 0]
    /\ bearer = [p \in Procs |-> 0]
    /\ header = [c \in Calls |-> 0]

Goes(c, from, to) == stage[c] = from /\ stage' = [stage EXCEPT ![c] = to]

-----------------------------------------------------------------------------
(* _reload_token_if_stale: under the lock of the client, load and store.   *)
(* Reads of the account go through it as well; for the model such a read   *)
(* is a call that the limiter then turns away.                             *)

\* Mutant of Load: the lock is not waited for.
LoadUnlocked(c) ==
    /\ Goes(c, "new", "reloading")
    /\ readable
    /\ lock' = [lock EXCEPT ![Home[c]] = c]
    /\ loaded' = [loaded EXCEPT ![c] = login]
    /\ UNCHANGED <<attempt, breakerVars, sessionVars,
                   login, readable, bearer, header>>

Load(c) ==
    /\ Goes(c, "new", "reloading")
    /\ readable /\ lock[Home[c]] = NoCall
    /\ lock' = [lock EXCEPT ![Home[c]] = c]
    /\ loaded' = [loaded EXCEPT ![c] = login]
    /\ UNCHANGED <<attempt, breakerVars, sessionVars,
                   login, readable, bearer, header>>

Store(c) ==
    /\ Goes(c, "reloading", "queued")
    /\ bearer' = [bearer EXCEPT ![Home[c]] = loaded[c]]
    /\ lock' = [lock EXCEPT ![Home[c]] = NoCall]
    /\ UNCHANGED <<attempt, breakerVars, sessionVars,
                   login, readable, loaded, header>>

\* No source yields a token: the stale one is kept.
LoadFails(c) ==
    /\ Goes(c, "new", "queued")
    /\ ~readable /\ lock[Home[c]] = NoCall
    /\ UNCHANGED <<attempt, breakerVars, sessionVars, tokenVars>>

\* The login is refreshed in the background, comes or goes.
Refresh ==
    /\ \/ login < MaxLogins /\ login' = login + 1 /\ readable' = TRUE
       \/ readable' = ~readable /\ UNCHANGED login
    /\ UNCHANGED <<stage, attempt, breakerVars, sessionVars,
                   lock, loaded, bearer, header>>

-----------------------------------------------------------------------------
(* The circuit breaker: note_failure, note_cooldown, note_success          *)

\* A mint of c asks the chat-requirements endpoint.
Asks(c) ==
    /\ late' = IF breaker = "closed" THEN late ELSE [late EXCEPT ![c] = @ + 1]
    /\ UNCHANGED <<breaker, fails>>

\* What is saved under the lock of the limiter's file, if it can be.
Saves(b, n) ==
    \/ /\ breaker' = b /\ fails' = n
       /\ late' = IF b = "closed" THEN [c \in Calls |-> 0] ELSE late
    \/ DiskFaults /\ UNCHANGED breakerVars

\* At the threshold ten minutes are noted, also over the half hour of a flag.
NotesFailure ==
    IF fails + 1 >= Threshold THEN Saves("cooling", Threshold)
                              ELSE Saves(breaker, fails + 1)

CooldownEnds ==
    /\ breaker # "closed"
    /\ breaker' = "closed" /\ late' = [c \in Calls |-> 0]
    /\ UNCHANGED <<fails, stage, attempt, sessionVars, tokenVars>>

-----------------------------------------------------------------------------
(* _request_setup and _bridge_headers                                      *)

\* The limiter raises, or a probe is all that was wanted.
TurnedAway(c) ==
    /\ Goes(c, "queued", "raised")
    /\ UNCHANGED <<attempt, breakerVars, sessionVars, tokenVars>>

\* The slot has come and the headers are copied.  The owner's bridge is there,
\* or not: the directory and its ENABLED marker are looked up every time.  If it
\* is, the breaker is looked at.
Prepare(c) ==
    /\ \/ Goes(c, "queued", "degraded")
       \/ breaker = "closed" /\ Goes(c, "queued", "minting")
       \/ breaker # "closed" /\ Goes(c, "queued", "raised")
    /\ header' = [header EXCEPT ![c] = bearer[Home[c]]]
    /\ UNCHANGED <<attempt, breakerVars, sessionVars,
                   login, readable, lock, loaded, bearer>>

\* Mutant of MintStarts: mint does not look at the breaker.
MintStartsAnyway(c) ==
    /\ \/ /\ profile[Home[c]] # NoSession /\ Goes(c, "minting", "posting")
          /\ session' = [session EXCEPT ![c] = profile[Home[c]]]
       \/ /\ profile[Home[c]] = NoSession /\ Goes(c, "minting", "seeding")
          /\ UNCHANGED session
    /\ UNCHANGED <<attempt, breakerVars, profile, dropped, tokenVars>>

\* mint, in a thread: the breaker is looked at again; a warm session is taken.
MintStarts(c) ==
    /\ \/ /\ breaker # "closed" /\ Goes(c, "minting", "failed")
          /\ UNCHANGED session
       \/ /\ breaker = "closed" /\ profile[Home[c]] # NoSession
          /\ Goes(c, "minting", "posting")
          /\ session' = [session EXCEPT ![c] = profile[Home[c]]]
       \/ /\ breaker = "closed" /\ profile[Home[c]] = NoSession
          /\ Goes(c, "minting", "seeding")
          /\ UNCHANGED session
    /\ UNCHANGED <<attempt, breakerVars, profile, dropped, tokenVars>>

\* ensure_session has opened one; who comes second replaces the first.
Seeded(c) ==
    /\ Goes(c, "seeding", "posting")
    /\ session' = [session EXCEPT ![c] = <<c, attempt[c]>>]
    /\ profile' = [profile EXCEPT ![Home[c]] = <<c, attempt[c]>>]
    /\ UNCHANGED <<attempt, breakerVars, dropped, tokenVars>>

MintPosts(c) ==
    /\ Goes(c, "posting", "asked")
    /\ Asks(c)
    /\ UNCHANGED <<attempt, sessionVars, tokenVars>>

\* "Unusual activity": half an hour for every process ...
MintFlagged(c) ==
    /\ Goes(c, "asked", "flagged")
    /\ Saves("flagged", fails)
    /\ UNCHANGED <<attempt, sessionVars, tokenVars>>

\* Mutant of Drops: the session of the profile stays.
DropsOwn(c) ==
    /\ dropped' = dropped \cup ({profile[Home[c]], session[c]} \ {NoSession})
    /\ session' = [session EXCEPT ![c] = NoSession]
    /\ UNCHANGED profile

\* drop_session: what the profile holds is closed and forgotten.
Drops(c) ==
    /\ dropped' = dropped \cup ({profile[Home[c]], session[c]} \ {NoSession})
    /\ session' = [session EXCEPT ![c] = NoSession]
    /\ profile' = [profile EXCEPT ![Home[c]] = NoSession]

\* ... and the session is dropped, before the failure is reported.
FlaggedDrops(c) ==
    /\ Goes(c, "flagged", "failed")
    /\ Drops(c)
    /\ UNCHANGED <<attempt, breakerVars, tokenVars>>

\* Another status, no token, or no turnstile token.
MintRejected(c) ==
    /\ Goes(c, "asked", "failed")
    /\ NotesFailure
    /\ UNCHANGED <<attempt, sessionVars, tokenVars>>

\* No token can be read, the session cannot be seeded, the connection breaks:
\* nobody counts it.
MintBreaks(c) ==
    /\ \/ ~readable /\ Goes(c, "minting", "failed")
       \/ Goes(c, "seeding", "failed")
       \/ Goes(c, "asked", "failed")
    /\ UNCHANGED <<attempt, breakerVars, sessionVars, tokenVars>>

\* note_success also lifts a breaker that somebody else has opened meanwhile.
Minted(c) ==
    /\ Goes(c, "asked", "minted")
    /\ Saves("closed", 0)
    /\ UNCHANGED <<attempt, sessionVars, tokenVars>>

\* The coroutine goes on and posts the conversation.
Posts(c) ==
    /\ Goes(c, "minted", "sent")
    /\ UNCHANGED <<attempt, breakerVars, sessionVars, tokenVars>>

\* After a failed attempt: drop the session, sleep, try again or give up.
Retry(c) ==
    /\ \/ /\ attempt[c] < Attempts /\ Goes(c, "failed", "minting")
          /\ attempt' = [attempt EXCEPT ![c] = @ + 1]
       \/ /\ attempt[c] = Attempts /\ Goes(c, "failed", "degraded")
          /\ UNCHANGED attempt
    /\ Drops(c)
    /\ UNCHANGED <<breakerVars, tokenVars>>

\* SentinelGate.get_tokens asks the same endpoint, whatever the breaker says.
GateAsks(c) ==
    /\ Goes(c, "degraded", "gate")
    /\ UNCHANGED <<attempt, breakerVars, sessionVars, tokenVars>>

GatePosts(c) ==
    /\ Goes(c, "gate", "sent")
    /\ UNCHANGED <<attempt, breakerVars, sessionVars, tokenVars>>

GateRaises(c) ==
    /\ Goes(c, "gate", "raised")
    /\ UNCHANGED <<attempt, breakerVars, sessionVars, tokenVars>>

-----------------------------------------------------------------------------
Reload(c) == Load(c) \/ Store(c) \/ LoadFails(c)

Mint(c) ==
    \/ MintStarts(c) \/ Seeded(c) \/ MintPosts(c) \/ MintFlagged(c)
    \/ FlaggedDrops(c) \/ MintRejected(c) \/ MintBreaks(c) \/ Minted(c)

Setup(c) ==
    \/ TurnedAway(c) \/ Prepare(c) \/ Posts(c) \/ Retry(c)
    \/ GateAsks(c) \/ GatePosts(c) \/ GateRaises(c)

Next ==
    \/ \E c \in Calls : Reload(c) \/ Mint(c) \/ Setup(c)
    \/ Refresh
    \/ CooldownEnds

Spec == Init /\ [][Next]_vars
-----------------------------------------------------------------------------
(* Properties *)

\* Once the breaker is open, no call mints more than once until it closes: with
\* the mint it had begun, however many attempts it has left and whoever opened
\* it (mint: "not retrying upstream").
MintsStop == \A c \in Calls : late[c] <= 1


\* No mint starts on a session that was given up after a failed one, though the
\* profile is shared by threads and drop_session closes whatever it holds.
DroppedIsNotReused ==
    [][\A c \in Calls : session'[c] \notin {session[c], NoSession} =>
           session'[c] \notin dropped]_vars

\* A call sends a token at least as new as the one it found when it reloaded:
\* no slower thread puts an older one back into the shared header meanwhile.
BearerIsCurrent ==
    \A c \in Calls : stage[c] \notin {"new", "reloading", "queued", "raised"} =>
        header[c] >= loaded[c]
=============================================================================
