---------------------------- MODULE AccountWrites ----------------------------
(* custom_instructions_set (tools/writes.py): the endpoint takes the whole     *)
(* object, so a call that changes one field reads the other one and writes     *)
(* both back, under a lock of the server's event loop.  The requests run in    *)
(* threads: neither a cancelled call nor a timeout takes a POST back that is   *)
(* on its way.                                                                 *)
EXTENDS Naturals

CONSTANT Writers        \* calls of the tool in one server

Field == {"user", "model"}
Unset == "unset"
Object == [Field -> Writers \cup {Unset}]
\* A call stands for the text it writes.
Given == SUBSET Field \ {{}}

VARIABLES
    given,      \* the fields a call was given
    write,      \* where each call is
    held,       \* the calls that hold the lock
    payload,    \* what a call writes back
    flying,     \* the POSTs on their way
    account     \* the object upstream

writeVars == <<given, write, held, payload, flying, account>>

WritesTypeOK ==
    /\ given \in [Writers -> Given]
    /\ write \in [Writers -> {"asked", "reading", "writing", "updated",
                              "refused", "raised", "doubt"}]
    /\ held \in SUBSET Writers
    /\ payload \in [Writers -> Object]
    /\ flying \in SUBSET Writers
    /\ account \in Object

WritesInit ==
    /\ given \in [Writers -> Given]
    /\ write = [w \in Writers |-> "asked"]
    /\ held = {}
    /\ payload = [w \in Writers |-> [f \in Field |-> Unset]]
    /\ flying = {}
    /\ account = [f \in Field |-> Unset]

Leaves(w, end) ==
    /\ write' = [write EXCEPT ![w] = end]
    /\ held' = held \ {w}

\* Mutant of Enter: the lock is taken for the POST only.
EnterUnlocked(w) ==
    /\ write[w] = "asked"
    /\ write' = [write EXCEPT ![w] = "reading"]
    /\ UNCHANGED <<given, held, payload, flying, account>>

\* async with custom_instruction_write_lock
Enter(w) ==
    /\ write[w] = "asked" /\ held = {}
    /\ write' = [write EXCEPT ![w] = "reading"]
    /\ held' = {w}
    /\ UNCHANGED <<given, payload, flying, account>>

\* The GET answers, and the POST is sent: payload = {**current}, updated.
Merge(w) ==
    /\ write[w] = "reading"
    /\ payload' = [payload EXCEPT ![w] =
                     [f \in Field |-> IF f \in given[w] THEN w ELSE account[f]]]
    /\ flying' = flying \cup {w}
    /\ write' = [write EXCEPT ![w] = "writing"]
    /\ UNCHANGED <<given, held, account>>

\* The GET answers nothing, fails, or the call is cancelled in it.
ReadFails(w) ==
    /\ write[w] = "reading"
    /\ \E end \in {"refused", "raised"} : Leaves(w, end)
    /\ UNCHANGED <<given, payload, flying, account>>

\* Upstream takes the POST, whoever still waits for it.
Lands(w) ==
    /\ w \in flying
    /\ flying' = flying \ {w}
    /\ account' = payload[w]
    /\ UNCHANGED <<given, write, held, payload>>

Updated(w) ==
    /\ write[w] = "writing" /\ w \notin flying
    /\ Leaves(w, "updated")
    /\ UNCHANGED <<given, payload, flying, account>>

\* Upstream refuses the POST.
WriteFails(w) ==
    /\ write[w] = "writing" /\ w \in flying
    /\ flying' = flying \ {w}
    /\ Leaves(w, "raised")
    /\ UNCHANGED <<given, payload, account>>

\* The POST times out, or the call is cancelled in it.
GivesUpWrite(w) ==
    /\ write[w] = "writing"
    /\ Leaves(w, "doubt")
    /\ UNCHANGED <<given, payload, flying, account>>

WritesNext ==
    \E w \in Writers :
        \/ Enter(w) \/ Merge(w) \/ ReadFails(w) \/ Lands(w)
        \/ Updated(w) \/ WriteFails(w) \/ GivesUpWrite(w)

WritesSpec == WritesInit /\ [][WritesNext]_writeVars

-----------------------------------------------------------------------------
(* Property *)

\* As long as no call was left in doubt about its POST, what lands changes no
\* field its call was not given: however calls overlap and fail, none undoes
\* the other.  (With one in doubt it may: the lock is open while the POST is
\* still on its way.)
OthersAreKept ==
    [][(\A w \in Writers : write[w] # "doubt") =>
           \A f \in Field :
               account'[f] # account[f] =>
                   \E w \in flying \ flying' : f \in given[w]]_writeVars
=============================================================================
