------------------------------- MODULE DotSend -------------------------------
(* send_to_dot (tools/dots.py): whether a message was delivered is judged by   *)
(* the room, read before and after the POST, since upstream answers 422 even   *)
(* to a message it keeps.                                                      *)
(* A message is its place in the room, which only grows.                       *)
EXTENDS Naturals, Sequences

CONSTANTS
    PageSize,       \* messages a read answers; the code asks for 8
    MaxRoom,        \* bound: messages in the room
    EmptyAnswers    \* may a read be answered by an empty 2xx?

ASSUME RoomAssumption ==
    PageSize \in Nat /\ MaxRoom \in Nat /\ EmptyAnswers \in BOOLEAN

\* By the owner; of the text sent.
RoomMessage == [owner : BOOLEAN, same : BOOLEAN]

VARIABLES
    room,       \* the messages upstream
    began,      \* how many there were when the call began
    prior,      \* the ids of the first page
    send        \* where the call is, or what it has told

dotVars == <<room, began, prior, send>>

Page == {i \in DOMAIN room : i + PageSize > Len(room)}

DotTypeOK ==
    /\ room \in Seq(RoomMessage) /\ Len(room) <= MaxRoom
    /\ began \in 0..MaxRoom
    /\ prior \in SUBSET (1..MaxRoom)
    /\ send \in {"rooms", "before", "post", "after",
                 "delivered", "undelivered", "raised"}

DotInit ==
    /\ room = <<>> /\ began = 0 /\ prior = {}
    /\ send = "rooms"

\* The account's dot, its owner in some other window, or an earlier call.
OthersWrite ==
    /\ Len(room) < MaxRoom
    /\ \E m \in RoomMessage : room' = Append(room, m)
    /\ began' = IF send = "rooms" THEN Len(room') ELSE began
    /\ UNCHANGED <<prior, send>>

\* _validated_room and the check of the text
Validated ==
    /\ send = "rooms"
    /\ send' \in {"before", "undelivered", "raised"}
    /\ UNCHANGED <<room, began, prior>>

\* What a read may answer: async_get(...) or {}
Answered == {Page} \cup (IF EmptyAnswers THEN {{}} ELSE {})

ReadBefore ==
    /\ send = "before"
    /\ \/ prior' \in Answered /\ send' = "post"
       \/ send' = "raised" /\ UNCHANGED prior
    /\ UNCHANGED <<room, began>>

\* Kept or not, the POST is answered by success, the 422, or another error.
Sent ==
    /\ send = "post"
    /\ \/ UNCHANGED room
       \/ /\ Len(room) < MaxRoom
          /\ room' = Append(room, [owner |-> TRUE, same |-> TRUE])
    /\ send' \in {"after", "raised"}
    /\ UNCHANGED <<began, prior>>

\* Mutant of SeenIn: the ids of the first page are not taken off.
SeenInAny(page) == \E i \in page : room[i].owner /\ room[i].same

\* any(owner_texts.get(i) == text for i in new_ids - prior_ids)
SeenIn(page) == \E i \in page \ prior : room[i].owner /\ room[i].same

ReadAfter ==
    /\ send = "after"
    /\ \/ \E page \in Answered :
            send' = IF SeenIn(page) THEN "delivered" ELSE "undelivered"
       \/ send' = "raised"
    /\ UNCHANGED <<room, began, prior>>

DotNext ==
    \/ OthersWrite
    \/ Validated
    \/ ReadBefore
    \/ Sent
    \/ ReadAfter

DotSpec == DotInit /\ [][DotNext]_dotVars

-----------------------------------------------------------------------------
(* Property *)

\* Delivery is told only when the owner's room got that text after the call
\* began: an older message of the same words does not count.
StaleRepeatsDoNotCount ==
    send = "delivered" =>
        \E i \in DOMAIN room : i > began /\ room[i].owner /\ room[i].same
=============================================================================
