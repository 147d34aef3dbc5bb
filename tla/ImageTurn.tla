------------------------------ MODULE ImageTurn ------------------------------
(***************************************************************************)
(* One call of the generate_image tool: ConversationClient.image_gen and   *)
(* _poll_image_result (sse.py), and what tools/images.py adds to the       *)
(* result.  A picture is made after the stream has ended, or while it goes *)
(* on; the n-th picture of the conversation is n.  Time goes in units of   *)
(* poll_interval.                                                          *)
(***************************************************************************)
EXTENDS Naturals, SequencesExt

CONSTANTS
    MaxPictures,    \* bound: pictures upstream makes
    MaxWait,        \* max_wait / poll_interval
    MaxBackoff,     \* 30 s / poll_interval
    MaxErrors       \* polls that may fail in a row

ASSUME ImageAssumption ==
    /\ MaxPictures \in Nat /\ MaxWait \in Nat /\ MaxBackoff \in Nat
    /\ MaxErrors \in Nat \ {0}

VARIABLES
    image,      \* where the call stands
    pictures,   \* pictures with assets in the conversation
    thread,     \* conversation_id is known
    errors,     \* poll_errors
    elapsed,    \* time since the polls began
    outcomes,   \* what the latest polls have found: "failed" or "nothing"
    asset       \* the picture that was found, and what is known of its file

imageVars == <<image, pictures, thread, errors, elapsed, outcomes, asset>>

Asset == [picture : 0 .. MaxPictures, url : BOOLEAN, name : BOOLEAN,
          download_error : BOOLEAN, info_error : BOOLEAN]

NoAsset == [picture |-> 0, url |-> FALSE, name |-> FALSE,
            download_error |-> FALSE, info_error |-> FALSE]

ImageTypeOK ==
    /\ image \in {"setup", "streaming", "polling", "download", "info",
                  "returned", "raised"}
    /\ pictures \in 0 .. MaxPictures
    /\ thread \in BOOLEAN
    /\ errors \in 0 .. MaxErrors
    /\ elapsed \in 0 .. MaxWait
    /\ outcomes \in Seq({"failed", "nothing"})
    /\ asset \in Asset

ImageInit ==
    /\ image = "setup"
    /\ pictures = 0
    /\ thread = FALSE
    /\ errors = 0
    /\ elapsed = 0
    /\ outcomes = <<>>
    /\ asset = NoAsset

-----------------------------------------------------------------------------
(* The stream                                                              *)

Polls == <<errors, elapsed, outcomes>>

Requested ==
    /\ image = "setup" /\ image' = "streaming"
    /\ UNCHANGED <<pictures, thread, Polls, asset>>

\* The setup or the POST fails, an error frame comes, the connection breaks.
RequestFails ==
    /\ image \in {"setup", "streaming"} /\ image' = "raised"
    /\ UNCHANGED <<pictures, thread, Polls, asset>>

Found(n) == image' = "download" /\ asset' = [NoAsset EXCEPT !.picture = n]

Identified ==
    /\ image = "streaming" /\ ~thread /\ thread' = TRUE
    /\ UNCHANGED <<image, pictures, Polls, asset>>

\* A picture is made.  An envelope on the stream that already has its assets
\* ends the call; one that gets them in patches is not noticed.
PictureMade ==
    /\ image \in {"streaming", "polling"} /\ pictures < MaxPictures
    /\ pictures' = pictures + 1
    /\ \/ image = "streaming" /\ Found(pictures + 1)
       \/ UNCHANGED <<image, asset>>
    /\ UNCHANGED <<thread, Polls>>

\* [DONE], or the connection closes.
StreamDone ==
    /\ image = "streaming"
    /\ image' = IF thread THEN "polling" ELSE "raised"
    /\ UNCHANGED <<pictures, thread, Polls, asset>>

-----------------------------------------------------------------------------
(* The polls                                                               *)

Until(t) == elapsed' = IF t < MaxWait THEN t ELSE MaxWait

\* Only the latest are kept.
Remembers(outcome) ==
    outcomes' = IF Len(outcomes) < MaxErrors THEN Append(outcomes, outcome)
                                            ELSE Append(Tail(outcomes), outcome)

Polling == image = "polling" /\ elapsed < MaxWait

\* The newest of the pictures that are there; none in an empty 2xx answer.
Sees ==
    \/ pictures > 0 /\ Found(pictures) /\ UNCHANGED outcomes
    \/ Remembers("nothing") /\ UNCHANGED <<image, asset>>

\* Mutant of PollReads: the errors are counted over the whole wait.
PollReadsOn ==
    /\ Polling /\ Until(elapsed + 1)
    /\ Sees
    /\ UNCHANGED <<pictures, thread, errors>>

PollReads ==
    /\ Polling /\ Until(elapsed + 1)
    /\ errors' = 0
    /\ Sees
    /\ UNCHANGED <<pictures, thread>>

Backoff(n) == IF 2 ^ n \in 0 .. MaxBackoff THEN 2 ^ n ELSE MaxBackoff

\* Mutant of PollFails: one error more is waited out.
PollFailsOnceMore ==
    /\ Polling /\ errors' = errors + 1 /\ Remembers("failed")
    /\ IF errors' > MaxErrors
         THEN image' = "raised" /\ UNCHANGED elapsed
         ELSE Until(elapsed + 1 + Backoff(errors')) /\ UNCHANGED image
    /\ UNCHANGED <<pictures, thread, asset>>

PollFails ==
    /\ Polling /\ errors' = errors + 1 /\ Remembers("failed")
    /\ IF errors' >= MaxErrors
         THEN image' = "raised" /\ UNCHANGED elapsed
         ELSE Until(elapsed + 1 + Backoff(errors')) /\ UNCHANGED image
    /\ UNCHANGED <<pictures, thread, asset>>

TimesOut ==
    /\ image = "polling" /\ ~Polling /\ image' = "raised"
    /\ UNCHANGED <<pictures, thread, Polls, asset>>

-----------------------------------------------------------------------------
(* generate_image: the file behind the asset                               *)

FileOnly == UNCHANGED <<pictures, thread, Polls>>

\* A download that names the file leaves nothing to ask.  A pointer without
\* a file id is returned as it is; an id that is none raises.
Download ==
    /\ image = "download"
    /\ \/ \E name \in BOOLEAN :
            /\ asset' = [asset EXCEPT !.url = TRUE, !.name = name]
            /\ image' = IF name THEN "returned" ELSE "info"
       \/ asset' = [asset EXCEPT !.download_error = TRUE] /\ image' = "info"
       \/ image' \in {"returned", "raised"} /\ UNCHANGED asset
    /\ FileOnly

Info ==
    /\ image = "info" /\ image' = "returned"
    /\ \/ \E name \in BOOLEAN : asset' = [asset EXCEPT !.name = name]
       \/ asset' = [asset EXCEPT !.info_error = TRUE]
    /\ FileOnly

ImageNext ==
    \/ Requested
    \/ RequestFails
    \/ Identified
    \/ PictureMade
    \/ StreamDone
    \/ PollReads
    \/ PollFails
    \/ TimesOut
    \/ Download
    \/ Info

ImageSpec == ImageInit /\ [][ImageNext]_imageVars

-----------------------------------------------------------------------------
(* Properties *)

\* The polls end in one of three ways: with the newest picture there is, when the
\* latest MaxErrors of them have all failed, or at the deadline.  Errors that a
\* good poll parts, an empty one too, are forgiven.
PollsAreFair ==
    [][image = "polling" /\ image' # "polling" =>
         \/ image' = "download" /\ asset'.picture = pictures /\ pictures > 0
         \/ image' = "raised" /\ outcomes' = [n \in 1 .. MaxErrors |-> "failed"]
         \/ image' = "raised" /\ elapsed = MaxWait]_imageVars
=============================================================================
