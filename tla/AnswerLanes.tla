----------------------------- MODULE AnswerLanes -----------------------------
(***************************************************************************)
(* One call of the chat or the agent tool (server.py): the backend, the    *)
(* fallback model of the configuration, or a real browser whose page is    *)
(* driven by BrowserTransport.chat (browser.py).  The page changes while   *)
(* it is looked at.  What the backend does is ChatTurn's affair.           *)
(***************************************************************************)
EXTENDS Naturals

VARIABLES
    asked,      \* the arguments of the call, and the configuration
    lane,       \* where the call stands
    page,       \* the page in the browser
    started,    \* started, in _await_reply_done
    streaming,  \* the indicator, when it was last counted
    answer      \* what was returned

laneVars == <<asked, lane, page, started, streaming, answer>>

Lanes == {"none", "direct", "fallback", "browser"}

Pages == [temporary : BOOLEAN, mode : BOOLEAN, model : BOOLEAN,
          reply : {"unsent", "sent", "begun", "over"},
          indicator : BOOLEAN,      \* SEL_STREAMING matches
          node : BOOLEAN]           \* SEL_ASSISTANT matches

LaneTypeOK ==
    /\ asked \in [browser : BOOLEAN, temporary : BOOLEAN, mode : BOOLEAN,
                  enabled : BOOLEAN, fallback : BOOLEAN]
    /\ lane \in {"begin", "direct", "fallback", "open", "temporary", "mode",
                 "model", "send", "indicator", "node", "deadline", "read",
                 "returned", "raised"}
    /\ page \in Pages
    /\ started \in BOOLEAN /\ streaming \in BOOLEAN
    /\ answer \in [from : Lanes, noted : BOOLEAN]

LaneInit ==
    /\ asked \in [browser : BOOLEAN, temporary : BOOLEAN, mode : BOOLEAN,
                  enabled : BOOLEAN, fallback : BOOLEAN]
    /\ lane = "begin"
    /\ page = [temporary |-> FALSE, mode |-> FALSE, model |-> FALSE,
               reply |-> "unsent", indicator |-> FALSE, node |-> FALSE]
    /\ started = FALSE /\ streaming = FALSE
    /\ answer = [from |-> "none", noted |-> FALSE]

-----------------------------------------------------------------------------
(* The handler                                                             *)

To(next) == lane' = next /\ UNCHANGED asked

Waits == UNCHANGED <<started, streaming>>

Answers(from, noted) ==
    To("returned") /\ answer' = [from |-> from, noted |-> noted]

\* browser=True needs the browser enabled.
Called ==
    /\ lane = "begin"
    /\ To(CASE ~asked.browser -> "direct"
            [] asked.browser /\ asked.enabled -> "open"
            [] OTHER -> "raised")
    /\ UNCHANGED <<page, answer>> /\ Waits

\* conv.complete answers, is challenged, finds the model capped, or raises.
Direct ==
    /\ lane = "direct"
    /\ \/ Answers("direct", FALSE)
       \/ To(IF asked.enabled THEN "open" ELSE "raised") /\ UNCHANGED answer
       \/ To(IF asked.fallback THEN "fallback" ELSE "raised") /\ UNCHANGED answer
    /\ UNCHANGED page /\ Waits

\* Whatever it raises, nothing catches it.
Fallback ==
    /\ lane = "fallback"
    /\ \/ Answers("fallback", TRUE)
       \/ To("raised") /\ UNCHANGED answer
    /\ UNCHANGED page /\ Waits

-----------------------------------------------------------------------------
(* BrowserTransport.chat                                                   *)

\* A page element that does not come raises.
Drifts ==
    /\ lane \in {"open", "temporary", "mode", "model", "send"}
    /\ To("raised")
    /\ UNCHANGED <<page, answer>> /\ Waits

\* The page is opened and its composer found, after a login if need be.
OpenPage ==
    /\ lane = "open"
    /\ To("temporary")
    /\ UNCHANGED <<page, answer>> /\ Waits

\* Mutant of PickMode: what is not found is left as it is.
PickModeAnyway ==
    /\ lane = "mode"
    /\ page' \in {page, [page EXCEPT !.mode = asked.mode]}
    /\ To("model")
    /\ UNCHANGED answer /\ Waits

PickTemporary ==
    /\ lane = "temporary"
    /\ page' = [page EXCEPT !.temporary = asked.temporary]
    /\ To("mode")
    /\ UNCHANGED answer /\ Waits

PickMode ==
    /\ lane = "mode"
    /\ page' = [page EXCEPT !.mode = asked.mode]
    /\ To("model")
    /\ UNCHANGED answer /\ Waits

\* The model and the effort are picked if the page lets them be.
PickModel ==
    /\ lane = "model"
    /\ \E picked \in BOOLEAN : page' = [page EXCEPT !.model = picked]
    /\ To("send")
    /\ UNCHANGED answer /\ Waits

\* The prompt is typed and sent.
Send ==
    /\ lane = "send"
    /\ page' = [page EXCEPT !.reply = "sent"]
    /\ To("indicator")
    /\ UNCHANGED answer /\ Waits

-----------------------------------------------------------------------------
(* _await_reply_done                                                       *)

\* Mutant of CountIndicator: no indicator, no reply to wait for.
CountIndicatorOnce ==
    /\ lane = "indicator"
    /\ streaming' = page.indicator
    /\ To(IF ~streaming' THEN "read" ELSE "deadline")
    /\ UNCHANGED <<page, started, answer>>

CountIndicator ==
    /\ lane = "indicator"
    /\ streaming' = page.indicator
    /\ To(CASE started /\ ~streaming' -> "read"
            [] started /\ streaming'  -> "deadline"
            [] OTHER -> "node")
    /\ UNCHANGED <<page, started, answer>>

CountNode ==
    /\ lane = "node"
    /\ started' = (streaming \/ page.node)
    /\ To("deadline")
    /\ UNCHANGED <<page, streaming, answer>>

\* Half a second later everything is looked at again, until timeout_s.
Deadline ==
    /\ lane = "deadline"
    /\ To("indicator") \/ To("raised")
    /\ UNCHANGED <<page, answer>> /\ Waits

Read ==
    /\ lane = "read"
    /\ IF page.node THEN Answers("browser", ~asked.browser)
                    ELSE To("raised") /\ UNCHANGED answer
    /\ UNCHANGED page /\ Waits

-----------------------------------------------------------------------------
(* The page: the indicator shows from the begin of a reply to its end.     *)

Unseen == UNCHANGED <<asked, lane, started, streaming, answer>>

ReplyBegins ==
    /\ page.reply = "sent"
    /\ \E node \in BOOLEAN :
         page' = [page EXCEPT !.reply = "begun", !.indicator = TRUE, !.node = node]
    /\ Unseen

NodeAppears ==
    /\ page.reply = "begun" /\ ~page.node
    /\ page' = [page EXCEPT !.node = TRUE]
    /\ Unseen

ReplyEnds ==
    /\ page.reply = "begun"
    /\ page' = [page EXCEPT !.reply = "over", !.indicator = FALSE]
    /\ Unseen

\* All of it between two looks at the page.
ReplyIsFast ==
    /\ page.reply = "sent"
    /\ page' = [page EXCEPT !.reply = "over", !.node = TRUE]
    /\ Unseen

LaneNext ==
    \/ Called
    \/ Direct
    \/ Fallback
    \/ OpenPage
    \/ Drifts
    \/ PickTemporary
    \/ PickMode
    \/ PickModel
    \/ Send
    \/ CountIndicator
    \/ CountNode
    \/ Deadline
    \/ Read
    \/ ReplyBegins
    \/ NodeAppears
    \/ ReplyEnds
    \/ ReplyIsFast

LaneSpec == LaneInit /\ [][LaneNext]_laneVars

-----------------------------------------------------------------------------
(* Properties *)

\* Text from the browser is read when the reply is over, never from a page
\* that has not begun or still writes it; it was asked for in a temporary
\* chat and in a mode exactly when the caller wanted that; and an answer of
\* another lane than the one asked for says so.
ReplyIsWhole ==
    [][lane # "returned" /\ lane' = "returned" =>
         /\ answer'.from = "browser" =>
              /\ page.reply = "over"
              /\ page.temporary = asked.temporary /\ page.mode = asked.mode
         /\ answer'.noted = (answer'.from # IF asked.browser THEN "browser"
                                                             ELSE "direct")]_laneVars
=============================================================================
