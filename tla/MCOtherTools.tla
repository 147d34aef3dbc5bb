---------------------------- MODULE MCOtherTools ----------------------------
(* What stands by itself: the two updates of a host that put back what they   *)
(* replaced, a call of a tool, a picture, the lanes of chat, a change of the  *)
(* account and a message to the dot.  They share nothing, so one goes on      *)
(* while the others have not begun.                                           *)
EXTENDS FleetSync, SkillInstall, ToolCall, ImageTurn, AnswerLanes, AccountWrites,
        DotSend

CONSTANTS c0, c1

MCTarget == [s \in Syncs |-> c1]
MCVersion == [c \in Commits |-> c]

hostVars == <<vars, skillVars>>
turnVars == <<callVars, imageVars>>
siteVars == <<laneVars, writeVars, dotVars>>

\* Not begun, and of the initial states only one.
CloneIdle ==
    /\ \A s \in Syncs : at[s] = "preflight"
    /\ clone.branch # Detached /\ clone.head = c0 /\ ~clone.dirty
    /\ \A m \in Branches : clone.tip[m] = c0
SkillIdle == step = "ended" /\ faults = 0 /\ ~had /\ backup = "none" /\ dst = "none"
               /\ before = dst /\ staging = "none" /\ bundle = CHOOSE v \in Bundles : TRUE
CallIdle == call = "setup" /\ wire = "v1"
ImageIdle == image = "setup"
LaneIdle ==
    lane = "begin" /\ asked = [browser |-> TRUE, temporary |-> TRUE, mode |-> TRUE,
                              enabled |-> TRUE, fallback |-> TRUE]
WritesIdle == (\A w \in Writers : write[w] = "asked")
                /\ given = [w \in Writers |-> Field]
DotIdle == send = "rooms" /\ room = <<>>

HostIdle == CloneIdle /\ SkillIdle
TurnsIdle == CallIdle /\ ImageIdle
SitesIdle == LaneIdle /\ WritesIdle /\ DotIdle

OneTool ==
    \/ TurnsIdle /\ SitesIdle /\ (SkillIdle \/ CloneIdle)
    \/ HostIdle /\ \/ SitesIdle /\ (CallIdle \/ ImageIdle)
                   \/ TurnsIdle /\ \/ LaneIdle /\ (WritesIdle \/ DotIdle)
                                   \/ WritesIdle /\ DotIdle

ToolsInit ==
    /\ Init /\ SkillInit /\ CallInit /\ ImageInit /\ LaneInit /\ WritesInit /\ DotInit
    /\ OneTool

ToolsNext ==
    \/ /\ SkillIdle /\ TurnsIdle /\ SitesIdle
       /\ Next /\ UNCHANGED <<skillVars, turnVars, siteVars>>
    \/ /\ CloneIdle /\ TurnsIdle /\ SitesIdle
       /\ SkillNext /\ UNCHANGED <<vars, turnVars, siteVars>>
    \/ /\ HostIdle /\ ImageIdle /\ SitesIdle
       /\ CallNext /\ UNCHANGED <<hostVars, imageVars, siteVars>>
    \/ /\ HostIdle /\ CallIdle /\ SitesIdle
       /\ ImageNext /\ UNCHANGED <<hostVars, callVars, siteVars>>
    \/ /\ HostIdle /\ TurnsIdle /\ WritesIdle /\ DotIdle
       /\ LaneNext /\ UNCHANGED <<hostVars, turnVars, writeVars, dotVars>>
    \/ /\ HostIdle /\ TurnsIdle /\ LaneIdle /\ DotIdle
       /\ WritesNext /\ UNCHANGED <<hostVars, turnVars, laneVars, dotVars>>
    \/ /\ HostIdle /\ TurnsIdle /\ LaneIdle /\ WritesIdle
       /\ DotNext /\ UNCHANGED <<hostVars, turnVars, laneVars, writeVars>>

ToolsSpec == ToolsInit /\ [][ToolsNext]_<<hostVars, turnVars, siteVars>>

ToolsTypeOK ==
    CallTypeOK /\ ImageTypeOK /\ LaneTypeOK /\ WritesTypeOK /\ DotTypeOK
=============================================================================
