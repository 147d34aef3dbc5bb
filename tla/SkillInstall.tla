---------------------------- MODULE SkillInstall ----------------------------
(***************************************************************************)
(* install.py, _install_one_skill(): a skill directory is replaced by a    *)
(* filtered copy made beside it; the old one is moved to a backup first    *)
(* and moved back when something raises.  Moves are renames inside one     *)
(* directory; copying and removing a tree take long and may stop half way. *)
(***************************************************************************)
EXTENDS Naturals

CONSTANTS
    Bundles,   \* contents a skill directory may have
    MaxFaults   \* bound: steps that raise in one install

ASSUME InstallAssumption ==
    /\ {"none", "partial"} \cap Bundles = {}
    /\ MaxFaults \in Nat

VARIABLES
    dst, backup, staging,   \* what the three directories hold
    bundle,                 \* what this install copies
    before,                 \* what dst held when this install began
    step,                   \* the next step of the install, or "ended"
    faults,                 \* steps of it that have raised
    had                     \* had_target

skillVars == <<dst, backup, staging, bundle, before, step, faults, had>>

Contents == {"none", "partial"} \cup Bundles

Steps == {"copy", "clear", "aside", "place", "chmod", "remove", "back", "cleanup"}

SkillTypeOK ==
    /\ {dst, backup, staging, before} \subseteq Contents
    /\ bundle \in Bundles
    /\ step \in Steps \cup {"ended"}
    /\ faults \in 0..MaxFaults
    /\ had \in BOOLEAN
    /\ step \in {"copy", "clear", "aside"} => dst = before
    /\ step = "aside" => had /\ backup = "none"

SkillInit ==
    /\ dst \in {"none"} \cup Bundles
    /\ backup \in {"none"} \cup Bundles
    /\ staging = "none" /\ before = dst
    /\ bundle \in Bundles
    /\ step = "ended" /\ faults = 0 /\ had = FALSE

-----------------------------------------------------------------------------
Begin(v) ==
    /\ step = "ended"
    /\ bundle' = v /\ before' = dst
    /\ staging' = "partial"         \* mkdtemp
    /\ step' = "copy" /\ faults' = 0
    /\ UNCHANGED <<dst, backup, had>>

Then(next) == step' = next /\ UNCHANGED <<bundle, before, faults>>

\* Mutant of Copy: an earlier backup is not cleared away.
CopyOverBackup ==
    /\ step = "copy" /\ staging' = bundle
    /\ had' = (dst # "none")
    /\ Then(IF dst = "none" THEN "place" ELSE "aside")
    /\ UNCHANGED <<dst, backup>>

\* copytree and the check for required files; then the target is looked at.
Copy ==
    /\ step = "copy" /\ staging' = bundle
    /\ had' = (dst # "none")
    /\ Then(CASE dst = "none" -> "place"
              [] dst # "none" /\ backup # "none" -> "clear"
              [] OTHER -> "aside")
    /\ UNCHANGED <<dst, backup>>

ClearBackup ==
    /\ step = "clear" /\ backup' = "none"
    /\ Then("aside") /\ UNCHANGED <<dst, staging, had>>

MoveAside ==
    /\ step = "aside" /\ backup' = dst /\ dst' = "none"
    /\ Then("place") /\ UNCHANGED <<staging, had>>

Place ==
    /\ step = "place" /\ dst' = staging /\ staging' = "none"
    /\ Then("chmod") /\ UNCHANGED <<backup, had>>

Chmod == step = "chmod" /\ Then("ended") /\ UNCHANGED <<dst, backup, staging, had>>

\* Mutant of Handler: a backup is put back only if nothing is in its place.
HandlerKeepsNew(b, d) ==
    CASE had /\ b # "none" /\ d = "none" -> "back"
      [] ~had /\ d # "none" -> "remove"
      [] OTHER -> "cleanup"

\* except BaseException: what is done first to put things back, when the
\* backup holds b and the target d.
Handler(b, d) ==
    IF had /\ b # "none" THEN IF d # "none" THEN "remove" ELSE "back"
    ELSE IF ~had /\ d # "none" THEN "remove" ELSE "cleanup"

\* Mutant of RemoveTarget: the backup is the copy that goes.
RemoveBackup ==
    /\ step = "remove" /\ backup' = "none"
    /\ Then(IF had THEN "back" ELSE "cleanup") /\ UNCHANGED <<dst, staging, had>>

RemoveTarget ==
    /\ step = "remove" /\ dst' = "none"
    /\ Then(IF had THEN "back" ELSE "cleanup") /\ UNCHANGED <<backup, staging, had>>

MoveBack ==
    /\ step = "back" /\ dst' = backup /\ backup' = "none"
    /\ Then("cleanup") /\ UNCHANGED <<staging, had>>

\* finally
Cleanup ==
    /\ step = "cleanup" /\ staging' = "none"
    /\ Then("ended") /\ UNCHANGED <<dst, backup, had>>

\* Copying or removing a tree may stop half way; a rename does or does not.
Torn ==
    /\ staging' \in IF step \in {"copy", "cleanup"} THEN {"partial", staging} ELSE {staging}
    /\ backup' \in IF step = "clear" THEN {"partial", backup} ELSE {backup}
    /\ dst' \in IF step = "remove" THEN {"partial", dst} ELSE {dst}

\* A step raises, or a required file is missing.  Only what the inner try
\* encloses is undone; a raise in the handler or in finally ends it.
Raises ==
    /\ step # "ended" /\ faults < MaxFaults
    /\ faults' = faults + 1
    /\ Torn
    /\ \/ step \in {"aside", "place", "chmod"} /\ step' = Handler(backup, dst)
       \/ step \in {"copy", "clear", "remove", "back"} /\ step' = "cleanup"
       \/ step = "cleanup" /\ step' = "ended"
    /\ UNCHANGED <<bundle, before, had>>

\* Killed, perhaps in the middle of a tree.
Killed ==
    /\ step # "ended" /\ step' = "ended"
    /\ Torn /\ UNCHANGED <<bundle, before, faults, had>>

SkillNext ==
    \/ \E v \in Bundles : Begin(v)
    \/ Copy
    \/ ClearBackup
    \/ MoveAside
    \/ Place
    \/ Chmod
    \/ RemoveTarget
    \/ MoveBack
    \/ Cleanup
    \/ Raises
    \/ Killed

SkillSpec == SkillInit /\ [][SkillNext]_skillVars

-----------------------------------------------------------------------------
(* Properties *)

\* Whatever raises, however often, and wherever the install is killed: the
\* whole skill that was there when it began is still there, in its place or
\* in the backup, until the next install.
OldIsKept == before \in Bundles => before \in {dst, backup}

\* An install that raises once leaves the target as it found it, whole,
\* broken or absent: the handler knows how far the try block came.
RaiseRestores ==
    [][step = "cleanup" /\ step' = "ended" /\ faults' = 1 => dst' = before]_skillVars
=============================================================================
