-------------------------- MODULE ScriptProcessor --------------------------
(***************************************************************************)
(* The script processor of filebeat and the Chain its scripts build.  The  *)
(* processor calls the script's process(evt) with one event after the      *)
(* other; the chain applies its steps in the order they were added.  A     *)
(* step that throws ends the script, and what it made of the event so far  *)
(* is what is published, with a tag.                                       *)
(***************************************************************************)
EXTENDS BeatEvent

VARIABLES
    input,   \* the event as the input gave it, its dataset, and keep_original_message
    evt,     \* the event now
    at,      \* the step of the chain that is next
    status   \* "waiting", "running", "done" or "exception"

vars == <<input, evt, at, status>>

Step(chain, name, result) ==
    /\ status = "running"
    /\ chain[at] = name
    /\ LET r == result
       IN  /\ evt' = r.evt
           /\ at' = IF r.ok THEN at + 1 ELSE at
           /\ status' = CASE ~r.ok -> "exception"
                          [] r.ok /\ at = Len(chain) -> "done"
                          [] OTHER -> "running"
    /\ UNCHANGED input

Published == status \in {"done", "exception"}
=============================================================================
