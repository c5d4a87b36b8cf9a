------------------------------ MODULE RunContract ------------------------------
(***************************************************************************)
(* What the web runner promises of its runs: they come one at a time, each *)
(* accepted run ends once, as done or as failed, and its ending stands     *)
(* until the next run is accepted.  RunController is shown to implement    *)
(* this module.                                                            *)
(***************************************************************************)
EXTENDS Naturals

VARIABLES
    current,   \* the number of the run accepted last, 0 before the first
    verdict    \* of that run: "none", "open", "done" or "failed"

contractVars == <<current, verdict>>

ContractInit == current = 0 /\ verdict = "none"

Accept ==
    /\ verdict # "open"
    /\ current' = current + 1
    /\ verdict' = "open"

End ==
    /\ verdict = "open"
    /\ verdict' \in {"done", "failed"}
    /\ UNCHANGED current

ContractNext == Accept \/ End

ContractSpec == ContractInit /\ [][ContractNext]_contractVars
===============================================================================
