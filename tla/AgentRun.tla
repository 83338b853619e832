------------------------------ MODULE AgentRun ------------------------------
(***************************************************************************)
(* What a backend promises the spine about one run of an agent: however    *)
(* often the run is called off, it is not over before its agent has been   *)
(* stopped, and a run that was called off hands back no result.            *)
(***************************************************************************)
VARIABLES
    phase,      \* "idle", "busy" or "over"
    agent,      \* "none", "alive" or "stopped"
    calledOff,  \* whether the run was cancelled
    outcome     \* "none", "result" or "cancelled"

agentVars == <<phase, agent, calledOff, outcome>>

Init == phase = "idle" /\ agent = "none" /\ calledOff = FALSE /\ outcome = "none"

Start ==
    /\ phase = "idle" /\ phase' = "busy"
    /\ agent' = "alive"
    /\ UNCHANGED <<calledOff, outcome>>

Stop ==
    /\ phase = "busy"
    /\ agent = "alive" /\ agent' = "stopped"
    /\ UNCHANGED <<phase, calledOff, outcome>>

\* The run goes on to clean up, or there was nothing left to clean up.
CallOff ==
    /\ phase # "over" /\ calledOff' = TRUE
    /\ agent' \in {agent, IF agent = "alive" THEN "stopped" ELSE agent}
    /\ \/ phase' = "busy" /\ UNCHANGED outcome
       \/ phase' = "over" /\ agent' # "alive" /\ outcome' = "cancelled"

End ==
    /\ phase # "over" /\ phase' = "over"
    /\ agent # "alive"
    /\ outcome' = IF calledOff THEN "cancelled" ELSE "result"
    /\ UNCHANGED <<agent, calledOff>>

Next == Start \/ Stop \/ CallOff \/ End

Spec == Init /\ [][Next]_agentVars

=============================================================================
