--------------------------- MODULE TunnelLifecycle ---------------------------
(***************************************************************************)
(* What one run of a tunnel promises to the rest of the application, with  *)
(* no mention of channels, handles or abort: a run owns at most one        *)
(* control connection, closes it only when the visitors it carried are     *)
(* released, never dials once it has been killed, and a killed run ends.   *)
(* Supervisor implements it (Supervisor!Life).                             *)
(***************************************************************************)
CONSTANT Visitors       \* the visitor connections the server may announce

VARIABLES
    phase,              \* "idle", "running", "killed" or "ended"
    link,               \* the control connection: "none", "dialing" or "open"
    carried             \* the visitors a forwarder task is serving

vars == <<phase, link, carried>>

TypeOK ==
    /\ phase \in {"idle", "running", "killed", "ended"}
    /\ link \in {"none", "dialing", "open"}
    /\ carried \subseteq Visitors

Init ==
    /\ phase = "idle"
    /\ link = "none"
    /\ carried = {}

\* A run begins by dialing the server.
Begin ==
    /\ phase = "idle"
    /\ phase' = "running"
    /\ link' = "dialing"
    /\ UNCHANGED carried

\* The dial succeeds, or fails.
Dialed ==
    /\ phase = "running"
    /\ link = "dialing"
    /\ link' \in {"open", "none"}
    /\ UNCHANGED <<phase, carried>>

Redial ==
    /\ phase = "running"
    /\ link = "none"
    /\ link' = "dialing"
    /\ UNCHANGED <<phase, carried>>

Accept(v) ==
    /\ phase = "running"
    /\ link = "open"
    /\ v \notin carried
    /\ carried' = carried \cup {v}
    /\ UNCHANGED <<phase, link>>

Release(v) ==
    /\ v \in carried
    /\ carried' = carried \ {v}
    /\ UNCHANGED <<phase, link>>

\* A live run closes its control connection when nobody is carried any more.
Close ==
    /\ phase = "running"
    /\ link = "open"
    /\ carried = {}
    /\ link' = "none"
    /\ UNCHANGED <<phase, carried>>

\* A run ends by itself only without a control connection.
Finish ==
    /\ phase = "running"
    /\ link = "none"
    /\ phase' = "ended"
    /\ UNCHANGED <<link, carried>>

\* Stop gives up waiting for the run.
Kill ==
    /\ phase = "running"
    /\ phase' = "killed"
    /\ UNCHANGED <<link, carried>>

\* A killed run only ends; its connection goes with it.
Die ==
    /\ phase = "killed"
    /\ phase' = "ended"
    /\ link' = "none"
    /\ UNCHANGED carried

\* Visitors are let go once the control connection is gone.
Drain(v) == link = "none" /\ Release(v)

Next ==
    \/ Begin \/ Dialed \/ Redial \/ Close \/ Finish \/ Kill \/ Die
    \/ \E v \in Visitors : Accept(v) \/ Release(v)

SafeSpec == Init /\ [][Next]_vars

Spec ==
    /\ SafeSpec
    /\ WF_vars(Die)
    /\ \A v \in Visitors : WF_vars(Drain(v))
==============================================================================
