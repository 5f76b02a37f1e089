----------------------------- MODULE StatusMoves ------------------------------
(***************************************************************************)
(* The states a tunnel reports and the moves between them that its task    *)
(* makes. Supervisor shows that it makes no other; TunnelManager takes the *)
(* supervisors it starts to make these.                                    *)
(***************************************************************************)

States == {"idle", "starting", "connected", "failed", "stopped"}

\* State::Connecting | State::Connected
RunningStates == {"starting", "connected"}

\* What a task that lives may report from each state. It may overwrite the
\* "stopped" of a stop() that did not wait for it; "failed" is its last word.
Moves ==
    [s \in States |->
        CASE s = "idle"      -> {"starting", "connected", "failed"}
          [] s = "starting"  -> {"connected", "failed"}
          [] s = "connected" -> {"starting"}
          [] s = "failed"    -> {}
          [] s = "stopped"   -> {"starting", "connected", "failed"}]
==============================================================================
