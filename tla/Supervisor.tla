----------------------------- MODULE Supervisor ------------------------------
(***************************************************************************)
(* TunnelSupervisor (tunnel/supervisor.rs): start() and stop(), the task   *)
(* start() spawns, the sessions it runs, its forwarder tasks and the pumps *)
(* these spawn (tunnel/forward.rs).                                        *)
(*                                                                         *)
(* One action is the code between two points where another thread can get  *)
(* in: an await, or a lock or channel operation on what is shared. A task  *)
(* that has been aborted still runs to its next await, so a task waits in  *)
(* an AwaitPc and is between awaits in any other pc. That an await may be  *)
(* ready at once, and let an aborted task go further, is left out.         *)
(*                                                                         *)
(* The stop signal is a tokio watch channel. new() drops its only          *)
(* receiver, and send() on a channel without receivers stores nothing: the *)
(* signal reaches a task only while the task is subscribed.                *)
(***************************************************************************)
EXTENDS Integers, FiniteSets, StatusMoves

CONSTANTS
    Visitors,      \* visitor connections, each announced at most once
    Stoppers,      \* callers of stop(), each calls it at most once
    MaxStarts,     \* bound: calls of start() on this supervisor
    MaxDeaths      \* bound: the server refuses new sessions after this many deaths

ASSUME ConstantsAssumption ==
    /\ MaxStarts \in Nat \ {0}
    /\ MaxDeaths \in Nat
    /\ IsFiniteSet(Visitors)

Runs == 1..MaxStarts
NoRun == 0
Directions == {"up", "down"}

VARIABLES
    started,       \* how many runs start() has spawned
    status,        \* InnerState, the fields the UI distinguishes
    handle,        \* self.task: the run whose JoinHandle is stored, or NoRun
    aborted,       \* runs whose JoinHandle was aborted
    stopFlag,      \* the value stored in stop_tx
    pc,            \* where each run's supervisor_task is
    unseen,        \* the run's stop receiver has a change it has not seen
    auto,          \* cfg.auto_reconnect of each run
    outcome,       \* what run_session of each run returned
    beating,       \* the server keeps sending Ack or Heartbeat to the run
    stopper,       \* where each caller of stop() is, and the run it waits for
    fwd,           \* each visitor's forwarder task
    owner,         \* the run that spawned it
    activeConns,   \* Shared.active_conns
    pump           \* the two pump tasks of each forwarded connection

taskVars == <<pc, unseen, auto, outcome, beating>>
fwdVars == <<fwd, owner, activeConns, pump>>
stopVars == <<handle, aborted, stopper>>
vars == <<started, status, stopFlag, taskVars, fwdVars, stopVars>>

\* Where supervisor_task waits, and so where an abort can end it.
AwaitPcs == {"connecting", "session", "teardown", "backoff"}
\* Where it is between awaits, each named for what comes next.
RunningPcs == {"established", "subscribing", "returned", "dead", "givingUp",
               "refused", "refusalLogged", "resting", "exiting"}
EndPcs == {"done", "cancelled"}
Pcs == {"unborn"} \cup AwaitPcs \cup RunningPcs \cup EndPcs

\* Where a stop receiver of the run exists.
SubscribedPcs == {"session", "teardown", "backoff"}

TypeOK ==
    /\ started \in 0..MaxStarts
    /\ status \in [state : States, addr : BOOLEAN, since : BOOLEAN, err : BOOLEAN,
                   reconnects : Nat]
    /\ handle \in 0..MaxStarts
    /\ aborted \subseteq Runs
    /\ stopFlag \in BOOLEAN
    /\ pc \in [Runs -> Pcs]
    /\ unseen \in [Runs -> BOOLEAN]
    /\ auto \in [Runs -> BOOLEAN]
    /\ outcome \in [Runs -> {"ok", "err"}]
    /\ beating \in [Runs -> BOOLEAN]
    /\ stopper \in [Stoppers ->
                      [at : {"idle", "signalled", "joining", "finishing", "returned"},
                       run : 0..MaxStarts]]
    /\ \A s \in Stoppers : stopper[s].at = "joining" => stopper[s].run \in Runs
    /\ fwd \in [Visitors -> {"new", "spawned", "guarded", "piping", "gone"}]
    /\ owner \in [Visitors -> 0..MaxStarts]
    /\ activeConns \in Nat
    /\ pump \in [Visitors -> [Directions -> {"off", "running", "eof", "failed", "aborted"}]]

FreshStatus ==
    [state |-> "idle", addr |-> FALSE, since |-> FALSE, err |-> FALSE, reconnects |-> 0]

Init ==
    /\ started = 0
    /\ status = FreshStatus
    /\ handle = NoRun
    /\ aborted = {}
    /\ stopFlag = FALSE
    /\ pc = [r \in Runs |-> "unborn"]
    /\ unseen = [r \in Runs |-> FALSE]
    /\ auto = [r \in Runs |-> TRUE]
    /\ outcome = [r \in Runs |-> "ok"]
    /\ beating = [r \in Runs |-> FALSE]
    /\ stopper = [s \in Stoppers |-> [at |-> "idle", run |-> NoRun]]
    /\ fwd = [v \in Visitors |-> "new"]
    /\ owner = [v \in Visitors |-> NoRun]
    /\ activeConns = 0
    /\ pump = [v \in Visitors |-> [d \in Directions |-> "off"]]

------------------------------------------------------------------------------
(* The stop channel. *)

Subscribed == {r \in Runs : pc[r] \in SubscribedPcs}

\* watch::Sender::send: an error, ignored, when nobody is subscribed.
SendStop(b) ==
    IF Subscribed = {}
    THEN UNCHANGED <<stopFlag, unseen>>
    ELSE /\ stopFlag' = b
         /\ unseen' = [r \in Runs |-> unseen[r] \/ r \in Subscribed]

\* watch::Sender::subscribe: the value stored now counts as seen.
Subscribe(r) == unseen' = [unseen EXCEPT ![r] = FALSE]

------------------------------------------------------------------------------
(* start(). The caller holds the manager's map lock from the check to the  *)
(* stored handle, so nothing but the tasks of earlier runs is concurrent.  *)

IsRunning == status.state \in RunningStates

Start(autoReconnect) ==
    /\ started < MaxStarts
    /\ ~IsRunning
    /\ SendStop(FALSE)
    /\ status' = FreshStatus
    /\ started' = started + 1
    /\ handle' = started + 1
    /\ pc' = [pc EXCEPT ![started + 1] = "connecting"]
    /\ auto' = [auto EXCEPT ![started + 1] = autoReconnect]
    /\ UNCHANGED <<outcome, beating, aborted, stopper, fwdVars>>

------------------------------------------------------------------------------
(* supervisor_task *)

CanPoll(r) == r \notin aborted

Goto(r, l) == pc' = [pc EXCEPT ![r] = l]

\* A step of the task that touches nothing but its own place and the status.
Local == UNCHANGED <<started, stopFlag, auto, fwdVars, stopVars>>

\* TunnelClient::connect returns a connection.
DialSucceeds(r) ==
    /\ pc[r] = "connecting" /\ CanPoll(r)
    /\ status.reconnects < MaxDeaths
    /\ Goto(r, "established")
    /\ beating' = [beating EXCEPT ![r] = TRUE]
    /\ Local /\ UNCHANGED <<status, unseen, outcome>>

\* TunnelClient::connect returns an error.
DialFails(r) ==
    /\ pc[r] = "connecting" /\ CanPoll(r)
    /\ Goto(r, "refused")
    /\ Local /\ UNCHANGED <<status, unseen, outcome, beating>>

ConnectedStatus(st) ==
    [st EXCEPT !.state = "connected", !.addr = TRUE, !.since = TRUE, !.err = FALSE]

ReportConnected(r) ==
    /\ pc[r] = "established"
    /\ status' = ConnectedStatus(status)
    /\ Goto(r, "subscribing")
    /\ Local /\ UNCHANGED <<unseen, outcome, beating>>

\* run_session starts: no forwarder yet, subscribed to the stop channel.
BeginSession(r) ==
    /\ pc[r] = "subscribing"
    /\ Goto(r, "session")
    /\ Subscribe(r)
    /\ Local /\ UNCHANGED <<status, outcome, beating>>

\* The forwarders in the run's JoinSet that have not finished.
LiveForwarders(r) ==
    {v \in Visitors : owner[v] = r /\ fwd[v] \in {"spawned", "guarded", "piping"}}

\* Mutant: teardown aborts the forwarders and does not wait for them.
LeaveWithoutJoin(r, result) ==
    /\ outcome' = [outcome EXCEPT ![r] = result]
    /\ Goto(r, "returned")

\* run_session leaves its loop: abort_all, then join_next until none is left.
\* Without a forwarder there is nothing to wait for.
LeaveSession(r, result) ==
    /\ outcome' = [outcome EXCEPT ![r] = result]
    /\ Goto(r, IF LiveForwarders(r) = {} THEN "returned" ELSE "teardown")

\* The stop arm of the select: leave on true, go on otherwise.
SessionSeesStop(r) ==
    /\ pc[r] = "session" /\ CanPoll(r)
    /\ unseen[r]
    /\ unseen' = [unseen EXCEPT ![r] = FALSE]
    /\ IF stopFlag THEN LeaveSession(r, "ok") ELSE UNCHANGED <<pc, outcome>>
    /\ Local /\ UNCHANGED <<status, beating>>

\* The message arm: EOF or an IO or protocol error on the control connection.
SessionBreaks(r) ==
    /\ pc[r] = "session" /\ CanPoll(r)
    /\ LeaveSession(r, "err")
    /\ Local /\ UNCHANGED <<status, unseen, beating>>

\* The message arm: Connection(id) spawns a forwarder into the JoinSet.
SpawnForwarder(r, v) ==
    /\ pc[r] = "session" /\ CanPoll(r)
    /\ fwd[v] = "new"
    /\ fwd' = [fwd EXCEPT ![v] = "spawned"]
    /\ owner' = [owner EXCEPT ![v] = r]
    /\ UNCHANGED <<started, status, stopFlag, taskVars, stopVars, activeConns, pump>>

\* Mutant: the deadline arm is armed only while nobody is being served.
SilenceExpiresIdle(r) == ~beating[r] /\ LiveForwarders(r) = {}

SilenceExpires(r) == ~beating[r]

\* The deadline arm: no Ack and no Heartbeat for ack_window.
AckTimeout(r) ==
    /\ pc[r] = "session" /\ CanPoll(r)
    /\ SilenceExpires(r)
    /\ LeaveSession(r, "err")
    /\ Local /\ UNCHANGED <<status, unseen, beating>>

\* The server stops its keepalives, or resumes them.
ServerBeats(r) ==
    /\ pc[r] = "session"
    /\ beating' = [beating EXCEPT ![r] = ~@]
    /\ Local /\ UNCHANGED <<status, pc, unseen, outcome>>

\* join_next has returned the last forwarder: run_session returns, and its
\* receiver and the control connection are dropped.
TeardownDone(r) ==
    /\ pc[r] = "teardown" /\ CanPoll(r)
    /\ LiveForwarders(r) = {}
    /\ Goto(r, "returned")
    /\ Local /\ UNCHANGED <<status, unseen, outcome, beating>>

EndsAfterSession(r) == stopFlag \/ outcome[r] = "ok"

AfterSession(r) ==
    /\ pc[r] = "returned"
    /\ Goto(r, IF EndsAfterSession(r) THEN "exiting" ELSE "dead")
    /\ Local /\ UNCHANGED <<status, unseen, outcome, beating>>

\* Mutant: the death is logged and the status still says connected.
DeathUnreported(st) == [st EXCEPT !.reconnects = @ + 1, !.err = TRUE]

DeathStatus(st) ==
    [st EXCEPT !.state = "starting", !.addr = FALSE, !.since = FALSE,
               !.err = TRUE, !.reconnects = @ + 1]

ReportDeath(r) ==
    /\ pc[r] = "dead"
    /\ status' = DeathStatus(status)
    /\ Goto(r, IF auto[r] THEN "resting" ELSE "givingUp")
    /\ Local /\ UNCHANGED <<unseen, outcome, beating>>

\* Mutant: the break after Failed is missing.
GiveUpAndRedial(r) ==
    /\ pc[r] = "givingUp"
    /\ status' = [status EXCEPT !.state = "failed"]
    /\ Goto(r, "resting")
    /\ Local /\ UNCHANGED <<unseen, outcome, beating>>

GiveUp(r) ==
    /\ pc[r] = "givingUp"
    /\ status' = [status EXCEPT !.state = "failed"]
    /\ Goto(r, "exiting")
    /\ Local /\ UNCHANGED <<unseen, outcome, beating>>

ReportRefusal(r) ==
    /\ pc[r] = "refused"
    /\ status' = [status EXCEPT !.err = TRUE,
                                !.state = IF auto[r] THEN "starting" ELSE "failed"]
    /\ Goto(r, "refusalLogged")
    /\ Local /\ UNCHANGED <<unseen, outcome, beating>>

\* Mutant: a failed dial does not look at the stop flag.
EndsAfterRefusalBlind(r) == ~auto[r]

EndsAfterRefusal(r) == ~auto[r] \/ stopFlag

AfterRefusal(r) ==
    /\ pc[r] = "refusalLogged"
    /\ Goto(r, IF EndsAfterRefusal(r) THEN "exiting" ELSE "resting")
    /\ Local /\ UNCHANGED <<status, unseen, outcome, beating>>

\* Subscribe to the stop channel and wait out the backoff delay.
BeginBackoff(r) ==
    /\ pc[r] = "resting"
    /\ Goto(r, "backoff")
    /\ Subscribe(r)
    /\ Local /\ UNCHANGED <<status, outcome, beating>>

\* The sleep arm of the select, which may win although a stop is unseen.
BackoffExpires(r) ==
    /\ pc[r] = "backoff" /\ CanPoll(r)
    /\ Goto(r, "connecting")
    /\ Local /\ UNCHANGED <<status, unseen, outcome, beating>>

\* The stop arm: break on true; on false the select is over all the same.
BackoffSeesStop(r) ==
    /\ pc[r] = "backoff" /\ CanPoll(r)
    /\ unseen[r]
    /\ unseen' = [unseen EXCEPT ![r] = FALSE]
    /\ Goto(r, IF stopFlag THEN "exiting" ELSE "connecting")
    /\ Local /\ UNCHANGED <<status, outcome, beating>>

Exit(r) ==
    /\ pc[r] = "exiting"
    /\ status' = IF stopFlag THEN [status EXCEPT !.state = "stopped"] ELSE status
    /\ Goto(r, "done")
    /\ Local /\ UNCHANGED <<unseen, outcome, beating>>

\* The runtime drops an aborted task at an await: its receiver, its control
\* connection and its JoinSet go with it, and the JoinSet aborts the forwarders.
Cancel(r) ==
    /\ r \in aborted
    /\ pc[r] \in AwaitPcs
    /\ Goto(r, "cancelled")
    /\ Local /\ UNCHANGED <<status, unseen, outcome, beating>>

------------------------------------------------------------------------------
(* stop() *)

At(s, l) == stopper' = [stopper EXCEPT ![s].at = l]

\* The manager hands out the supervisor only after start() has returned.
StopSignals(s) ==
    /\ stopper[s].at = "idle"
    /\ started > 0
    /\ SendStop(TRUE)
    /\ At(s, "signalled")
    /\ UNCHANGED <<started, status, handle, aborted, pc, auto, outcome, beating, fwdVars>>

\* Mutant: the handle is taken, and nobody waits for the task.
StopTakesHandleOnly(s) ==
    /\ stopper[s].at = "signalled"
    /\ At(s, "finishing")
    /\ handle' = NoRun
    /\ UNCHANGED <<started, status, stopFlag, aborted, taskVars, fwdVars>>

\* The second of two concurrent stops finds no handle and goes on.
StopTakesHandle(s) ==
    /\ stopper[s].at = "signalled"
    /\ stopper' = [stopper EXCEPT
           ![s] = [at |-> IF handle = NoRun THEN "finishing" ELSE "joining", run |-> handle]]
    /\ handle' = NoRun
    /\ UNCHANGED <<started, status, stopFlag, aborted, taskVars, fwdVars>>

StopJoins(s) ==
    /\ stopper[s].at = "joining"
    /\ pc[stopper[s].run] \in EndPcs
    /\ At(s, "finishing")
    /\ UNCHANGED <<started, status, stopFlag, handle, aborted, taskVars, fwdVars>>

\* Mutant: the grace period elapses and the task is left alone.
StopGivesUpQuietly(s) ==
    /\ stopper[s].at = "joining"
    /\ pc[stopper[s].run] \notin EndPcs
    /\ At(s, "finishing")
    /\ UNCHANGED <<started, status, stopFlag, handle, aborted, taskVars, fwdVars>>

\* STOP_GRACE elapses first: abort, without waiting for its effect.
StopGivesUp(s) ==
    /\ stopper[s].at = "joining"
    /\ pc[stopper[s].run] \notin EndPcs
    /\ aborted' = aborted \cup {stopper[s].run}
    /\ At(s, "finishing")
    /\ UNCHANGED <<started, status, stopFlag, handle, taskVars, fwdVars>>

StopFinishes(s) ==
    /\ stopper[s].at = "finishing"
    /\ status' = [status EXCEPT !.state = "stopped", !.since = FALSE]
    /\ At(s, "returned")
    /\ UNCHANGED <<started, stopFlag, handle, aborted, taskVars, fwdVars>>

------------------------------------------------------------------------------
(* The forwarder tasks (spawn_forwarder) and their pumps                   *)
(* (forward_bidirectional).                                                *)

\* The forwarder has been aborted: run_session is past its loop, or the task
\* that owned the JoinSet is gone.
Doomed(v) == pc[owner[v]] # "session"

\* What a forwarder's step leaves alone.
Alone == UNCHANGED <<started, status, stopFlag, taskVars, stopVars, owner>>

Forward(v, from, to) ==
    /\ fwd[v] = from
    /\ fwd' = [fwd EXCEPT ![v] = to]

\* First poll: the ConnGuard is created.
ForwarderStarts(v) ==
    /\ Forward(v, "spawned", "guarded")
    /\ ~Doomed(v)
    /\ activeConns' = activeConns + 1
    /\ Alone /\ UNCHANGED pump

\* The local service is down, the data channel or the leftover write fails.
ForwarderFails(v) ==
    /\ Forward(v, "guarded", "gone")
    /\ ~Doomed(v)
    /\ activeConns' = activeConns - 1
    /\ Alone /\ UNCHANGED pump

\* Both sockets are open: the two pumps are spawned as tasks of their own.
ForwarderPipes(v) ==
    /\ Forward(v, "guarded", "piping")
    /\ ~Doomed(v)
    /\ pump' = [pump EXCEPT ![v] = [d \in Directions |-> "running"]]
    /\ Alone /\ UNCHANGED activeConns

\* A pump reaches EOF or an IO error; it needs no forwarder to get there.
PumpSettles(v, d) ==
    /\ pump[v][d] = "running"
    /\ \E how \in {"eof", "failed"} : pump' = [pump EXCEPT ![v][d] = how]
    /\ Alone /\ UNCHANGED <<fwd, activeConns>>

\* forward_bidirectional returns: both directions are over, or one failed and
\* the other is aborted.
ForwarderReturns(v) ==
    /\ Forward(v, "piping", "gone")
    /\ ~Doomed(v)
    /\ \/ \A d \in Directions : pump[v][d] # "running"
       \/ \E d \in Directions : pump[v][d] = "failed"
    /\ pump' = [pump EXCEPT ![v] =
                   [d \in Directions |-> IF @[d] = "running" THEN "aborted" ELSE @[d]]]
    /\ activeConns' = activeConns - 1
    /\ Alone

\* Mutant: the counter is decremented at the end of the body, which an
\* aborted forwarder never reaches.
ForwarderCancelledUncounted(v) ==
    /\ fwd[v] \in {"spawned", "guarded", "piping"}
    /\ Doomed(v)
    /\ fwd' = [fwd EXCEPT ![v] = "gone"]
    /\ Alone /\ UNCHANGED <<activeConns, pump>>

\* Mutant: the guard exists before the first poll.
ForwarderCancelledOvercounted(v) ==
    /\ fwd[v] \in {"spawned", "guarded", "piping"}
    /\ Doomed(v)
    /\ fwd' = [fwd EXCEPT ![v] = "gone"]
    /\ activeConns' = activeConns - 1
    /\ Alone /\ UNCHANGED pump

\* The runtime drops an aborted forwarder, with its guard if it has one. The
\* JoinHandles of its pumps are dropped too, which leaves the pumps running.
ForwarderCancelled(v) ==
    /\ fwd[v] \in {"spawned", "guarded", "piping"}
    /\ Doomed(v)
    /\ fwd' = [fwd EXCEPT ![v] = "gone"]
    /\ activeConns' = IF fwd[v] = "spawned" THEN activeConns ELSE activeConns - 1
    /\ Alone /\ UNCHANGED pump

------------------------------------------------------------------------------
(* The next-state relation. What the task, the forwarders and the callers  *)
(* of stop() do once they are scheduled is kept apart from what the server,*)
(* the visitors and the user do.                                           *)

TaskStep(r) ==
    \/ ReportConnected(r)
    \/ BeginSession(r)
    \/ SessionSeesStop(r)
    \/ AckTimeout(r)
    \/ TeardownDone(r)
    \/ AfterSession(r)
    \/ ReportDeath(r)
    \/ GiveUp(r)
    \/ ReportRefusal(r)
    \/ AfterRefusal(r)
    \/ BeginBackoff(r)
    \/ BackoffExpires(r)
    \/ BackoffSeesStop(r)
    \/ Exit(r)
    \/ Cancel(r)

ServerStep(r) ==
    \/ DialSucceeds(r)
    \/ DialFails(r)
    \/ SessionBreaks(r)
    \/ ServerBeats(r)
    \/ \E v \in Visitors : SpawnForwarder(r, v)

ForwarderStep(v) ==
    \/ ForwarderStarts(v)
    \/ ForwarderReturns(v)
    \/ ForwarderCancelled(v)

TrafficStep(v) ==
    \/ ForwarderFails(v)
    \/ ForwarderPipes(v)
    \/ \E d \in Directions : PumpSettles(v, d)

StopStep(s) ==
    \/ StopTakesHandle(s)
    \/ StopJoins(s)
    \/ StopGivesUp(s)
    \/ StopFinishes(s)

Next ==
    \/ \E a \in BOOLEAN : Start(a)
    \/ \E r \in Runs : TaskStep(r) \/ ServerStep(r)
    \/ \E v \in Visitors : ForwarderStep(v) \/ TrafficStep(v)
    \/ \E s \in Stoppers : StopSignals(s) \/ StopStep(s)

Spec == Init /\ [][Next]_vars

\* The runtime polls what is ready and its timers fire. Nothing is assumed of
\* the server, of the visitors' traffic or of the user.
Fairness ==
    /\ \A r \in Runs : WF_vars(TaskStep(r))
    /\ \A v \in Visitors : WF_vars(ForwarderStep(v))
    /\ \A s \in Stoppers : WF_vars(StopStep(s))

FairSpec == Spec /\ Fairness

------------------------------------------------------------------------------
(* Safety *)

\* README.md:103-106, supervisor.rs:15: the tunnel is torn down, every
\* forwarder task included, before it rests or dials again. Only a task that
\* was cancelled at an await leaves forwarders behind it.
TeardownBeforeRedial ==
    \A r \in Runs :
        pc[r] \notin {"session", "teardown", "cancelled"} => LiveForwarders(r) = {}

\* The forwarders that hold a ConnGuard.
Guarded == {v \in Visitors : fwd[v] \in {"guarded", "piping"}}

\* supervisor.rs:323: active_connections() is the number of forwarders that
\* hold a guard, whichever way the others ended.
ActiveConnsExact == activeConns = Cardinality(Guarded)

\* A status of "connected" has a session behind it: between ReportConnected
\* and the report of the session's end. Only an abort breaks the tie.
ConnectedHasSession ==
    status.state = "connected" =>
        \E r \in Runs :
            \/ pc[r] \in {"subscribing", "session", "teardown", "returned", "dead", "exiting"}
            \/ r \in aborted

\* stop() always reaches the task: a task that lives and was not aborted is
\* the stored handle's, or some stop() is waiting for it.
NoOrphanTask ==
    \A r \in Runs :
        (pc[r] \notin {"unborn"} \cup EndPcs /\ r \notin aborted) =>
            handle = r \/ \E s \in Stoppers : stopper[s] = [at |-> "joining", run |-> r]

\* Once a stop is stored the tunnel is never reported as dying or resting for
\* another dial: sends that find no receiver cannot clear the flag between
\* the moment the task reads it and the moment it subscribes again.
NoRestOnceStopStored ==
    \A r \in Runs : pc[r] \in {"dead", "givingUp", "resting"} => ~stopFlag

\* When every stop() in progress has returned and no task had to be aborted,
\* the tunnel says "stopped", whatever order the task and the stops ran in.
StoppedUnlessAborted ==
    /\ \E s \in Stoppers : stopper[s].at = "returned"
    /\ \A s \in Stoppers : stopper[s].at \in {"idle", "returned"}
    /\ aborted = {}
    => status.state = "stopped"

\* What TunnelManager may rely on: apart from a stop() and the next start(),
\* the state moves as StatusMoves allows. In particular a failure is final
\* (supervisor.rs:431-434), and it is reported only by a task that is not
\* connected.
StatusMovesAllowed ==
    [][status.state' # status.state =>
           status.state' \in Moves[status.state] \cup {"stopped", "idle"}]_vars

------------------------------------------------------------------------------
(* Liveness *)

\* When stop() has returned the task ends, even if the signal was lost.
StoppedTaskEnds ==
    \A r \in Runs :
        (\E s \in Stoppers : stopper[s].at = "returned")
            ~> pc[r] \in EndPcs \cup {"unborn"}

\* supervisor.rs:10: silence ends the session, visitors or no visitors.
SilenceEndsSession ==
    \A r \in Runs : (pc[r] = "session" /\ ~beating[r]) ~> (pc[r] # "session" \/ beating[r])

------------------------------------------------------------------------------
(* Refinement *)

Phase(r) ==
    CASE pc[r] = "unborn" -> "idle"
      [] pc[r] \in EndPcs -> "ended"
      [] OTHER -> IF r \in aborted THEN "killed" ELSE "running"

Link(r) ==
    CASE pc[r] = "connecting" -> "dialing"
      [] pc[r] \in {"established", "subscribing", "session", "teardown"} -> "open"
      [] OTHER -> "none"

Life == INSTANCE TunnelLifecycle
    WITH phase <- Phase(1), link <- Link(1), carried <- LiveForwarders(1)

\* The first run (the only one TunnelManager asks of a supervisor) is a
\* TunnelLifecycle.
LifeRefined == Life!Spec

------------------------------------------------------------------------------
(* What the documents promise and the code does not do. *)

\* docs/EVENTS.md:43: remoteAddress is null while not connected.
AddressOnlyWhenConnected == status.addr => status.state = "connected"

\* README.md:104-105 and 114: a teardown closes every visitor's connection.
\* The pumps hold the sockets.
TeardownClosesVisitors ==
    \A v \in Visitors :
        (owner[v] # NoRun /\ pc[owner[v]] \notin {"session", "teardown", "cancelled"})
            => \A d \in Directions : fwd[v] = "gone" => pump[v][d] # "running"

\* docs/EVENTS.md:58, manager.rs: the status after stop() is a final "stopped".
StoppedIsFinal ==
    (\E s \in Stoppers : stopper[s].at = "returned") => status.state = "stopped"
==============================================================================
