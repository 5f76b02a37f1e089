---------------------------- MODULE TunnelManager -----------------------------
(***************************************************************************)
(* TunnelManager (tunnel/manager.rs) and its callers: the start, stop and  *)
(* delete commands (commands.rs), the launch auto-connect (main.rs) and    *)
(* Quit (tray.rs).                                                         *)
(*                                                                         *)
(* The map lock makes start() and the first part of stop() atomic; the     *)
(* rest of stop() runs without it. A supervisor is its state and its task: *)
(* the state moves as StatusMoves says (Supervisor checks that), stop()    *)
(* joins or aborts the task if it finds its handle. An event pump shows    *)
(* the frontend the state of its supervisor some time after each change    *)
(* (EventPump checks that).                                                *)
(***************************************************************************)
EXTENDS Integers, FiniteSets, StatusMoves

CONSTANTS
    Profiles,      \* the profiles of the config file
    NoProfile,     \* stands for no profile
    Callers,       \* commands in progress, each runs one
    MaxSups        \* bound: supervisors ever made

ASSUME ManagerAssumption == MaxSups \in Nat \ {0} /\ NoProfile \notin Profiles

Sups == 1..MaxSups
NoSup == 0

VARIABLES
    saved,         \* the profiles the config file holds
    started,       \* how many supervisors were made
    entry,         \* the manager's map: the supervisor of each profile, or NoSup
    of,            \* the profile each supervisor was made for
    stopped,       \* RunningTunnel.stopped of the supervisor's entry
    pumpHeld,      \* RunningTunnel.pump is there
    state,         \* the state each supervisor reports
    task,          \* its task: "none", "live" or "over"
    handle,        \* the supervisor still has the JoinHandle of its task
    signalled,     \* stop() was called
    pump,          \* its event pump: "none", "live", "aborted" or "gone"
    dirty,         \* the pump has a change it has not shown
    shown,         \* the last status event of each profile
    at,            \* what each caller is doing
    target,        \* the profile it does it to
    victim,        \* its stop: the supervisor it found there
    hasPump,       \* its stop: the pump of that was there to take
    todo,          \* its Quit: the profiles still to be stopped
    known,         \* its Quit: the supervisors made when it began, else 0
    exited         \* Quit has ended the process

supVars == <<state, task, handle, signalled>>
entryVars == <<entry, of, started, stopped, pumpHeld>>
pumpVars == <<pump, dirty, shown>>
callVars == <<at, target, victim, hasPump, todo, known>>
stopVars == <<target, victim, hasPump, todo, known>>
vars == <<saved, supVars, entryVars, pumpVars, callVars, exited>>

StopStages == {"stopping", "joining", "marking", "aborting", "emitting"}
Stages == StopStages \cup {"idle", "starting", "deleting", "quitting", "done"}

\* Every variable is in its type; an entry is a supervisor of its own profile
\* that was made, and its stopped mark tells that its pump was taken.
TypeOK ==
    /\ saved \subseteq Profiles
    /\ started \in 0..MaxSups
    /\ entry \in [Profiles -> 0..MaxSups]
    /\ of \in [Sups -> Profiles \cup {NoProfile}]
    /\ {stopped, pumpHeld, handle, signalled, dirty} \subseteq [Sups -> BOOLEAN]
    /\ state \in [Sups -> States]
    /\ task \in [Sups -> {"none", "live", "over"}]
    /\ pump \in [Sups -> {"none", "live", "aborted", "gone"}]
    /\ shown \in [Profiles -> [sup : 0..MaxSups, state : States]]
    /\ at \in [Callers -> Stages]
    /\ target \in [Callers -> Profiles \cup {NoProfile}]
    /\ {victim, known} \subseteq [Callers -> 0..MaxSups]
    /\ hasPump \in [Callers -> BOOLEAN]
    /\ todo \in [Callers -> SUBSET Profiles]
    /\ exited \in BOOLEAN
    /\ \A p \in Profiles : entry[p] \in 0..started /\ (entry[p] # NoSup => of[entry[p]] = p)
    /\ \A g \in 1..started : stopped[g] <=> ~pumpHeld[g]

Init ==
    /\ saved = Profiles
    /\ started = 0
    /\ entry = [p \in Profiles |-> NoSup]
    /\ of = [g \in Sups |-> NoProfile]
    /\ stopped = [g \in Sups |-> FALSE]
    /\ pumpHeld = [g \in Sups |-> FALSE]
    /\ state = [g \in Sups |-> "idle"]
    /\ task = [g \in Sups |-> "none"]
    /\ handle = [g \in Sups |-> FALSE]
    /\ signalled = [g \in Sups |-> FALSE]
    /\ pump = [g \in Sups |-> "none"]
    /\ dirty = [g \in Sups |-> FALSE]
    /\ shown = [p \in Profiles |-> [sup |-> NoSup, state |-> "idle"]]
    /\ at = [c \in Callers |-> "idle"]
    /\ target = [c \in Callers |-> NoProfile]
    /\ victim = [c \in Callers |-> NoSup]
    /\ hasPump = [c \in Callers |-> FALSE]
    /\ todo = [c \in Callers |-> {}]
    /\ known = [c \in Callers |-> 0]
    /\ exited = FALSE

------------------------------------------------------------------------------
(* The supervisors and their pumps *)

\* Nothing runs once Quit has ended the process.
In(c, l) == ~exited /\ at[c] = l

\* The task reports a state.
TaskReports(g) ==
    /\ ~exited /\ task[g] = "live"
    /\ \E s \in Moves[state[g]] : state' = [state EXCEPT ![g] = s]
    /\ dirty' = [dirty EXCEPT ![g] = TRUE]
    /\ UNCHANGED <<saved, task, handle, signalled, entryVars, pump, shown, callVars, exited>>

\* The task ends: it reported a failure, or it saw the stop signal.
TaskEnds(g) ==
    /\ ~exited /\ task[g] = "live"
    /\ state[g] = "failed" \/ signalled[g]
    /\ task' = [task EXCEPT ![g] = "over"]
    /\ state' = IF signalled[g] THEN [state EXCEPT ![g] = "stopped"] ELSE state
    /\ dirty' = [dirty EXCEPT ![g] = @ \/ signalled[g]]
    /\ UNCHANGED <<saved, handle, signalled, entryVars, pump, shown, callVars, exited>>

\* The pump emits the state; "stopped" is its last emission. An aborted pump
\* may be in the middle of one.
PumpShows(g) ==
    /\ ~exited /\ pump[g] \in {"live", "aborted"}
    /\ dirty[g]
    /\ dirty' = [dirty EXCEPT ![g] = FALSE]
    /\ shown' = [shown EXCEPT ![of[g]] = [sup |-> g, state |-> state[g]]]
    /\ pump' = [pump EXCEPT ![g] =
                   IF @ = "aborted" \/ state[g] = "stopped" THEN "gone" ELSE "live"]
    /\ UNCHANGED <<saved, supVars, entryVars, callVars, exited>>

PumpCancelled(g) ==
    /\ ~exited /\ pump[g] = "aborted"
    /\ pump' = [pump EXCEPT ![g] = "gone"]
    /\ UNCHANGED <<saved, supVars, entryVars, dirty, shown, callVars, exited>>

------------------------------------------------------------------------------
(* start *)

Goto(c, l) == at' = [at EXCEPT ![c] = l]

\* Nothing of the caller but its stage changes.
At(c, l) == Goto(c, l) /\ UNCHANGED stopVars

Aim(c, p) == target' = [target EXCEPT ![c] = p]

\* start_profile finds the profile in the config file.
StartLooksUp(c, p) ==
    /\ In(c, "idle")
    /\ p \in saved
    /\ Goto(c, "starting")
    /\ Aim(c, p)
    /\ UNCHANGED <<victim, hasPump, todo, known, saved, supVars, entryVars, pumpVars, exited>>

\* Mutant: a tunnel that is not running may be started again.
AcceptsRestartUnlessRunning(g) == state[g] \notin RunningStates

AcceptsRestart(g) == stopped[g] \/ state[g] \in {"failed", "stopped"}

StartRefused(c) ==
    /\ In(c, "starting")
    /\ entry[target[c]] # NoSup
    /\ ~AcceptsRestart(entry[target[c]])
    /\ At(c, "done")
    /\ UNCHANGED <<saved, supVars, entryVars, pumpVars, exited>>

\* A fresh supervisor, its pump and its task replace the entry; the pump of
\* the old entry is aborted if the entry still holds it.
StartRuns(c) ==
    LET p == target[c]
        old == entry[p]
        new == started + 1
    IN  /\ In(c, "starting")
        /\ started < MaxSups
        /\ old # NoSup => AcceptsRestart(old)
        /\ started' = new
        /\ entry' = [entry EXCEPT ![p] = new]
        /\ of' = [of EXCEPT ![new] = p]
        /\ pumpHeld' = [pumpHeld EXCEPT ![new] = TRUE]
        /\ task' = [task EXCEPT ![new] = "live"]
        /\ handle' = [handle EXCEPT ![new] = TRUE]
        /\ dirty' = [dirty EXCEPT ![new] = TRUE]
        /\ pump' = [g \in Sups |->
                       IF g = new THEN "live"
                       ELSE IF g = old /\ pumpHeld[g] /\ pump[g] = "live" THEN "aborted"
                       ELSE pump[g]]
        /\ At(c, "done")
        /\ UNCHANGED <<saved, stopped, state, signalled, shown, exited>>

------------------------------------------------------------------------------
(* stop *)

\* Mutant: the pump stays in the entry.
MarkStoppedOnly(c, p) ==
    /\ stopped' = [stopped EXCEPT ![entry[p]] = TRUE]
    /\ Goto(c, "stopping")
    /\ Aim(c, p)
    /\ victim' = [victim EXCEPT ![c] = entry[p]]
    /\ hasPump' = [hasPump EXCEPT ![c] = pumpHeld[entry[p]]]
    /\ todo' = [todo EXCEPT ![c] = @ \ {p}]
    /\ UNCHANGED <<known, pumpHeld>>

\* The critical section: mark the entry and take its pump.
MarkStopped(c, p) ==
    /\ stopped' = [stopped EXCEPT ![entry[p]] = TRUE]
    /\ pumpHeld' = [pumpHeld EXCEPT ![entry[p]] = FALSE]
    /\ Goto(c, "stopping")
    /\ Aim(c, p)
    /\ victim' = [victim EXCEPT ![c] = entry[p]]
    /\ hasPump' = [hasPump EXCEPT ![c] = pumpHeld[entry[p]]]
    /\ todo' = [todo EXCEPT ![c] = @ \ {p}]
    /\ UNCHANGED known

StopMarks(c, p) ==
    /\ In(c, "idle")
    /\ entry[p] # NoSup
    /\ MarkStopped(c, p)
    /\ UNCHANGED <<saved, supVars, entry, of, started, pumpVars, exited>>

\* TunnelSupervisor::stop: send the signal, take the handle of the task.
SupSignals(c) ==
    LET g == victim[c]
    IN  /\ In(c, "stopping")
        /\ signalled' = [signalled EXCEPT ![g] = TRUE]
        /\ handle' = [handle EXCEPT ![g] = FALSE]
        /\ At(c, IF handle[g] THEN "joining" ELSE "marking")
        /\ UNCHANGED <<saved, state, task, entryVars, pumpVars, exited>>

\* The task is over, or is aborted and taken to be over.
SupJoins(c) ==
    /\ In(c, "joining")
    /\ task' = [task EXCEPT ![victim[c]] = "over"]
    /\ At(c, "marking")
    /\ UNCHANGED <<saved, state, handle, signalled, entryVars, pumpVars, exited>>

SupMarks(c) ==
    /\ In(c, "marking")
    /\ state' = [state EXCEPT ![victim[c]] = "stopped"]
    /\ dirty' = [dirty EXCEPT ![victim[c]] = TRUE]
    /\ At(c, "aborting")
    /\ UNCHANGED <<saved, task, handle, signalled, entryVars, pump, shown, exited>>

\* Mutant: the stop aborts the pump that the entry has by now.
TakenPumpOfEntry(c) == entry[target[c]]

TakenPump(c) == IF hasPump[c] THEN victim[c] ELSE NoSup

StopAborts(c) ==
    LET g == TakenPump(c)
    IN  /\ In(c, "aborting")
        /\ pump' = IF g # NoSup /\ pump[g] = "live"
                   THEN [pump EXCEPT ![g] = "aborted"] ELSE pump
        /\ At(c, "emitting")
        /\ UNCHANGED <<saved, supVars, entryVars, dirty, shown, exited>>

\* Mutant: the last status is left to the pump.
LastStatusByPump(c) == shown[target[c]]

LastStatus(c) == [sup |-> victim[c], state |-> state[victim[c]]]

\* The last status does not depend on the pump. Quit goes on with its next
\* tunnel, a command is done.
StopEmits(c) ==
    /\ In(c, "emitting")
    /\ shown' = [shown EXCEPT ![target[c]] = LastStatus(c)]
    /\ At(c, IF known[c] > 0 THEN "quitting" ELSE "done")
    /\ UNCHANGED <<saved, supVars, entryVars, pump, dirty, exited>>

------------------------------------------------------------------------------
(* Quit *)

\* Mutant: only the tunnels that run are stopped.
RunningTunnels == {p \in Profiles : entry[p] # NoSup /\ state[entry[p]] \in RunningStates}

Tunnels == {p \in Profiles : entry[p] # NoSup}

\* stop_all collects the ids under the lock, then stops them one by one.
QuitCollects(c) ==
    /\ In(c, "idle")
    /\ Goto(c, "quitting")
    /\ todo' = [todo EXCEPT ![c] = Tunnels]
    /\ known' = [known EXCEPT ![c] = started]
    /\ UNCHANGED <<target, victim, hasPump, saved, supVars, entryVars, pumpVars, exited>>

QuitStops(c, p) ==
    /\ In(c, "quitting")
    /\ p \in todo[c]
    /\ MarkStopped(c, p)
    /\ UNCHANGED <<saved, supVars, entry, of, started, pumpVars, exited>>

QuitExits(c) ==
    /\ In(c, "quitting")
    /\ todo[c] = {}
    /\ exited' = TRUE
    /\ UNCHANGED <<saved, supVars, entryVars, pumpVars, callVars>>

------------------------------------------------------------------------------
(* delete *)

\* delete_profile refuses a tunnel that is_running; the manager keeps the entry.
DeleteChecks(c, p) ==
    /\ In(c, "idle")
    /\ p \notin RunningTunnels
    /\ Goto(c, "deleting")
    /\ Aim(c, p)
    /\ UNCHANGED <<victim, hasPump, todo, known, saved, supVars, entryVars, pumpVars, exited>>

DeleteSaves(c) ==
    /\ In(c, "deleting")
    /\ saved' = saved \ {target[c]}
    /\ At(c, "done")
    /\ UNCHANGED <<supVars, entryVars, pumpVars, exited>>

------------------------------------------------------------------------------

SupNext(g) == TaskReports(g) \/ TaskEnds(g) \/ PumpShows(g) \/ PumpCancelled(g)

StopNext(c) ==
    \/ SupSignals(c) \/ SupJoins(c) \/ SupMarks(c) \/ StopAborts(c) \/ StopEmits(c)

CallNext(c) ==
    \/ \E p \in Profiles :
          StartLooksUp(c, p) \/ StopMarks(c, p) \/ QuitStops(c, p) \/ DeleteChecks(c, p)
    \/ StartRefused(c) \/ StartRuns(c) \/ StopNext(c)
    \/ QuitCollects(c) \/ QuitExits(c) \/ DeleteSaves(c)

Next == (\E g \in Sups : SupNext(g)) \/ (\E c \in Callers : CallNext(c))

Spec == Init /\ [][Next]_vars

------------------------------------------------------------------------------
(* Properties *)

BeingStopped(g) == \E c \in Callers : at[c] \in StopStages /\ victim[c] = g

\* No tunnel is out of reach: one whose task lives, and has not given up, is
\* the one its profile's entry names, which a stop finds, or a stop is on it
\* already. A restart never replaces a tunnel that nobody is stopping.
NoLeakedTunnel ==
    \A g \in Sups :
        task[g] = "live" /\ state[g] # "failed" => entry[of[g]] = g \/ BeingStopped(g)

\* A tunnel that was not stopped keeps its event pump, whatever an older stop
\* of its profile still does: the frontend goes on being told.
FreshPumpAlive ==
    \A p \in Profiles :
        entry[p] # NoSup /\ ~stopped[entry[p]] => pump[entry[p]] = "live"

\* Once every stop of a stopped tunnel has returned, the frontend does not
\* show that tunnel as anything but stopped: neither its pump, aborted or not,
\* nor its task has the last word.
StoppedIsShown ==
    \A p \in Profiles :
        LET g == entry[p]
        IN  g # NoSup /\ stopped[g] /\ ~BeingStopped(g) /\ shown[p].sup = g
                => shown[p].state = "stopped"

\* When Quit ends the process, every tunnel started before it was asked for
\* has ended or was told to stop, those that a stop in progress is on excepted.
QuitStopsAll ==
    exited => \A c \in Callers : known[c] > 0 /\ todo[c] = {} /\ at[c] = "quitting" =>
        \A g \in 1..known[c] :
            task[g] = "live" /\ state[g] # "failed" => signalled[g] \/ BeingStopped(g)

\* What docs/EVENTS.md says of the status events: the frontend never ends up
\* stuck on a stale state. When no stop is in progress and the pump of a live
\* tunnel has nothing more to show, the status shown is that tunnel's.
ShownIsCurrent ==
    \A p \in Profiles :
        LET g == entry[p]
        IN  /\ g # NoSup /\ ~stopped[g] /\ ~dirty[g]
            /\ \A h \in Sups : of[h] = p => ~BeingStopped(h)
            => shown[p] = [sup |-> g, state |-> state[g]]

\* What delete_profile says of itself: a tunnel is stopped before its profile
\* is deleted, so no tunnel of a profile that is gone is left dialling.
DeletedIsDead ==
    \A p \in Profiles \ saved :
        entry[p] # NoSup => task[entry[p]] # "live" \/ state[entry[p]] = "failed"
                            \/ stopped[entry[p]]
==============================================================================
