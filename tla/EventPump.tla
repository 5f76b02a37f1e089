------------------------------ MODULE EventPump -------------------------------
(***************************************************************************)
(* What the frontend sees of one run of a tunnel: the writers of           *)
(* InnerState (start(), supervisor_task, stop()), the status watch, the    *)
(* event pump of tunnel/manager.rs, TunnelManager::stop around it and the  *)
(* log buffer of the frontend store.                                       *)
(*                                                                         *)
(* Every write bumps "rev", so two snapshots are equal iff their revs are. *)
(* mutate() changes the state under its lock and publishes the snapshot it *)
(* took after the lock is gone, so two writers can publish in either order.*)
(* An emission reaches the frontend at once and in order. The stats events *)
(* and the fields a status carries beside its state are left out.          *)
(***************************************************************************)
EXTENDS LogRun, StatusMoves

CONSTANTS
    RingCap,       \* MAX_LOG_LINES of the supervisor
    MaxWrites      \* bound: writes of the task

\* The supervisor keeps more lines (1024) than the store (1000).
ASSUME RingAssumption == RingCap \in Nat /\ ViewCap <= RingCap /\ MaxWrites \in Nat

Writers == {"task", "stop"}
None == -1

VARIABLES
    inner,         \* InnerState: its state and its revision
    lines,         \* next_log_index
    outbox,        \* each writer's snapshot between the lock and send_replace
    watch,         \* the snapshot stored in status_tx
    task,          \* start() and the task it spawns, which publishes after it
    budget,        \* writes the task may still make
    mgr,           \* where TunnelManager::stop is
    pump,          \* where pump_task is, with what it has read
    unseen,        \* the watch has changed since the pump last looked
    lastLog,       \* last_log, or None
    recent,        \* less than STATUS_COALESCE_WINDOW since the last emission
    pending,       \* pending_flush is armed
    shown,         \* the last status the frontend got
    view           \* the frontend's log buffer

supVars == <<inner, lines, outbox, watch, task, budget>>
pumpVars == <<pump, unseen, lastLog, recent, pending>>
sinkVars == <<shown, view>>
vars == <<supVars, mgr, pumpVars, sinkVars>>

Snapshots == [state : States, rev : Nat]
Nothing == [state |-> "idle", rev |-> None]

TypeOK ==
    /\ inner \in Snapshots
    /\ lines \in Nat
    /\ outbox \in [Writers -> Snapshots \cup {Nothing}]
    /\ watch \in Snapshots
    /\ task \in {"resetting", "greeting", "spawning", "running", "ending", "aborted",
                "over", "cancelled"}
    /\ budget \in 0..MaxWrites
    /\ mgr \in {"idle", "waiting", "marking", "logging", "silencing", "emitting", "done"}
    /\ pump.at \in {"entering", "waiting", "flushing", "reading", "emitting", "gone"}
    /\ {pump.read, shown} \subseteq Snapshots \cup {Nothing}
    /\ lastLog \in None..(lines - 1)
    /\ {unseen, recent, pending} \subseteq BOOLEAN
    /\ \A i \in DOMAIN view : view[i].index \in 0..(lines - 1)

\* TunnelManager::start has made the supervisor and spawned its pump.
Init ==
    /\ inner = [state |-> "idle", rev |-> 0]
    /\ lines = 0
    /\ outbox = [w \in Writers |-> Nothing]
    /\ watch = inner
    /\ task = "resetting"
    /\ budget = MaxWrites
    /\ mgr = "idle"
    /\ pump = [at |-> "entering", read |-> Nothing]
    /\ unseen = FALSE
    /\ lastLog = None
    /\ recent = FALSE
    /\ pending = FALSE
    /\ shown = Nothing
    /\ view = <<>>

------------------------------------------------------------------------------
(* The ring and the writers *)

\* push_log: the ring holds the last RingCap lines.
Oldest == IF lines > RingCap THEN lines - RingCap ELSE 0

RingFrom(first) ==
    LET from == IF first > Oldest THEN first ELSE Oldest
    IN  [i \in 1..(lines - from) |-> [index |-> from + i - 1]]

LogSnapshot == RingFrom(0)

LogEntriesSince(since) == RingFrom(since + 1)

\* mutate() up to the end of its lock: a new state, or a line more.
Mutate(w, state, pushed) ==
    /\ outbox[w] = Nothing
    /\ inner' = [state |-> state, rev |-> inner.rev + 1]
    /\ lines' = lines + pushed
    /\ outbox' = [outbox EXCEPT ![w] = inner']
    /\ UNCHANGED <<watch, pumpVars, sinkVars>>

\* The send_replace at the end of mutate().
Publish(w) ==
    /\ outbox[w] # Nothing
    /\ watch' = outbox[w]
    /\ unseen' = TRUE
    /\ outbox' = [outbox EXCEPT ![w] = Nothing]
    /\ UNCHANGED <<inner, lines, task, budget, mgr, pump, lastLog, recent, pending>>
    /\ UNCHANGED sinkVars

\* start() resets InnerState, and logs where it connects to.
StartResets ==
    /\ task = "resetting"
    /\ Mutate("task", "idle", 0)
    /\ task' = "greeting"
    /\ UNCHANGED <<budget, mgr>>

StartLogs ==
    /\ task = "greeting"
    /\ Mutate("task", inner.state, 1)
    /\ task' = "spawning"
    /\ UNCHANGED <<budget, mgr>>

StartSpawns ==
    /\ task = "spawning"
    /\ outbox["task"] = Nothing
    /\ task' = "running"
    /\ UNCHANGED <<inner, lines, outbox, watch, budget, mgr, pumpVars, sinkVars>>

\* The task reports a new state, or logs, as its forwarders do.
TaskWrites ==
    /\ task \in {"running", "aborted"}
    /\ budget > 0
    /\ \/ \E s \in Moves[inner.state] : Mutate("task", s, 0)
       \/ Mutate("task", inner.state, 1)
    /\ budget' = budget - 1
    /\ UNCHANGED <<task, mgr>>

\* The task reports that it saw the stop flag: its last write.
TaskStops ==
    /\ task = "running"
    /\ mgr = "waiting"
    /\ Mutate("task", "stopped", 0)
    /\ task' = "ending"
    /\ UNCHANGED <<budget, mgr>>

\* The task ends; an aborted one at its next await.
TaskEnds ==
    /\ task \in {"running", "ending", "aborted"}
    /\ outbox["task"] = Nothing
    /\ task' = IF task = "aborted" THEN "cancelled" ELSE "over"
    /\ UNCHANGED <<inner, lines, outbox, watch, budget, mgr, pumpVars, sinkVars>>

------------------------------------------------------------------------------
(* TunnelManager::stop, TunnelSupervisor::stop inside it *)

\* The manager's map lock is held until start() has returned.
StopBegins ==
    /\ mgr = "idle"
    /\ task \notin {"resetting", "greeting", "spawning"}
    /\ mgr' = "waiting"
    /\ UNCHANGED <<supVars, pumpVars, sinkVars>>

\* The task is joined, or aborted when the grace period is over.
StopJoins ==
    /\ mgr = "waiting"
    /\ \/ task = "over" /\ UNCHANGED task
       \/ task \in {"running", "ending"} /\ task' = "aborted"
    /\ mgr' = "marking"
    /\ UNCHANGED <<inner, lines, outbox, watch, budget, pumpVars, sinkVars>>

StopMarks ==
    /\ mgr = "marking"
    /\ Mutate("stop", "stopped", 0)
    /\ mgr' = "logging"
    /\ UNCHANGED <<task, budget>>

StopLogs ==
    /\ mgr = "logging"
    /\ Mutate("stop", inner.state, 1)
    /\ mgr' = "silencing"
    /\ UNCHANGED <<task, budget>>

\* The supervisor's stop() has returned: abort the pump.
StopSilences ==
    /\ mgr = "silencing"
    /\ outbox["stop"] = Nothing
    /\ mgr' = "emitting"
    /\ UNCHANGED <<supVars, pumpVars, sinkVars>>

\* emit_status with supervisor.status() as its argument: after the abort only
\* a last write of an aborted task could come between the two.
StopEmits ==
    /\ mgr = "emitting"
    /\ shown' = inner
    /\ mgr' = "done"
    /\ UNCHANGED <<supVars, pumpVars, view>>

------------------------------------------------------------------------------
(* pump_task. It waits in "entering", before its first poll, and in        *)
(* "waiting", the select; an abort ends it there.                          *)

Silenced == mgr \in {"emitting", "done"}

Goto(l) == pump' = [at |-> l, read |-> Nothing]

\* status_rx.changed() and borrow_and_update().
PumpWakes ==
    /\ pump.at = "waiting" /\ ~Silenced
    /\ unseen
    /\ unseen' = FALSE
    /\ pump' = [at |-> "flushing", read |-> watch]
    /\ UNCHANGED <<supVars, mgr, lastLog, recent, pending, sinkVars>>

\* No line at all makes last_log None, and the next time it is the whole ring.
NewEntries == IF lastLog = None THEN LogSnapshot ELSE LogEntriesSince(lastLog)

\* Mutant: log lines are coalesced like the status.
FlushLogsSlowly ==
    LET entries == IF recent THEN <<>> ELSE NewEntries
    IN  /\ view' = ApplyLogEvents(view, entries)
        /\ lastLog' = LastIndex(entries)

\* Emit the lines the frontend has not got.
FlushLogs ==
    /\ view' = ApplyLogEvents(view, NewEntries)
    /\ lastLog' = LastIndex(NewEntries)

\* Emit the status that woke the pump if it is a stop, and end.
PumpShowsStop ==
    /\ pump.at = "flushing"
    /\ pump.read.state = "stopped"
    /\ FlushLogs
    /\ shown' = pump.read
    /\ Goto("gone")
    /\ UNCHANGED <<supVars, mgr, unseen, recent, pending>>

\* Mutant: what woke the pump is emitted, not the status of that moment.
PumpDecidesStale ==
    /\ pump.at = "flushing"
    /\ pump.read.state # "stopped"
    /\ FlushLogs
    /\ pump' = [pump EXCEPT !.at = IF recent THEN "waiting" ELSE "emitting"]
    /\ pending' = (pending \/ recent)
    /\ UNCHANGED <<supVars, mgr, unseen, recent, shown>>

\* Mutant: a status within the window is dropped.
PumpDecidesDropping ==
    /\ pump.at = "flushing"
    /\ pump.read.state # "stopped"
    /\ FlushLogs
    /\ Goto(IF recent THEN "waiting" ELSE "reading")
    /\ UNCHANGED <<supVars, mgr, unseen, recent, pending, shown>>

\* Any other status is emitted now, or kept for the end of the window.
PumpDecides ==
    /\ pump.at = "flushing"
    /\ pump.read.state # "stopped"
    /\ FlushLogs
    /\ Goto(IF recent THEN "waiting" ELSE "reading")
    /\ pending' = (pending \/ recent)
    /\ UNCHANGED <<supVars, mgr, unseen, recent, shown>>

\* The timer of the trailing edge.
PumpTimer ==
    /\ pump.at = "waiting" /\ ~Silenced
    /\ pending /\ ~recent
    /\ Goto("reading")
    /\ UNCHANGED <<supVars, mgr, unseen, lastLog, recent, pending, sinkVars>>

\* supervisor.status(), the argument of emit_status.
PumpReads ==
    /\ \/ pump.at = "reading"
       \/ pump.at = "entering" /\ ~Silenced
    /\ pump' = [at |-> "emitting", read |-> inner]
    /\ UNCHANGED <<supVars, mgr, unseen, lastLog, recent, pending, sinkVars>>

PumpEmits ==
    /\ pump.at = "emitting"
    /\ shown' = pump.read
    /\ Goto("waiting")
    /\ recent' = TRUE
    /\ pending' = FALSE
    /\ UNCHANGED <<supVars, mgr, unseen, lastLog, view>>

\* A second has passed since the last emission. It makes no difference
\* while the pump is not about to look at the clock.
WindowCloses ==
    /\ recent
    /\ pump.at \in {"waiting", "flushing"}
    /\ recent' = FALSE
    /\ UNCHANGED <<supVars, mgr, pump, unseen, lastLog, pending, sinkVars>>

PumpCancelled ==
    /\ Silenced
    /\ pump.at \in {"entering", "waiting"}
    /\ Goto("gone")
    /\ UNCHANGED <<supVars, mgr, unseen, lastLog, recent, pending, sinkVars>>

------------------------------------------------------------------------------
TaskStep == StartResets \/ StartLogs \/ StartSpawns \/ TaskWrites \/ TaskStops \/ TaskEnds

StopStep == StopJoins \/ StopMarks \/ StopLogs \/ StopSilences \/ StopEmits

PumpStep ==
    \/ PumpWakes \/ PumpShowsStop \/ PumpDecides \/ PumpTimer
    \/ PumpReads \/ PumpEmits \/ PumpCancelled

Next ==
    \/ TaskStep
    \/ \E w \in Writers : Publish(w)
    \/ StopBegins
    \/ StopStep
    \/ PumpStep
    \/ WindowCloses

Spec == Init /\ [][Next]_vars

------------------------------------------------------------------------------
\* docs/EVENTS.md:66: whenever the pump has handled all that was published,
\* the frontend's buffer is the end of the ring, each line once and in order,
\* although the pump may have emitted lines again or skipped evicted ones.
ViewMatchesRing ==
    /\ pump.at = "waiting"
    /\ ~unseen
    /\ outbox = [w \in Writers |-> Nothing]
    => view = Capped(LogSnapshot)

\* Until the manager speaks, what is shown never goes back to an older state,
\* whatever order writers publish in. An aborted task may still publish a
\* status over the one of stop().
StatusForward ==
    [][(mgr \notin {"emitting", "done"} /\ task \notin {"aborted", "cancelled"})
        => (shown'.rev < shown.rev => shown'.state = shown.state)]_vars

\* docs/EVENTS.md:55-57: the frontend never gets stuck on a stale status. A
\* live pump that has nothing left to do, neither a change to look at nor a
\* timer armed, has shown the latest one.
RestShowsLatest ==
    /\ pump.at = "waiting"
    /\ ~unseen /\ ~pending
    /\ outbox = [w \in Writers |-> Nothing]
    /\ mgr # "done"
    => shown.rev = inner.rev

------------------------------------------------------------------------------
\* tunnel/events.rs:23, docs/EVENTS.md:66 and 79: log events carry strictly
\* increasing indexes within a run.
LogEmittedOnce ==
    [][pump.at = "flushing" /\ pump'.at # "flushing" =>
         \A i \in DOMAIN NewEntries : NewEntries[i].index > LastIndex(view)]_vars
==============================================================================
