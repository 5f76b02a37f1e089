---------------------------- MODULE FrontendStore -----------------------------
(***************************************************************************)
(* The frontend's copy of one tunnel and how it starts (store/events.ts,   *)
(* store/reducers.ts): it subscribes to the events of the tunnel, then asks *)
(* for its status and its log lines, then hydrates, while the tunnel runs,  *)
(* is stopped and restarted. The backend side is the pump seen from here:   *)
(* of a status only its revision is kept, of a line its run and its index.  *)
(*                                                                         *)
(* Events reach the webview in the order of their emission, answers of     *)
(* commands at any time. The profile is saved and never deleted; stats and *)
(* samples are left out.                                                   *)
(***************************************************************************)
EXTENDS LogRun, FiniteSets

CONSTANTS
    RingCap,       \* MAX_LOG_LINES of the supervisor
    MaxRuns,       \* bound: starts of the tunnel
    MaxLines,      \* bound: lines over all runs
    MaxRevs        \* bound: status changes over all runs

ASSUME StoreAssumption ==
    /\ {RingCap, MaxRuns, MaxLines, MaxRevs} \subseteq Nat \ {0}
    /\ ViewCap <= RingCap

Unknown == -1
Kinds == {"status", "log"}

VARIABLES
    run,           \* starts so far; 0: the manager has no entry
    ring,          \* the ring of the current supervisor
    pushed,        \* lines over all runs
    rev,           \* revision of the status
    pump,          \* pump_task of the current supervisor
    late,          \* lines the pump of the run before may still emit
    listeners,     \* subscriptions of each kind of event
    channel,       \* events on their way to the webview
    pc,            \* where doInit is
    allStatus,     \* the answer of get_all_status, or Unknown
    backfill,      \* the answer of get_tunnel_log
    got,           \* the answers doInit has got
    shown,         \* statuses[profile]
    buffered,      \* logs[profile]
    mixed,         \* history: lines of two runs met where only indexes tell them apart
    receded        \* history: a line within the hydrated backfill came after it

backend == <<run, ring, pushed, rev, pump, late>>
frontend == <<listeners, pc, allStatus, backfill, got, shown, buffered>>
history == <<mixed, receded>>
vars == <<backend, channel, frontend, history>>

Entries == [run : 1..MaxRuns, index : 0..(MaxLines - 1)]

TypeOK ==
    /\ run \in 0..MaxRuns
    /\ ring \in Seq(Entries) /\ Len(ring) <= RingCap
    /\ pushed \in 0..MaxLines /\ rev \in 0..MaxRevs
    /\ pump.at \in {"gone", "alive"} /\ {pump.woken, pump.pending} \subseteq BOOLEAN
    /\ pump.last \in Unknown..LastIndex(ring)
    /\ late \in Seq(Entries)
    /\ listeners \in [Kinds -> 0..2]
    /\ got \subseteq Kinds
    /\ pc \in {"starting", "subscribed", "asking", "answered", "ready"}
    /\ {allStatus, shown} \subseteq Unknown..MaxRevs
    /\ {backfill, buffered} \subseteq Seq(Entries)
    /\ Len(buffered) <= ViewCap

Init ==
    /\ run = 0 /\ ring = <<>> /\ pushed = 0 /\ rev = 0
    /\ pump = [at |-> "gone", last |-> Unknown, woken |-> FALSE, pending |-> FALSE]
    /\ late = <<>>
    /\ listeners = [k \in Kinds |-> 0]
    /\ channel = <<>>
    /\ pc = "starting"
    /\ allStatus = Unknown /\ backfill = <<>> /\ got = {}
    /\ shown = Unknown /\ buffered = <<>>
    /\ mixed = FALSE /\ receded = FALSE

-----------------------------------------------------------------------------
(* The tunnel *)

\* push_log
RingWith(lines, entry) ==
    LET all == Append(lines, entry)
    IN  SubSeq(all, 1 + (IF Len(all) > RingCap THEN 1 ELSE 0), Len(all))

\* get_tunnel_log with an index, log_entries_since of the ring.
Since(index) == Beyond(ring, index)

\* emit_str reaches the listeners there are.
Emitted(kind, events) == IF listeners[kind] > 0 THEN events ELSE <<>>
LogEvents(lines) == [i \in DOMAIN lines |-> [kind |-> "log", entry |-> lines[i]]]
StatusEvent(r) == <<[kind |-> "status", rev |-> r]>>
Emits(kind, events) == channel' = channel \o Emitted(kind, events)

\* TunnelManager::start with a fresh supervisor, which resets its ring and
\* logs its first line; readers wait for the manager's lock meanwhile. The
\* old pump is aborted after the new one has begun.
Restarts ==
    /\ run < MaxRuns /\ pushed < MaxLines /\ rev < MaxRevs
    /\ run' = run + 1
    /\ ring' = <<[run |-> run + 1, index |-> 0]>>
    /\ pushed' = pushed + 1
    /\ rev' = rev + 1
    /\ late' = IF pump.at = "alive" /\ pump.woken THEN Since(pump.last) ELSE <<>>
    /\ pump' = [at |-> "alive", last |-> Unknown, woken |-> TRUE, pending |-> TRUE]
    /\ UNCHANGED <<channel, frontend, history>>

OldPumpEmits ==
    /\ late # <<>>
    /\ Emits("log", LogEvents(late))
    /\ late' = <<>>
    /\ mixed' = TRUE
    /\ UNCHANGED <<run, ring, pushed, rev, pump, frontend, receded>>

OldPumpAborted ==
    /\ late # <<>>
    /\ late' = <<>>
    /\ UNCHANGED <<run, ring, pushed, rev, pump, channel, frontend, history>>

Pushes ==
    /\ pushed < MaxLines
    /\ ring' = RingWith(ring, [run |-> run, index |-> LastIndex(ring) + 1])
    /\ pushed' = pushed + 1

\* mutate(): a line, or a new status, and the watch tells the pump.
Works ==
    /\ pump.at = "alive"
    /\ \/ Pushes /\ UNCHANGED rev
       \/ rev < MaxRevs /\ rev' = rev + 1 /\ UNCHANGED <<ring, pushed>>
    /\ pump' = [pump EXCEPT !.woken = TRUE]
    /\ UNCHANGED <<run, late, channel, frontend, history>>

\* TunnelManager::stop: the final status is emitted, whatever the pump has
\* not yet emitted is not.
Stops ==
    /\ pump.at = "alive" /\ late = <<>>
    /\ Pushes
    /\ rev < MaxRevs /\ rev' = rev + 1
    /\ pump' = [at |-> "gone", last |-> Unknown, woken |-> FALSE, pending |-> FALSE]
    /\ Emits("status", StatusEvent(rev + 1))
    /\ UNCHANGED <<run, late, frontend, history>>

\* pump_task sees a change: new lines go out, and the status is due.
PumpWakes ==
    /\ pump.at = "alive" /\ pump.woken
    /\ Emits("log", LogEvents(Since(pump.last)))
    /\ pump' = [pump EXCEPT !.woken = FALSE, !.pending = TRUE,
                            !.last = LastIndex(Since(pump.last))]
    /\ UNCHANGED <<run, ring, pushed, rev, late, frontend, history>>

\* The status goes out at once or at the end of the window, and on entry.
PumpTimer ==
    /\ pump.at = "alive" /\ pump.pending
    /\ Emits("status", StatusEvent(rev))
    /\ pump' = [pump EXCEPT !.pending = FALSE]
    /\ UNCHANGED <<run, ring, pushed, rev, late, frontend, history>>

-----------------------------------------------------------------------------
(* The webview *)

\* listen(): the calls of doInit succeed or fail one by one. After a failure
\* a later mount calls it again, and nothing unlistens. (A status that is
\* applied twice is the status applied once: its listeners count as one.)
Subscribes ==
    /\ pc = "starting"
    /\ \E ok \in SUBSET Kinds :
        /\ ok # Kinds => \A k \in Kinds : listeners[k] = 0
        /\ listeners' = [k \in Kinds |-> IF k \notin ok THEN listeners[k]
                                      ELSE IF k = "log" THEN listeners[k] + 1 ELSE 1]
        /\ pc' = IF ok = Kinds THEN "subscribed" ELSE "starting"
    /\ UNCHANGED <<backend, channel, allStatus, backfill, got, shown, buffered, history>>

\* get_all_status: a profile that never ran has the default status.
ReadsStatus ==
    /\ pc = "subscribed"
    /\ \/ allStatus' = rev /\ got' = {"status"} /\ pc' = "asking"
       \/ pc' = "answered" /\ UNCHANGED <<allStatus, got>>
    /\ UNCHANGED <<backend, channel, listeners, backfill, shown, buffered, history>>

\* get_tunnel_log fails for a profile that never ran, or just fails.
ReadsLog ==
    /\ pc = "asking"
    /\ \/ run > 0 /\ backfill' = ring /\ got' = Kinds
       \/ UNCHANGED <<backfill, got>>
    /\ pc' = "answered"
    /\ UNCHANGED <<backend, channel, listeners, allStatus, shown, buffered, history>>

\* Mutant: the backfill replaces what live events have brought.
MergeReplaces(fill, live) == IF fill = <<>> THEN live ELSE fill

\* Mutant: the live tail is appended whole.
MergeAppends(fill, live) == fill \o live

MergeLogRuns(fill, live) ==
    LET tail == Beyond(live, LastIndex(fill))
        contained == {live[i].index : i \in DOMAIN live} \subseteq
                        {fill[i].index : i \in DOMAIN fill}
    IN  IF fill = <<>> THEN live
        ELSE IF live = <<>> THEN fill
        ELSE IF LastIndex(live) > LastIndex(fill) THEN fill \o tail
        ELSE IF contained THEN fill ELSE live

\* Mutant: the snapshot wins over an event.
StatusSnapshotWins(snapshot, event) == IF snapshot # Unknown THEN snapshot ELSE event

StatusMerged(snapshot, event) == IF event # Unknown THEN event ELSE snapshot

RunsOf(lines) == {lines[i].run : i \in DOMAIN lines}

Hydrates ==
    /\ pc = "answered"
    /\ pc' = "ready"
    /\ shown' = StatusMerged(allStatus, shown)
    /\ buffered' = IF "log" \in got THEN Capped(MergeLogRuns(backfill, buffered)) ELSE buffered
    /\ mixed' = (mixed \/ Cardinality(RunsOf(backfill) \cup RunsOf(buffered)) > 1)
    /\ allStatus' = Unknown /\ backfill' = <<>>
    /\ UNCHANGED <<backend, channel, listeners, got, receded>>

\* Every listener of the event applies it. An entry of another run tells so
\* only by an index that is smaller than the last one buffered.
Delivers ==
    /\ channel # <<>>
    /\ channel' = Tail(channel)
    /\ LET event == Head(channel)
       IN  \/ /\ event.kind = "status"
              /\ shown' = event.rev
              /\ UNCHANGED <<buffered, history>>
           \/ /\ event.kind = "log"
              /\ buffered' = ApplyLogEvents(buffered,
                                 [i \in 1..listeners["log"] |-> event.entry])
              /\ mixed' = (mixed \/ /\ buffered # <<>>
                                    /\ Last(buffered).run # event.entry.run
                                    /\ event.entry.index >= LastIndex(buffered))
              /\ receded' = (receded \/ /\ buffered # <<>>
                                        /\ Last(buffered).run = event.entry.run
                                        /\ event.entry.index < LastIndex(buffered))
              /\ UNCHANGED shown
    /\ UNCHANGED <<backend, listeners, pc, allStatus, backfill, got>>

Next ==
    \/ Restarts \/ OldPumpEmits \/ OldPumpAborted
    \/ Works \/ Stops \/ PumpWakes \/ PumpTimer
    \/ Subscribes \/ ReadsStatus \/ ReadsLog \/ Hydrates \/ Delivers

Spec == Init /\ [][Next]_vars

-----------------------------------------------------------------------------
Rest == /\ pc = "ready" /\ channel = <<>> /\ late = <<>>
        /\ ~pump.woken /\ ~pump.pending

\* reducers.ts:103-105: whatever the runs, restarts and answers, the buffer the
\* store shows has strictly increasing indexes: no line twice, none out of
\* order.
BufferIncreases ==
    \A i \in DOMAIN buffered : i > 1 => buffered[i - 1].index < buffered[i].index

\* events.ts:56 "so nothing emitted in between is lost": once everything is
\* delivered, the hydrated buffer is the end of the ring, as much of it as there
\* is room for, unless an index could not tell two runs apart. A line of the
\* backfill that came after it leaves less of the end, but no gap in it.
BufferIsTail ==
    Rest /\ "log" \in got /\ pump.at = "alive" /\ ~mixed
        => /\ \E k \in DOMAIN ring : buffered = SubSeq(ring, k, Len(ring))
           /\ ~receded => buffered = Capped(ring)

\* The last status is shown once everything is delivered, although the
\* snapshot and the events race; without a snapshot, none may be shown.
StatusCurrentAtRest ==
    Rest => \/ shown = rev
            \/ shown = Unknown /\ "status" \notin got

\* The same with no excuse for late lines: a single run's hydrated buffer.
BackfillKept ==
    Rest /\ "log" \in got /\ pump.at = "alive" /\ ~mixed => buffered = Capped(ring)
=============================================================================
