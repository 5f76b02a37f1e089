--------------------------- MODULE SupervisorProofs --------------------------
(***************************************************************************)
(* Theorems about Supervisor, for any set of visitors, any callers of      *)
(* stop() and any number of starts.                                        *)
(***************************************************************************)
EXTENDS Supervisor, FiniteSetTheorems, TLAPS

\* A step that is none of the forwarders': everything the guard counter
\* depends on stays, except that a visitor may get a forwarder that has not
\* been polled.
LEMMA GuardsUnchanged ==
    ASSUME TypeOK, Next,
           ~ \E v \in Visitors : ForwarderStarts(v) \/ ForwarderFails(v) \/ ForwarderPipes(v)
                                  \/ ForwarderReturns(v) \/ ForwarderCancelled(v)
    PROVE  /\ activeConns' = activeConns
           /\ Guarded' = Guarded
<1>1. ASSUME NEW r \in Runs, NEW v \in Visitors, SpawnForwarder(r, v)
      PROVE  Guarded' = Guarded /\ activeConns' = activeConns
  BY <1>1 DEF SpawnForwarder, Guarded, TypeOK
<1>2. ASSUME UNCHANGED <<fwd, activeConns>>
      PROVE  Guarded' = Guarded /\ activeConns' = activeConns
  BY <1>2 DEF Guarded
<1>3. ASSUME NEW a \in BOOLEAN, Start(a)
      PROVE  UNCHANGED <<fwd, activeConns>>
  BY <1>3 DEF Start, fwdVars
<1>4. ASSUME NEW r \in Runs, TaskStep(r)
      PROVE  UNCHANGED <<fwd, activeConns>>
  BY <1>4 DEF TaskStep, ReportConnected, BeginSession, SessionSeesStop, AckTimeout,
              TeardownDone, AfterSession, ReportDeath, GiveUp, ReportRefusal, AfterRefusal,
              BeginBackoff, BackoffExpires, BackoffSeesStop, Exit, Cancel, Local, fwdVars
<1>5. ASSUME NEW r \in Runs,
             DialSucceeds(r) \/ DialFails(r) \/ SessionBreaks(r) \/ ServerBeats(r)
      PROVE  UNCHANGED <<fwd, activeConns>>
  BY <1>5 DEF DialSucceeds, DialFails, SessionBreaks, ServerBeats, Local, fwdVars
<1>6. ASSUME NEW v \in Visitors, NEW d \in Directions, PumpSettles(v, d)
      PROVE  UNCHANGED <<fwd, activeConns>>
  BY <1>6 DEF PumpSettles
<1>7. ASSUME NEW s \in Stoppers, StopSignals(s) \/ StopStep(s)
      PROVE  UNCHANGED <<fwd, activeConns>>
  BY <1>7 DEF StopSignals, StopStep, StopTakesHandle, StopJoins, StopGivesUp, StopFinishes,
              fwdVars
<1>8. QED
  BY <1>1, <1>2, <1>3, <1>4, <1>5, <1>6, <1>7
     DEF Next, ServerStep, ForwarderStep, TrafficStep

\* One guard more, one guard less: what a forwarder's step does to the counter.
LEMMA GuardsCounted ==
    ASSUME TypeOK, ActiveConnsExact, Next
    PROVE  ActiveConnsExact' /\ activeConns' \in Nat
<1>1. IsFiniteSet(Guarded)
  BY ConstantsAssumption, FS_Subset DEF Guarded
<1>2. ASSUME NEW v \in Visitors, ForwarderStarts(v)
      PROVE  ActiveConnsExact' /\ activeConns' \in Nat
  <2>1. Guarded' = Guarded \cup {v} /\ v \notin Guarded
    BY <1>2 DEF ForwarderStarts, Forward, Guarded, TypeOK
  <2>2. Cardinality(Guarded') = Cardinality(Guarded) + 1
    BY <2>1, <1>1, FS_AddElement
  <2>3. QED
    BY <2>2, <1>2 DEF ForwarderStarts, ActiveConnsExact, TypeOK
<1>3. ASSUME NEW v \in Guarded, Guarded' = Guarded \ {v}, activeConns' = activeConns - 1
      PROVE  ActiveConnsExact' /\ activeConns' \in Nat
  <2>1. IsFiniteSet(Guarded') /\ Cardinality(Guarded') = Cardinality(Guarded) - 1
    BY <1>3, <1>1, FS_RemoveElement
  <2>2. Cardinality(Guarded') \in Nat
    BY <2>1, FS_CardinalityType
  <2>3. QED
    BY <2>1, <2>2, <1>3 DEF ActiveConnsExact
<1>4. ASSUME NEW v \in Visitors, ForwarderFails(v) \/ ForwarderReturns(v)
      PROVE  ActiveConnsExact' /\ activeConns' \in Nat
  <2>1. v \in Guarded /\ Guarded' = Guarded \ {v} /\ activeConns' = activeConns - 1
    BY <1>4 DEF ForwarderFails, ForwarderReturns, Forward, Guarded, TypeOK
  <2>2. QED
    BY <2>1, <1>3
<1>5. ASSUME NEW v \in Visitors, ForwarderPipes(v)
      PROVE  ActiveConnsExact' /\ activeConns' \in Nat
  <2>1. Guarded' = Guarded /\ activeConns' = activeConns
    BY <1>5 DEF ForwarderPipes, Forward, Guarded, TypeOK
  <2>2. QED
    BY <2>1 DEF ActiveConnsExact, TypeOK
<1>6. ASSUME NEW v \in Visitors, ForwarderCancelled(v)
      PROVE  ActiveConnsExact' /\ activeConns' \in Nat
  <2>1. CASE fwd[v] = "spawned"
    <3>1. Guarded' = Guarded /\ activeConns' = activeConns
      BY <1>6, <2>1 DEF ForwarderCancelled, Guarded, TypeOK
    <3>2. QED
      BY <3>1 DEF ActiveConnsExact, TypeOK
  <2>2. CASE fwd[v] # "spawned"
    <3>1. v \in Guarded /\ Guarded' = Guarded \ {v} /\ activeConns' = activeConns - 1
      BY <1>6, <2>2 DEF ForwarderCancelled, Guarded, TypeOK
    <3>2. QED
      BY <3>1, <1>3
  <2>3. QED
    BY <2>1, <2>2
<1>7. CASE ~ \E v \in Visitors : ForwarderStarts(v) \/ ForwarderFails(v) \/ ForwarderPipes(v)
                                  \/ ForwarderReturns(v) \/ ForwarderCancelled(v)
  BY <1>7, GuardsUnchanged DEF ActiveConnsExact, TypeOK
<1>8. QED
  BY <1>2, <1>4, <1>5, <1>6, <1>7

------------------------------------------------------------------------------
(* Type correctness. The counter stays a natural number only because every *)
(* decrement gives back a guard that is held, so the type invariant and    *)
(* ActiveConnsExact are inductive together.                                *)

CountedTypeOK == TypeOK /\ ActiveConnsExact

\* A fresh supervisor is well typed and counts no guard.
LEMMA CountedTypeInit == Init => CountedTypeOK
<1> SUFFICES ASSUME Init PROVE CountedTypeOK
  OBVIOUS
<1>1. Guarded = {}
  BY DEF Init, Guarded
<1>2. Cardinality({}) = 0
  BY FS_EmptySet
<1>3. TypeOK
  <2>1. /\ started \in 0..MaxStarts
        /\ handle \in 0..MaxStarts
        /\ owner \in [Visitors -> 0..MaxStarts]
    BY ConstantsAssumption DEF Init, NoRun
  <2>2. status \in [state : States, addr : BOOLEAN, since : BOOLEAN, err : BOOLEAN,
                    reconnects : Nat]
    BY DEF Init, FreshStatus, States
  <2>3. /\ pc \in [Runs -> Pcs]
        /\ unseen \in [Runs -> BOOLEAN]
        /\ auto \in [Runs -> BOOLEAN]
        /\ outcome \in [Runs -> {"ok", "err"}]
        /\ beating \in [Runs -> BOOLEAN]
    BY DEF Init, Pcs
  <2>4. /\ stopper \in [Stoppers ->
                 [at : {"idle", "signalled", "joining", "finishing", "returned"},
                  run : 0..MaxStarts]]
        /\ \A s \in Stoppers : stopper[s].at = "joining" => stopper[s].run \in Runs
    BY ConstantsAssumption DEF Init, NoRun
  <2>5. pump \in [Visitors -> [Directions -> {"off", "running", "eof", "failed", "aborted"}]]
    BY DEF Init
  <2>6. QED
    BY <2>1, <2>2, <2>3, <2>4, <2>5 DEF Init, TypeOK
<1>4. QED
  BY <1>1, <1>2, <1>3 DEF Init, CountedTypeOK, ActiveConnsExact

\* start() and stop() keep every variable in its range.
LEMMA CallersType ==
    ASSUME TypeOK,
           \/ \E a \in BOOLEAN : Start(a)
           \/ \E s \in Stoppers : StopSignals(s) \/ StopStep(s)
    PROVE  TypeOK'
<1> USE ConstantsAssumption DEF Runs, NoRun
<1>1. ASSUME NEW b \in BOOLEAN, SendStop(b)
      PROVE  stopFlag' \in BOOLEAN /\ unseen' \in [Runs -> BOOLEAN]
  <2>1. CASE Subscribed = {}
    BY <1>1, <2>1 DEF TypeOK, SendStop
  <2>2. CASE Subscribed # {}
    <3>1. stopFlag' = b /\ unseen' = [r \in Runs |-> unseen[r] \/ r \in Subscribed]
      BY <1>1, <2>2 DEF SendStop
    <3>2. [r \in Runs |-> unseen[r] \/ r \in Subscribed] \in [Runs -> BOOLEAN]
      BY Zenon
    <3>3. QED
      BY <3>1, <3>2
  <2>3. QED
    BY <2>1, <2>2
<1>2. ASSUME NEW a \in BOOLEAN, Start(a)
      PROVE  TypeOK'
  <2>1. stopFlag' \in BOOLEAN /\ unseen' \in [Runs -> BOOLEAN]
    BY <1>1, <1>2 DEF Start
  <2>2. started' \in 0..MaxStarts /\ handle' \in 0..MaxStarts
    BY <1>2 DEF TypeOK, Start
  <2>3. pc' \in [Runs -> Pcs] /\ auto' \in [Runs -> BOOLEAN]
    BY <1>2 DEF TypeOK, Start, Pcs, AwaitPcs
  <2>4. QED
    BY <1>2, <2>1, <2>2, <2>3 DEF TypeOK, Start, FreshStatus, States, fwdVars
<1>3. ASSUME NEW s \in Stoppers, StopSignals(s)
      PROVE  TypeOK'
  <2>1. stopFlag' \in BOOLEAN /\ unseen' \in [Runs -> BOOLEAN]
    BY <1>1, <1>3 DEF StopSignals
  <2>2. QED
    BY <1>3, <2>1 DEF TypeOK, StopSignals, At, fwdVars
<1>4. ASSUME NEW s \in Stoppers, StopTakesHandle(s)
      PROVE  TypeOK'
  BY <1>4 DEF TypeOK, StopTakesHandle, taskVars, fwdVars
<1>5. ASSUME NEW s \in Stoppers, StopJoins(s)
      PROVE  TypeOK'
  BY <1>5 DEF TypeOK, StopJoins, At, taskVars, fwdVars
<1>6. ASSUME NEW s \in Stoppers, StopGivesUp(s)
      PROVE  TypeOK'
  BY <1>6 DEF TypeOK, StopGivesUp, At, taskVars, fwdVars
<1>7. ASSUME NEW s \in Stoppers, StopFinishes(s)
      PROVE  TypeOK'
  BY <1>7, ZenonT(30) DEF TypeOK, StopFinishes, At, taskVars, fwdVars, States
<1>8. QED
  BY <1>2, <1>3, <1>4, <1>5, <1>6, <1>7 DEF StopStep

\* The forwarders and their pumps keep every variable in its range.
LEMMA ForwardersType ==
    ASSUME TypeOK, activeConns' \in Nat,
           \E v \in Visitors : ForwarderStep(v) \/ TrafficStep(v)
    PROVE  TypeOK'
<1> USE DEF TypeOK, Forward, Alone, taskVars, stopVars
<1>1. ASSUME NEW v \in Visitors,
             ForwarderStarts(v) \/ ForwarderFails(v) \/ ForwarderCancelled(v)
      PROVE  TypeOK'
  BY <1>1 DEF ForwarderStarts, ForwarderFails, ForwarderCancelled
<1>2. ASSUME NEW v \in Visitors, ForwarderPipes(v)
      PROVE  TypeOK'
  BY <1>2 DEF ForwarderPipes
<1>3. ASSUME NEW v \in Visitors, NEW d \in Directions, PumpSettles(v, d)
      PROVE  TypeOK'
  BY <1>3 DEF PumpSettles
<1>4. ASSUME NEW v \in Visitors, ForwarderReturns(v)
      PROVE  TypeOK'
  BY <1>4 DEF ForwarderReturns
<1>5. QED
  BY <1>1, <1>2, <1>3, <1>4 DEF ForwarderStep, TrafficStep

\* supervisor_task and the server keep every variable in its range.
LEMMA TaskType ==
    ASSUME TypeOK, NEW r \in Runs, TaskStep(r) \/ ServerStep(r)
    PROVE  TypeOK'
<1> USE DEF TypeOK, Goto, Subscribe, Local, Pcs, AwaitPcs, RunningPcs, EndPcs, States
<1>1. ASSUME NEW result \in {"ok", "err"}, LeaveSession(r, result)
      PROVE  pc' \in [Runs -> Pcs] /\ outcome' \in [Runs -> {"ok", "err"}]
  BY <1>1 DEF LeaveSession
<1>2. CASE ReportConnected(r)
  BY <1>2 DEF ReportConnected, ConnectedStatus, fwdVars, stopVars
<1>3. CASE BeginSession(r)
  BY <1>3 DEF BeginSession, fwdVars, stopVars
<1>4. CASE SessionSeesStop(r)
  BY <1>1, <1>4 DEF SessionSeesStop, fwdVars, stopVars
<1>5. CASE AckTimeout(r) \/ SessionBreaks(r)
  BY <1>1, <1>5 DEF AckTimeout, SessionBreaks, fwdVars, stopVars
<1>6. CASE TeardownDone(r) \/ AfterSession(r)
  BY <1>6 DEF TeardownDone, AfterSession, fwdVars, stopVars
<1>7. CASE ReportDeath(r)
  <2>1. status' \in [state : States, addr : BOOLEAN, since : BOOLEAN, err : BOOLEAN,
                     reconnects : Nat]
    <3>1. status.reconnects + 1 \in Nat
      OBVIOUS
    <3>2. ASSUME NEW n \in Nat
          PROVE  [status EXCEPT !.state = "starting", !.addr = FALSE, !.since = FALSE,
                                !.err = TRUE, !.reconnects = n]
                   \in [state : States, addr : BOOLEAN, since : BOOLEAN, err : BOOLEAN,
                       reconnects : Nat]
      OBVIOUS
    <3>3. DeathStatus(status) = [status EXCEPT !.state = "starting", !.addr = FALSE,
             !.since = FALSE, !.err = TRUE, !.reconnects = status.reconnects + 1]
      BY DEF DeathStatus
    <3>4. QED
      BY <1>7, <3>1, <3>2, <3>3 DEF ReportDeath
  <2>2. QED
    BY <1>7, <2>1 DEF ReportDeath, fwdVars, stopVars
<1>8. CASE GiveUp(r)
  BY <1>8 DEF GiveUp, fwdVars, stopVars
<1>9. CASE ReportRefusal(r)
  BY <1>9 DEF ReportRefusal, fwdVars, stopVars
<1>10. CASE AfterRefusal(r) \/ BeginBackoff(r) \/ BackoffExpires(r) \/ BackoffSeesStop(r)
  BY <1>10, ZenonT(30) DEF AfterRefusal, BeginBackoff, BackoffExpires, BackoffSeesStop, fwdVars, stopVars
<1>11. CASE Exit(r)
  BY <1>11 DEF Exit, fwdVars, stopVars
<1>12. CASE Cancel(r) \/ DialFails(r) \/ DialSucceeds(r)
  BY <1>12 DEF Cancel, DialFails, DialSucceeds, fwdVars, stopVars
<1>13. CASE ServerBeats(r)
  <2>1. beating' \in [Runs -> BOOLEAN]
    BY <1>13, Zenon DEF ServerBeats
  <2>2. QED
    BY <1>13, <2>1 DEF ServerBeats, fwdVars, stopVars
<1>14. ASSUME NEW v \in Visitors, SpawnForwarder(r, v)
      PROVE  TypeOK'
  BY <1>14 DEF SpawnForwarder, Runs, taskVars, stopVars
<1>15. QED
  BY <1>2, <1>3, <1>4, <1>5, <1>6, <1>7, <1>8, <1>9, <1>10, <1>11, <1>12, <1>13, <1>14
     DEF TaskStep, ServerStep

\* Every step keeps the types and the count.
LEMMA CountedTypeStep == CountedTypeOK /\ [Next]_vars => CountedTypeOK'
<1> SUFFICES ASSUME CountedTypeOK, [Next]_vars PROVE CountedTypeOK'
  OBVIOUS
<1> USE DEF CountedTypeOK
<1>1. CASE Next
  <2>1. ActiveConnsExact' /\ activeConns' \in Nat
    BY <1>1, GuardsCounted
  <2>2. TypeOK'
    BY <1>1, <2>1, CallersType, ForwardersType, TaskType DEF Next
  <2>3. QED
    BY <2>1, <2>2
<1>2. CASE UNCHANGED vars
  BY <1>2 DEF vars, taskVars, fwdVars, stopVars, TypeOK, ActiveConnsExact, Guarded
<1>3. QED
  BY <1>1, <1>2

\* Every variable stays in its range.
THEOREM TypeCorrect == Spec => []TypeOK
<1>1. CountedTypeOK => TypeOK
  BY DEF CountedTypeOK
<1>2. QED
  BY <1>1, CountedTypeInit, CountedTypeStep, PTL DEF Spec

\* active_connections() counts the forwarders that hold a guard, aborted ones
\* included, at every moment.
THEOREM ActiveConnsCounted == Spec => []ActiveConnsExact
<1>1. CountedTypeOK => ActiveConnsExact
  BY DEF CountedTypeOK
<1>2. QED
  BY <1>1, CountedTypeInit, CountedTypeStep, PTL DEF Spec

------------------------------------------------------------------------------
(* Teardown. A run that start() has not spawned yet must be known to be    *)
(* unborn, or its first dial could find forwarders.                        *)

FreshRuns == \A r \in Runs : r > started => pc[r] = "unborn"

TeardownInv == FreshRuns /\ TeardownBeforeRedial

\* A fresh supervisor has no run and no forwarder.
LEMMA TeardownInit == Init => TeardownInv
BY DEF Init, TeardownInv, FreshRuns, TeardownBeforeRedial, LiveForwarders

\* A task's step moves that task only; it leaves the session or the teardown
\* for its next dial with no forwarder alive.
LEMMA TaskTeardown ==
    ASSUME TypeOK, TeardownInv, NEW r \in Runs,
           TaskStep(r) \/ DialSucceeds(r) \/ DialFails(r) \/ SessionBreaks(r) \/ ServerBeats(r)
    PROVE  TeardownInv'
<1> DEFINE free(l) == l \notin {"session", "teardown", "cancelled"}
<1>1. /\ fwd' = fwd /\ owner' = owner /\ started' = started
      /\ pc[r] # "unborn"
      /\ \E l \in Pcs : pc' = [pc EXCEPT ![r] = l] /\ (free(l) => LiveForwarders(r) = {})
  <2> USE DEF TypeOK, TeardownInv, TeardownBeforeRedial, Goto, Local, fwdVars,
              Pcs, AwaitPcs, RunningPcs, EndPcs
  <2>1. CASE AckTimeout(r) \/ SessionBreaks(r) \/ SessionSeesStop(r)
    BY <2>1 DEF AckTimeout, SessionBreaks, SessionSeesStop, LeaveSession
  <2>2. CASE TeardownDone(r) \/ Cancel(r) \/ AfterSession(r) \/ ReportDeath(r) \/ GiveUp(r)
    BY <2>2 DEF TeardownDone, Cancel, AfterSession, ReportDeath, GiveUp
  <2>3. CASE ReportConnected(r) \/ BeginSession(r) \/ ReportRefusal(r) \/ AfterRefusal(r)
    BY <2>3 DEF ReportConnected, BeginSession, ReportRefusal, AfterRefusal
  <2>4. CASE BeginBackoff(r) \/ BackoffExpires(r) \/ BackoffSeesStop(r) \/ Exit(r)
    BY <2>4 DEF BeginBackoff, BackoffExpires, BackoffSeesStop, Exit
  <2>5. CASE DialSucceeds(r) \/ DialFails(r)
    BY <2>5 DEF DialSucceeds, DialFails
  <2>6. CASE ServerBeats(r)
    BY <2>6 DEF ServerBeats
  <2>7. QED
    BY <2>1, <2>2, <2>3, <2>4, <2>5, <2>6 DEF TaskStep
<1>2. \A q \in Runs : LiveForwarders(q)' = LiveForwarders(q)
  BY <1>1 DEF LiveForwarders
<1>3. QED
  BY <1>1, <1>2 DEF TypeOK, TeardownInv, FreshRuns, TeardownBeforeRedial

\* No step lets a run out of its teardown with a forwarder alive.
LEMMA TeardownStep == TypeOK /\ TeardownInv /\ [Next]_vars => TeardownInv'
<1> SUFFICES ASSUME TypeOK, TeardownInv, [Next]_vars PROVE TeardownInv'
  OBVIOUS
<1>1. ASSUME pc' = pc, started' = started,
             \A q \in Runs : LiveForwarders(q)' \subseteq LiveForwarders(q)
      PROVE  TeardownInv'
  BY <1>1 DEF TeardownInv, FreshRuns, TeardownBeforeRedial
<1>2. ASSUME pc' = pc, started' = started, fwd' = fwd, owner' = owner
      PROVE  TeardownInv'
  <2>1. \A q \in Runs : LiveForwarders(q)' \subseteq LiveForwarders(q)
    BY <1>2 DEF LiveForwarders
  <2>2. QED
    BY <1>1, <1>2, <2>1
<1>3. ASSUME NEW a \in BOOLEAN, Start(a)
      PROVE  TeardownInv'
  <2>1. \A q \in Runs : LiveForwarders(q)' = LiveForwarders(q)
    BY <1>3 DEF Start, fwdVars, LiveForwarders
  <2>2. started + 1 \in Runs /\ pc[started + 1] = "unborn"
    BY <1>3, ConstantsAssumption DEF Start, TypeOK, TeardownInv, FreshRuns, Runs
  <2>3. QED
    BY <1>3, <2>1, <2>2
       DEF Start, TypeOK, TeardownInv, FreshRuns, TeardownBeforeRedial, Runs
<1>4. ASSUME NEW r \in Runs, NEW v \in Visitors, SpawnForwarder(r, v)
      PROVE  TeardownInv'
  <2>1. \A q \in Runs \ {r} : LiveForwarders(q)' \subseteq LiveForwarders(q)
    BY <1>4 DEF SpawnForwarder, LiveForwarders, TypeOK
  <2>2. pc' = pc /\ started' = started /\ pc[r] = "session"
    BY <1>4 DEF SpawnForwarder, taskVars
  <2>3. QED
    BY <2>1, <2>2 DEF TeardownInv, FreshRuns, TeardownBeforeRedial
<1>5. ASSUME NEW v \in Visitors, ForwarderStep(v) \/ TrafficStep(v)
      PROVE  TeardownInv'
  <2>1. pc' = pc /\ started' = started /\ owner' = owner
    BY <1>5 DEF ForwarderStep, TrafficStep, ForwarderStarts, ForwarderReturns,
                ForwarderCancelled, ForwarderFails, ForwarderPipes, PumpSettles, Alone, taskVars
  <2>2. \/ fwd' = fwd
        \/ /\ fwd[v] \in {"spawned", "guarded", "piping"}
           /\ \E l \in {"guarded", "piping", "gone"} : fwd' = [fwd EXCEPT ![v] = l]
    BY <1>5 DEF ForwarderStep, TrafficStep, ForwarderStarts, ForwarderReturns, Forward,
                ForwarderCancelled, ForwarderFails, ForwarderPipes, PumpSettles
  <2>3. \A q \in Runs : LiveForwarders(q)' \subseteq LiveForwarders(q)
    BY <2>1, <2>2 DEF LiveForwarders, TypeOK
  <2>4. QED
    BY <1>1, <2>1, <2>3
<1>6. ASSUME NEW s \in Stoppers, StopSignals(s) \/ StopStep(s)
      PROVE  TeardownInv'
  BY <1>2, <1>6 DEF StopSignals, StopStep, StopTakesHandle, StopJoins, StopGivesUp,
                    StopFinishes, taskVars, fwdVars
<1>7. CASE UNCHANGED vars
  BY <1>2, <1>7 DEF vars, taskVars, fwdVars
<1>8. QED
  BY <1>3, <1>4, <1>5, <1>6, <1>7, TaskTeardown DEF Next, ServerStep

\* No run rests, dials or ends by itself with a forwarder alive, however many
\* visitors arrived and whatever order their forwarders ended in.
THEOREM TeardownComplete == Spec => []TeardownBeforeRedial
<1>1. TeardownInv => TeardownBeforeRedial
  BY DEF TeardownInv
<1>2. QED
  BY <1>1, TypeCorrect, TeardownInit, TeardownStep, PTL DEF Spec

------------------------------------------------------------------------------
(* The two properties of a supervisor that is started once, which is how   *)
(* TunnelManager uses it: it makes a fresh one for every start.            *)

\* One start spawns one run.
LEMMA OnlyRun == MaxStarts = 1 => Runs = {1}
BY DEF Runs

OrphanInv == FreshRuns /\ NoOrphanTask

\* No step loses the only run's task.
LEMMA OrphanStep ==
    ASSUME MaxStarts = 1, TypeOK, OrphanInv, [Next]_vars
    PROVE  OrphanInv'
<1> DEFINE Free(l) == l \notin {"unborn"} \cup EndPcs
<1>1. FreshRuns'
  <2>1. CASE pc' = pc /\ started' = started
    BY <2>1 DEF OrphanInv, FreshRuns
  <2>2. ASSUME NEW a \in BOOLEAN, Start(a)
        PROVE  FreshRuns'
    BY <2>2, OnlyRun DEF Start, FreshRuns, TypeOK
  <2>3. ASSUME NEW r \in Runs, TaskStep(r) \/ ServerStep(r)
        PROVE  FreshRuns'
    <3>1. started' = started /\ pc[r] # "unborn"
      BY <2>3 DEF TaskStep, ServerStep, DialSucceeds, DialFails, ReportConnected, BeginSession,
                  SessionSeesStop, SessionBreaks, SpawnForwarder, AckTimeout, ServerBeats,
                  TeardownDone, AfterSession, ReportDeath, GiveUp, ReportRefusal, AfterRefusal,
                  BeginBackoff, BackoffExpires, BackoffSeesStop, Exit, Cancel, Local, AwaitPcs
    <3>2. QED
      BY <2>3, <3>1, OnlyRun DEF OrphanInv, FreshRuns
  <2>4. ASSUME NEW v \in Visitors, ForwarderStep(v) \/ TrafficStep(v)
        PROVE  FreshRuns'
    BY <2>1, <2>4
       DEF ForwarderStep, TrafficStep, ForwarderStarts, ForwarderReturns, ForwarderCancelled,
           ForwarderFails, ForwarderPipes, PumpSettles, Alone, taskVars
  <2>5. ASSUME NEW s \in Stoppers, StopSignals(s) \/ StopStep(s)
        PROVE  FreshRuns'
    BY <2>1, <2>5 DEF StopSignals, StopStep, StopTakesHandle, StopJoins, StopGivesUp,
                      StopFinishes, taskVars
  <2>6. CASE UNCHANGED vars
    BY <2>1, <2>6 DEF vars, taskVars
  <2>7. QED
    BY <2>2, <2>3, <2>4, <2>5, <2>6 DEF Next
<1>2. NoOrphanTask'
  <2>1. ASSUME UNCHANGED <<handle, stopper>>, aborted \subseteq aborted',
               \A r \in Runs : Free(pc[r]') => Free(pc[r])
        PROVE  NoOrphanTask'
    BY <2>1 DEF OrphanInv, NoOrphanTask
  <2>2. ASSUME NEW a \in BOOLEAN, Start(a)
        PROVE  NoOrphanTask'
    <3>1. handle' = 1
      BY <2>2 DEF Start, TypeOK
    <3>2. QED
      BY <3>1, OnlyRun DEF NoOrphanTask
  <2>3. ASSUME NEW r \in Runs, TaskStep(r) \/ ServerStep(r)
        PROVE  NoOrphanTask'
    <3>1. /\ UNCHANGED stopVars
          /\ Free(pc[r]) \/ pc' = pc
          /\ \A q \in Runs \ {r} : pc'[q] = pc[q]
      BY <2>3
         DEF TaskStep, ServerStep, DialSucceeds, DialFails, ReportConnected, BeginSession,
             SessionSeesStop, SessionBreaks, SpawnForwarder, AckTimeout, ServerBeats,
             TeardownDone, AfterSession, ReportDeath, GiveUp, ReportRefusal, AfterRefusal,
             BeginBackoff, BackoffExpires, BackoffSeesStop, Exit, Cancel, Local, AwaitPcs,
             EndPcs, Goto, LeaveSession, TypeOK, taskVars
    <3>2. QED
      BY <2>1, <3>1 DEF stopVars
  <2>4. ASSUME NEW v \in Visitors, ForwarderStep(v) \/ TrafficStep(v)
        PROVE  NoOrphanTask'
    BY <2>1, <2>4
       DEF ForwarderStep, TrafficStep, ForwarderStarts, ForwarderReturns, ForwarderCancelled,
           ForwarderFails, ForwarderPipes, PumpSettles, Alone, taskVars, stopVars
  <2>5. ASSUME NEW s \in Stoppers, StopSignals(s)
        PROVE  NoOrphanTask'
    BY <2>5 DEF StopSignals, At, OrphanInv, NoOrphanTask, TypeOK
  <2>6. ASSUME NEW s \in Stoppers, StopTakesHandle(s)
        PROVE  NoOrphanTask'
    <3>1. CASE handle = NoRun
      BY <2>6, <3>1, OnlyRun
         DEF StopTakesHandle, OrphanInv, NoOrphanTask, TypeOK, taskVars, NoRun
    <3>2. CASE handle # NoRun
      <4>1. stopper'[s] = [at |-> "joining", run |-> 1]
        BY <2>6, <3>2 DEF StopTakesHandle, TypeOK, NoRun
      <4>2. QED
        BY <4>1, OnlyRun DEF NoOrphanTask
    <3>3. QED
      BY <3>1, <3>2
  <2>7. ASSUME NEW s \in Stoppers, StopJoins(s) \/ StopGivesUp(s)
        PROVE  NoOrphanTask'
    <3>1. stopper[s].run = 1
      BY <2>7, OnlyRun DEF StopJoins, StopGivesUp, TypeOK
    <3>2. QED
      BY <2>7, <3>1, OnlyRun DEF StopJoins, StopGivesUp, NoOrphanTask, taskVars, TypeOK
  <2>8. ASSUME NEW s \in Stoppers, StopFinishes(s)
        PROVE  NoOrphanTask'
    BY <2>8 DEF StopFinishes, At, OrphanInv, NoOrphanTask, TypeOK, taskVars
  <2>9. CASE UNCHANGED vars
    BY <2>1, <2>9 DEF vars, taskVars, stopVars
  <2>10. QED
    BY <2>2, <2>3, <2>4, <2>5, <2>6, <2>7, <2>8, <2>9 DEF Next, StopStep
<1>3. QED
  BY <1>1, <1>2 DEF OrphanInv

\* stop() never loses the task: whatever two concurrent stops and the task do,
\* a task that lives is held by the supervisor, joined by a stop or aborted.
THEOREM NoTaskOrphaned ==
    ASSUME MaxStarts = 1
    PROVE  Spec => []NoOrphanTask
<1>1. Init => OrphanInv
  BY DEF Init, OrphanInv, FreshRuns, NoOrphanTask
<1>2. TypeOK /\ OrphanInv /\ [Next]_vars => OrphanInv'
  BY OrphanStep
<1>3. OrphanInv => NoOrphanTask
  BY DEF OrphanInv
<1>4. QED
  BY <1>1, <1>2, <1>3, TypeCorrect, PTL DEF Spec

------------------------------------------------------------------------------
(* A stored stop and the last status, for the only run.                    *)

\* The forwarders' steps leave the task and the status alone.
LEMMA ForwardersApart ==
    \A v \in Visitors : ForwarderStep(v) \/ TrafficStep(v) =>
        UNCHANGED <<started, status, stopFlag, taskVars, stopVars>>
BY DEF ForwarderStep, TrafficStep, ForwarderStarts, ForwarderReturns, ForwarderCancelled,
       ForwarderFails, ForwarderPipes, PumpSettles, Alone

\* A step of the only run on its way to a rest has read a flag that is down;
\* a stop that finds it there is not stored.
LEMMA RestStep ==
    ASSUME MaxStarts = 1, TypeOK, NoRestOnceStopStored, [Next]_vars
    PROVE  NoRestOnceStopStored'
<1> DEFINE Resting == {"dead", "givingUp", "resting"}
<1>1. CASE UNCHANGED <<pc, stopFlag>>
  BY <1>1 DEF NoRestOnceStopStored
<1>2. ASSUME NEW a \in BOOLEAN, Start(a) PROVE NoRestOnceStopStored'
  <2>1. pc'[1] = "connecting"
    BY <1>2, OnlyRun DEF Start, TypeOK
  <2>2. QED
    BY <2>1, OnlyRun DEF NoRestOnceStopStored
<1>3. ASSUME NEW r \in Runs, TaskStep(r) \/ ServerStep(r) PROVE NoRestOnceStopStored'
  <2>1. /\ UNCHANGED stopFlag
        /\ pc'[r] \in Resting => pc[r] \in Resting \/ ~stopFlag
    BY <1>3 DEF TaskStep, ServerStep, DialSucceeds, DialFails, ReportConnected, BeginSession,
                SessionSeesStop, SessionBreaks, SpawnForwarder, AckTimeout, ServerBeats,
                TeardownDone, AfterSession, EndsAfterSession, ReportDeath, GiveUp,
                ReportRefusal, AfterRefusal, EndsAfterRefusal, BeginBackoff, BackoffExpires,
                BackoffSeesStop, Exit, Cancel, Local, Goto, LeaveSession, TypeOK, taskVars
  <2>2. QED
    BY <2>1, OnlyRun DEF NoRestOnceStopStored
<1>4. ASSUME NEW s \in Stoppers, StopSignals(s) PROVE NoRestOnceStopStored'
  <2>1. CASE pc[1] \in SubscribedPcs
    BY <1>4, <2>1, OnlyRun DEF StopSignals, NoRestOnceStopStored, SubscribedPcs
  <2>2. CASE pc[1] \notin SubscribedPcs
    <3>1. Subscribed = {}
      BY <2>2, OnlyRun DEF Subscribed
    <3>2. QED
      BY <1>1, <1>4, <3>1 DEF StopSignals, SendStop
  <2>3. QED
    BY <2>1, <2>2
<1>5. ASSUME NEW s \in Stoppers, StopStep(s) PROVE NoRestOnceStopStored'
  BY <1>1, <1>5 DEF StopStep, StopTakesHandle, StopJoins, StopGivesUp, StopFinishes, taskVars
<1>6. QED
  BY <1>1, <1>2, <1>3, <1>4, <1>5, ForwardersApart DEF Next, vars, taskVars

\* A tunnel that is told to stop while it can hear it does not report a death,
\* give up or rest for another dial.
THEOREM StopIsNotSleptThrough ==
    ASSUME MaxStarts = 1
    PROVE  Spec => []NoRestOnceStopStored
<1>1. Init => NoRestOnceStopStored
  BY DEF Init, NoRestOnceStopStored
<1>2. TypeOK /\ NoRestOnceStopStored /\ [Next]_vars => NoRestOnceStopStored'
  BY RestStep
<1>3. QED
  BY <1>1, <1>2, TypeCorrect, PTL DEF Spec

\* Whoever has taken the handle leaves none for the others, and nobody stops a
\* supervisor that was not started.
HandleTaken ==
    /\ \A s \in Stoppers : stopper[s].at # "idle" => started = 1
    /\ \A s \in Stoppers : stopper[s].at \notin {"idle", "signalled"} => handle = NoRun

StopInv == OrphanInv /\ HandleTaken /\ StoppedUnlessAborted

\* A task that lives is held or joined, so it writes no status after the stops.
LEMMA StopStepKeeps ==
    ASSUME MaxStarts = 1, TypeOK, StopInv, [Next]_vars
    PROVE  HandleTaken' /\ StoppedUnlessAborted'
<1> USE DEF StopInv
<1>1. CASE UNCHANGED <<started, status, stopVars>>
  BY <1>1 DEF HandleTaken, StoppedUnlessAborted, stopVars
<1>2. ASSUME NEW a \in BOOLEAN, Start(a)
      PROVE  HandleTaken' /\ StoppedUnlessAborted'
  <2>1. \A s \in Stoppers : stopper'[s].at = "idle"
    BY <1>2 DEF Start, HandleTaken, TypeOK
  <2>2. QED
    BY <2>1 DEF HandleTaken, StoppedUnlessAborted
<1>3. ASSUME NEW r \in Runs, TaskStep(r) \/ ServerStep(r)
      PROVE  HandleTaken' /\ StoppedUnlessAborted'
  <2>1. UNCHANGED <<started, stopVars>> /\ pc[r] \notin {"unborn"} \cup EndPcs
    BY <1>3 DEF TaskStep, ServerStep, DialSucceeds, DialFails, ReportConnected, BeginSession,
                SessionSeesStop, SessionBreaks, SpawnForwarder, AckTimeout, ServerBeats,
                TeardownDone, AfterSession, ReportDeath, GiveUp, ReportRefusal, AfterRefusal,
                BeginBackoff, BackoffExpires, BackoffSeesStop, Exit, Cancel, Local, AwaitPcs,
                EndPcs
  <2>2. HandleTaken'
    BY <2>1 DEF HandleTaken, stopVars
  <2>3. ASSUME aborted = {}
        PROVE  handle = r \/ \E s \in Stoppers : stopper[s].at = "joining"
    <3>1. r \notin aborted
      BY <2>3
    <3>2. handle = r \/ \E s \in Stoppers : stopper[s] = [at |-> "joining", run |-> r]
      BY <2>1, <3>1, Zenon DEF OrphanInv, NoOrphanTask
    <3>3. QED
      BY <3>2
  <2>4. r # NoRun
    BY DEF Runs, NoRun
  <2>5. StoppedUnlessAborted'
    BY <2>1, <2>3, <2>4 DEF HandleTaken, StoppedUnlessAborted, stopVars
  <2>6. QED
    BY <2>2, <2>5
<1>4. ASSUME NEW s \in Stoppers, StopSignals(s)
      PROVE  HandleTaken' /\ StoppedUnlessAborted'
  <2>1. /\ stopper'[s].at = "signalled"
        /\ \A t \in Stoppers : t # s => stopper'[t] = stopper[t]
        /\ UNCHANGED <<started, handle>> /\ started = 1
    BY <1>4 DEF StopSignals, At, TypeOK
  <2>2. QED
    BY <2>1 DEF HandleTaken, StoppedUnlessAborted
<1>5. ASSUME NEW s \in Stoppers, StopTakesHandle(s) \/ StopJoins(s) \/ StopGivesUp(s)
      PROVE  HandleTaken' /\ StoppedUnlessAborted'
  <2>1. /\ stopper'[s].at \in {"joining", "finishing"} /\ stopper[s].at # "idle"
        /\ \A t \in Stoppers : t # s => stopper'[t] = stopper[t]
        /\ UNCHANGED started /\ handle' = NoRun
    BY <1>5 DEF StopTakesHandle, StopJoins, StopGivesUp, At, TypeOK, HandleTaken
  <2>2. QED
    BY <2>1 DEF HandleTaken, StoppedUnlessAborted
<1>6. ASSUME NEW s \in Stoppers, StopFinishes(s)
      PROVE  HandleTaken' /\ StoppedUnlessAborted'
  <2>1. /\ stopper[s].at = "finishing" /\ stopper'[s].at = "returned"
        /\ \A t \in Stoppers : t # s => stopper'[t] = stopper[t]
        /\ UNCHANGED <<started, handle>>
    BY <1>6 DEF StopFinishes, At, TypeOK
  <2>2. status'.state = "stopped"
    BY <1>6 DEF StopFinishes, TypeOK
  <2>3. QED
    BY <2>1, <2>2 DEF HandleTaken, StoppedUnlessAborted
<1>7. QED
  BY <1>1, <1>2, <1>3, <1>4, <1>5, <1>6, ForwardersApart DEF Next, StopStep, vars

\* Two stops and the task, in any order: when the stops have returned and none
\* had to abort the task, "stopped" is the last word.
THEOREM StopsEndStopped ==
    ASSUME MaxStarts = 1
    PROVE  Spec => []StoppedUnlessAborted
<1>1. Init => StopInv
  BY DEF Init, StopInv, OrphanInv, FreshRuns, NoOrphanTask, HandleTaken, StoppedUnlessAborted
<1>2. TypeOK /\ StopInv /\ [Next]_vars => StopInv'
  BY OrphanStep, StopStepKeeps DEF StopInv
<1>3. StopInv => StoppedUnlessAborted
  BY DEF StopInv
<1>4. QED
  BY <1>1, <1>2, <1>3, TypeCorrect, PTL DEF Spec

------------------------------------------------------------------------------
(* Connected means a session. A session that ends well was told to stop,   *)
(* and only a start() of a supervisor that is not running takes the stop   *)
(* back; so the run that leaves "connected" behind writes "stopped" over   *)
(* it, or reports its death.                                               *)

Backed(r) ==
    \/ r \in aborted
    \/ pc[r] \in {"subscribing", "session", "dead"}
    \/ pc[r] \in {"teardown", "returned"} /\ (outcome[r] = "ok" => stopFlag)
    \/ pc[r] = "exiting" /\ stopFlag

ConnectedInv == status.state = "connected" => \E r \in Runs : Backed(r)

\* A step of a task takes the back from no run, unless the state says so.
LEMMA TaskBacks ==
    ASSUME TypeOK, ConnectedInv, NEW r \in Runs, TaskStep(r) \/ ServerStep(r)
    PROVE  ConnectedInv'
<1>1. /\ UNCHANGED <<aborted, stopFlag>>
      /\ \A q \in Runs : q # r => pc'[q] = pc[q] /\ outcome'[q] = outcome[q]
  BY DEF TaskStep, ServerStep, DialSucceeds, DialFails, ReportConnected, BeginSession,
         SessionSeesStop, SessionBreaks, SpawnForwarder, AckTimeout, ServerBeats,
         TeardownDone, AfterSession, ReportDeath, GiveUp, ReportRefusal, AfterRefusal,
         BeginBackoff, BackoffExpires, BackoffSeesStop, Exit, Cancel, Local, Goto,
         LeaveSession, TypeOK, taskVars, stopVars
<1>2. \A q \in Runs : q # r /\ Backed(q) => Backed(q)'
  BY <1>1 DEF Backed
<1>3. CASE status' = status /\ (Backed(r) => Backed(r)')
  BY <1>2, <1>3 DEF ConnectedInv
<1>4. CASE status'.state # "connected"
  BY <1>4 DEF ConnectedInv
<1>5. CASE Backed(r)'
  BY <1>5 DEF ConnectedInv
<1>6. CASE ReportConnected(r)
  <2>1. pc'[r] = "subscribing"
    BY <1>6 DEF ReportConnected, Goto, TypeOK
  <2>2. QED
    BY <1>5, <2>1 DEF Backed
<1>7. CASE ReportDeath(r) \/ GiveUp(r) \/ ReportRefusal(r)
  <2>1. status'.state \in {"starting", "failed"}
    BY <1>7 DEF ReportDeath, DeathStatus, GiveUp, ReportRefusal, TypeOK
  <2>2. QED
    BY <1>4, <2>1
<1>8. CASE Exit(r)
  <2>1. CASE stopFlag
    <3>1. status'.state = "stopped"
      BY <1>8, <2>1 DEF Exit, TypeOK
    <3>2. QED
      BY <1>4, <3>1
  <2>2. CASE ~stopFlag
    <3>1. status' = status /\ (Backed(r) => r \in aborted)
      BY <1>8, <2>2 DEF Exit, Backed
    <3>2. QED
      BY <1>1, <1>3, <3>1 DEF Backed
  <2>3. QED
    BY <2>1, <2>2
<1>9. CASE SessionSeesStop(r) \/ SessionBreaks(r) \/ AckTimeout(r)
  <2>1. /\ status' = status
        /\ \/ pc' = pc
           \/ pc'[r] \in {"teardown", "returned"} /\ (outcome'[r] = "ok" => stopFlag)
    BY <1>9 DEF SessionSeesStop, SessionBreaks, AckTimeout, LeaveSession, Goto, TypeOK
  <2>2. pc[r] = "session"
    BY <1>9 DEF SessionSeesStop, SessionBreaks, AckTimeout
  <2>3. QED
    BY <1>1, <1>3, <2>1, <2>2 DEF Backed
<1>10. CASE AfterSession(r) \/ TeardownDone(r)
  BY <1>1, <1>3, <1>10 DEF AfterSession, EndsAfterSession, TeardownDone, Backed, Goto, TypeOK
<1>11. CASE BeginSession(r) \/ Cancel(r) \/ ServerBeats(r)
  BY <1>1, <1>3, <1>11 DEF BeginSession, Cancel, ServerBeats, Backed, Goto, TypeOK
<1>12. CASE AfterRefusal(r) \/ BeginBackoff(r) \/ BackoffExpires(r) \/ BackoffSeesStop(r)
  BY <1>1, <1>3, <1>12 DEF AfterRefusal, BeginBackoff, BackoffExpires, BackoffSeesStop, Backed
<1>13. CASE DialSucceeds(r) \/ DialFails(r)
  BY <1>1, <1>3, <1>13 DEF DialSucceeds, DialFails, Backed
<1>14. CASE \E v \in Visitors : SpawnForwarder(r, v)
  BY <1>1, <1>3, <1>14 DEF SpawnForwarder, Backed, taskVars
<1>15. QED
  BY <1>6, <1>7, <1>8, <1>9, <1>10, <1>11, <1>12, <1>13, <1>14 DEF TaskStep, ServerStep

\* start() and stop() leave "connected" alone or replace it.
LEMMA ConnectedStep == TypeOK /\ ConnectedInv /\ [Next]_vars => ConnectedInv'
<1> SUFFICES ASSUME TypeOK, ConnectedInv, [Next]_vars PROVE ConnectedInv'
  OBVIOUS
<1>1. ASSUME UNCHANGED <<status, pc, outcome>>, stopFlag => stopFlag', aborted \subseteq aborted'
      PROVE  ConnectedInv'
  BY <1>1 DEF ConnectedInv, Backed
<1>2. ASSUME NEW a \in BOOLEAN, Start(a) PROVE ConnectedInv'
  BY <1>2 DEF Start, FreshStatus, ConnectedInv
<1>3. ASSUME NEW s \in Stoppers, StopSignals(s) PROVE ConnectedInv'
  <2>1. stopFlag => stopFlag'
    BY <1>3 DEF StopSignals, SendStop
  <2>2. QED
    BY <1>1, <1>3, <2>1 DEF StopSignals
<1>4. ASSUME NEW s \in Stoppers, StopTakesHandle(s) \/ StopJoins(s) \/ StopGivesUp(s)
      PROVE  ConnectedInv'
  BY <1>1, <1>4 DEF StopTakesHandle, StopJoins, StopGivesUp, taskVars
<1>5. ASSUME NEW s \in Stoppers, StopFinishes(s) PROVE ConnectedInv'
  <2>1. status'.state = "stopped"
    BY <1>5 DEF StopFinishes, TypeOK
  <2>2. QED
    BY <2>1 DEF ConnectedInv
<1>6. ASSUME NEW v \in Visitors, ForwarderStep(v) \/ TrafficStep(v) PROVE ConnectedInv'
  BY <1>1, <1>6, ForwardersApart DEF taskVars, stopVars
<1>7. CASE UNCHANGED vars
  BY <1>1, <1>7 DEF vars, taskVars, stopVars
<1>8. QED
  BY <1>2, <1>3, <1>4, <1>5, <1>6, <1>7, TaskBacks DEF Next, StopStep

\* However often the supervisor was started, a status of "connected" has a run
\* behind it that has a session, or is about to report its end, or was aborted.
THEOREM ConnectedIsTrue == Spec => []ConnectedHasSession
<1>1. Init => ConnectedInv
  BY DEF Init, FreshStatus, ConnectedInv
<1>2. ConnectedInv => ConnectedHasSession
  BY DEF ConnectedInv, Backed, ConnectedHasSession
<1>3. QED
  BY <1>1, <1>2, ConnectedStep, TypeCorrect, PTL DEF Spec

------------------------------------------------------------------------------
(* Refinement. A run must be known to be spawned before it can be aborted, *)
(* or Kill could meet a run that is idle.                                  *)

SpawnedInv ==
    /\ FreshRuns
    /\ \A r \in Runs : pc[r] = "unborn" => r > started
    /\ handle <= started
    /\ \A s \in Stoppers : stopper[s].at = "joining" => stopper[s].run <= started
    /\ \A r \in aborted : r <= started

\* Handles, joins and aborts are of runs that start() has spawned.
LEMMA SpawnedStep == TypeOK /\ SpawnedInv /\ [Next]_vars => SpawnedInv'
<1> SUFFICES ASSUME TypeOK, SpawnedInv, [Next]_vars PROVE SpawnedInv'
  OBVIOUS
<1> USE ConstantsAssumption DEF Runs
<1>1. CASE UNCHANGED <<started, pc, stopVars>>
  BY <1>1 DEF SpawnedInv, FreshRuns, stopVars
<1>2. ASSUME NEW a \in BOOLEAN, Start(a) PROVE SpawnedInv'
  <2>1. /\ started' = started + 1 /\ handle' = started + 1 /\ started + 1 \in Runs
        /\ pc' = [pc EXCEPT ![started + 1] = "connecting"]
        /\ UNCHANGED <<aborted, stopper>>
    BY <1>2 DEF Start, TypeOK
  <2>2. FreshRuns' /\ \A r \in Runs : pc'[r] = "unborn" => r > started'
    BY <2>1 DEF SpawnedInv, FreshRuns, TypeOK
  <2>3. QED
    BY <2>1, <2>2 DEF SpawnedInv, TypeOK
<1>3. ASSUME NEW r \in Runs, TaskStep(r) \/ ServerStep(r) PROVE SpawnedInv'
  <2>1. /\ UNCHANGED <<started, stopVars>> /\ pc[r] # "unborn" /\ pc'[r] # "unborn"
        /\ \A q \in Runs : q # r => pc'[q] = pc[q]
    BY <1>3 DEF TaskStep, ServerStep, DialSucceeds, DialFails, ReportConnected, BeginSession,
                SessionSeesStop, SessionBreaks, SpawnForwarder, AckTimeout, ServerBeats,
                TeardownDone, AfterSession, ReportDeath, GiveUp, ReportRefusal, AfterRefusal,
                BeginBackoff, BackoffExpires, BackoffSeesStop, Exit, Cancel, Local, Goto,
                LeaveSession, AwaitPcs, TypeOK, taskVars
  <2>2. QED
    BY <2>1 DEF SpawnedInv, FreshRuns, stopVars
<1>4. ASSUME NEW s \in Stoppers, StopSignals(s) \/ StopJoins(s) \/ StopFinishes(s)
      PROVE  SpawnedInv'
  <2>1. UNCHANGED <<started, pc, handle, aborted>>
    BY <1>4 DEF StopSignals, StopJoins, StopFinishes, taskVars
  <2>2. \E l \in {"signalled", "finishing", "returned"} : At(s, l)
    BY <1>4 DEF StopSignals, StopJoins, StopFinishes
  <2>3. /\ stopper'[s].at # "joining"
        /\ \A t \in Stoppers : t # s => stopper'[t] = stopper[t]
    BY <2>2 DEF At, TypeOK
  <2>4. QED
    BY <2>1, <2>3 DEF SpawnedInv, FreshRuns
<1>5. ASSUME NEW s \in Stoppers, StopTakesHandle(s) PROVE SpawnedInv'
  <2>1. /\ UNCHANGED <<started, pc, aborted>> /\ handle' = 0
        /\ stopper'[s].run = handle
        /\ \A t \in Stoppers : t # s => stopper'[t] = stopper[t]
    BY <1>5 DEF StopTakesHandle, NoRun, TypeOK, taskVars
  <2>2. handle \in Nat /\ started \in Nat /\ handle <= started
    BY DEF SpawnedInv, TypeOK
  <2>3. \A t \in Stoppers : stopper'[t].at = "joining" => stopper'[t].run <= started
    BY <2>1, <2>2 DEF SpawnedInv
  <2>4. 0 <= started
    BY <2>2
  <2>5. QED
    BY <2>1, <2>3, <2>4 DEF SpawnedInv, FreshRuns
<1>6. ASSUME NEW s \in Stoppers, StopGivesUp(s) PROVE SpawnedInv'
  <2>1. /\ UNCHANGED <<started, pc, handle>>
        /\ aborted' = aborted \cup {stopper[s].run} /\ stopper[s].run <= started
        /\ stopper'[s].at # "joining"
        /\ \A t \in Stoppers : t # s => stopper'[t] = stopper[t]
    BY <1>6 DEF StopGivesUp, At, TypeOK, taskVars, SpawnedInv
  <2>2. QED
    BY <2>1 DEF SpawnedInv, FreshRuns
<1>7. QED
  BY <1>1, <1>2, <1>3, <1>4, <1>5, <1>6, ForwardersApart
     DEF Next, StopStep, vars, taskVars

\* What the abstract run sees of the first run.
LEMMA LifeStutters ==
    UNCHANGED <<pc, aborted, fwd, owner>> => UNCHANGED Life!vars
BY DEF Life!vars, Phase, Link, LiveForwarders

\* A forwarder's step releases at most its own visitor.
LEMMA LifeForwarders ==
    ASSUME TypeOK, NEW v \in Visitors, ForwarderStep(v) \/ TrafficStep(v)
    PROVE  [Life!Next]_Life!vars
<1>1. UNCHANGED <<pc, aborted, owner>>
  BY ForwardersApart DEF ForwarderStep, TrafficStep, ForwarderStarts, ForwarderReturns,
     ForwarderCancelled, ForwarderFails, ForwarderPipes, PumpSettles, Alone, taskVars, stopVars
<1>2. Phase(1)' = Phase(1) /\ Link(1)' = Link(1)
  BY <1>1 DEF Phase, Link
<1>3. \/ fwd' = fwd
      \/ /\ fwd[v] \in {"spawned", "guarded", "piping"}
         /\ \E l \in {"guarded", "piping", "gone"} : fwd' = [fwd EXCEPT ![v] = l]
  BY DEF ForwarderStep, TrafficStep, ForwarderStarts, ForwarderReturns, Forward,
         ForwarderCancelled, ForwarderFails, ForwarderPipes, PumpSettles
<1>4. \/ LiveForwarders(1)' = LiveForwarders(1)
      \/ v \in LiveForwarders(1) /\ LiveForwarders(1)' = LiveForwarders(1) \ {v}
  BY <1>1, <1>3 DEF LiveForwarders, TypeOK
<1>5. CASE LiveForwarders(1)' = LiveForwarders(1)
  BY <1>2, <1>5 DEF Life!vars
<1>6. CASE v \in LiveForwarders(1) /\ LiveForwarders(1)' = LiveForwarders(1) \ {v}
  <2>1. Life!Release(v)
    BY <1>2, <1>6 DEF Life!Release
  <2>2. QED
    BY <2>1 DEF Life!Next
<1>7. QED
  BY <1>4, <1>5, <1>6

\* Each step of the first run's task is a step of the abstract run or hidden.
LEMMA LifeTask ==
    ASSUME TypeOK, TaskStep(1) \/ ServerStep(1)
    PROVE  [Life!Next]_Life!vars
<1> 1 \in Runs
  BY ConstantsAssumption DEF Runs
<1> DEFINE Hidden == UNCHANGED Life!vars
<1>1. ASSUME UNCHANGED <<fwd, owner>>
      PROVE  LiveForwarders(1)' = LiveForwarders(1)
  BY <1>1 DEF LiveForwarders
<1>2. CASE DialSucceeds(1) \/ DialFails(1)
  <2>1. /\ pc[1] = "connecting" /\ 1 \notin aborted
        /\ pc'[1] \in {"established", "refused"}
        /\ UNCHANGED <<aborted, fwd, owner>>
    BY <1>2 DEF DialSucceeds, DialFails, CanPoll, Goto, Local, TypeOK, fwdVars, stopVars
  <2>2. Life!Dialed
    BY <1>1, <2>1 DEF Life!Dialed, Phase, Link, EndPcs
  <2>3. QED
    BY <2>2 DEF Life!Next
<1>3. CASE SessionSeesStop(1) \/ SessionBreaks(1) \/ AckTimeout(1) \/ TeardownDone(1)
  <2>1. /\ pc[1] \in {"session", "teardown"} /\ 1 \notin aborted
        /\ UNCHANGED <<aborted, fwd, owner>>
    BY <1>3 DEF SessionSeesStop, SessionBreaks, AckTimeout, TeardownDone, CanPoll,
                Local, fwdVars, stopVars
  <2>2. ASSUME NEW result, LeaveSession(1, result)
        PROVE  pc'[1] = "teardown" \/ (pc'[1] = "returned" /\ LiveForwarders(1) = {})
    BY <2>2 DEF LeaveSession, Goto, TypeOK
  <2>3. \/ pc'[1] \in {"session", "teardown"}
        \/ pc'[1] = "returned" /\ LiveForwarders(1) = {}
    <3>1. CASE SessionSeesStop(1)
      BY <2>2, <3>1 DEF SessionSeesStop
    <3>2. CASE SessionBreaks(1) \/ AckTimeout(1)
      BY <2>2, <3>2 DEF SessionBreaks, AckTimeout
    <3>3. CASE TeardownDone(1)
      BY <3>3 DEF TeardownDone, Goto, TypeOK
    <3>4. QED
      BY <1>3, <3>1, <3>2, <3>3
  <2>4. CASE pc'[1] \in {"session", "teardown"}
    BY <1>1, <2>1, <2>4 DEF Life!vars, Phase, Link, EndPcs
  <2>5. CASE pc'[1] = "returned" /\ LiveForwarders(1) = {}
    <3>1. Life!Close
      BY <1>1, <2>1, <2>5 DEF Life!Close, Phase, Link, EndPcs
    <3>2. QED
      BY <3>1 DEF Life!Next
  <2>6. QED
    BY <2>3, <2>4, <2>5
<1>4. CASE BackoffExpires(1) \/ BackoffSeesStop(1)
  <2>1. /\ pc[1] = "backoff" /\ 1 \notin aborted
        /\ pc'[1] \in {"connecting", "exiting"}
        /\ UNCHANGED <<aborted, fwd, owner>>
    BY <1>4 DEF BackoffExpires, BackoffSeesStop, CanPoll, Goto, Local, TypeOK, fwdVars, stopVars
  <2>2. CASE pc'[1] = "connecting"
    <3>1. Life!Redial
      BY <1>1, <2>1, <2>2 DEF Life!Redial, Phase, Link, EndPcs
    <3>2. QED
      BY <3>1 DEF Life!Next
  <2>3. CASE pc'[1] = "exiting"
    BY <1>1, <2>1, <2>3 DEF Life!vars, Phase, Link, EndPcs
  <2>4. QED
    BY <2>1, <2>2, <2>3
<1>5. CASE Exit(1)
  <2>1. /\ pc[1] = "exiting" /\ pc'[1] = "done"
        /\ UNCHANGED <<aborted, fwd, owner>>
    BY <1>5 DEF Exit, Goto, Local, TypeOK, fwdVars, stopVars
  <2>2. Life!Finish \/ Life!Die
    BY <1>1, <2>1 DEF Life!Finish, Life!Die, Phase, Link, EndPcs
  <2>3. QED
    BY <2>2 DEF Life!Next
<1>6. CASE Cancel(1)
  <2>1. /\ pc[1] \in AwaitPcs /\ 1 \in aborted /\ pc'[1] = "cancelled"
        /\ UNCHANGED <<aborted, fwd, owner>>
    BY <1>6 DEF Cancel, Goto, Local, TypeOK, fwdVars, stopVars
  <2>2. Life!Die
    BY <1>1, <2>1 DEF Life!Die, Phase, Link, EndPcs, AwaitPcs
  <2>3. QED
    BY <2>2 DEF Life!Next
<1>7. CASE ReportConnected(1) \/ BeginSession(1) \/ ServerBeats(1)
  <2>1. /\ pc[1] \in {"established", "subscribing", "session"}
        /\ pc'[1] \in {"subscribing", "session"}
        /\ UNCHANGED <<aborted, fwd, owner>>
    BY <1>7 DEF ReportConnected, BeginSession, ServerBeats, Goto, Local, TypeOK, fwdVars, stopVars
  <2>2. QED
    BY <1>1, <2>1 DEF Life!vars, Phase, Link, EndPcs
<1>8. CASE \/ AfterSession(1) \/ ReportDeath(1) \/ GiveUp(1) \/ ReportRefusal(1)
           \/ AfterRefusal(1) \/ BeginBackoff(1)
  <2>1. /\ pc[1] \in {"returned", "dead", "givingUp", "refused", "refusalLogged", "resting"}
        /\ pc'[1] \in {"exiting", "dead", "resting", "givingUp", "refusalLogged", "backoff"}
        /\ UNCHANGED <<aborted, fwd, owner>>
    BY <1>8 DEF AfterSession, ReportDeath, GiveUp, ReportRefusal, AfterRefusal, BeginBackoff,
                Goto, Local, TypeOK, fwdVars, stopVars
  <2>2. QED
    BY <1>1, <2>1 DEF Life!vars, Phase, Link, EndPcs
<1>9. ASSUME NEW v \in Visitors, SpawnForwarder(1, v)
      PROVE  [Life!Next]_Life!vars
  <2>1. /\ pc[1] = "session" /\ 1 \notin aborted /\ fwd[v] = "new"
        /\ UNCHANGED <<pc, aborted>>
        /\ fwd' = [fwd EXCEPT ![v] = "spawned"] /\ owner' = [owner EXCEPT ![v] = 1]
    BY <1>9 DEF SpawnForwarder, CanPoll, taskVars, stopVars
  <2>2. v \notin LiveForwarders(1) /\ LiveForwarders(1)' = LiveForwarders(1) \cup {v}
    BY <2>1 DEF LiveForwarders, TypeOK
  <2>3. Life!Accept(v)
    BY <2>1, <2>2 DEF Life!Accept, Phase, Link, EndPcs
  <2>4. QED
    BY <2>3 DEF Life!Next
<1>10. QED
  BY <1>2, <1>3, <1>4, <1>5, <1>6, <1>7, <1>8, <1>9 DEF TaskStep, ServerStep

\* The other runs do not touch the first.
LEMMA LifeOthers ==
    ASSUME TypeOK, NEW r \in Runs \ {1}, TaskStep(r) \/ ServerStep(r)
    PROVE  UNCHANGED Life!vars
<1> 1 \in Runs
  BY ConstantsAssumption DEF Runs
<1>1. /\ pc'[1] = pc[1] /\ UNCHANGED aborted
      /\ \/ UNCHANGED <<fwd, owner>>
         \/ \E v \in Visitors : SpawnForwarder(r, v)
  BY DEF TaskStep, ServerStep, DialSucceeds, DialFails, ReportConnected, BeginSession,
         SessionSeesStop, SessionBreaks, SpawnForwarder, AckTimeout, ServerBeats,
         TeardownDone, AfterSession, ReportDeath, GiveUp, ReportRefusal, AfterRefusal,
         BeginBackoff, BackoffExpires, BackoffSeesStop, Exit, Cancel, Local, Goto,
         LeaveSession, TypeOK, taskVars, stopVars, fwdVars
<1>2. ASSUME NEW v \in Visitors, SpawnForwarder(r, v)
      PROVE  LiveForwarders(1)' = LiveForwarders(1)
  BY <1>2 DEF SpawnForwarder, LiveForwarders, TypeOK
<1>3. LiveForwarders(1)' = LiveForwarders(1)
  BY <1>1, <1>2 DEF LiveForwarders
<1>4. QED
  BY <1>1, <1>3 DEF Life!vars, Phase, Link

\* Every step of the supervisor is a step of the abstract first run, or hidden.
LEMMA LifeStep == TypeOK /\ SpawnedInv /\ [Next]_vars => [Life!Next]_Life!vars
<1> SUFFICES ASSUME TypeOK, SpawnedInv, [Next]_vars PROVE [Life!Next]_Life!vars
  OBVIOUS
<1> 1 \in Runs
  BY ConstantsAssumption DEF Runs
<1>1. CASE UNCHANGED vars
  BY <1>1, LifeStutters DEF vars, taskVars, fwdVars, stopVars
<1>2. ASSUME NEW a \in BOOLEAN, Start(a) PROVE [Life!Next]_Life!vars
  <2>1. /\ pc' = [pc EXCEPT ![started + 1] = "connecting"]
        /\ UNCHANGED <<aborted, fwd, owner>>
        /\ started \in Nat
    BY <1>2 DEF Start, fwdVars, TypeOK
  <2>2. LiveForwarders(1)' = LiveForwarders(1)
    BY <2>1 DEF LiveForwarders
  <2>3. CASE started = 0
    <3>1. pc[1] = "unborn" /\ pc'[1] = "connecting" /\ 1 \notin aborted
      BY <2>1, <2>3 DEF SpawnedInv, FreshRuns, TypeOK
    <3>2. Life!Begin
      BY <2>1, <2>2, <3>1 DEF Life!Begin, Phase, Link, EndPcs
    <3>3. QED
      BY <3>2 DEF Life!Next
  <2>4. CASE started # 0
    <3>1. pc'[1] = pc[1]
      BY <2>1, <2>4 DEF TypeOK
    <3>2. QED
      BY <2>1, <2>2, <3>1 DEF Life!vars, Phase, Link
  <2>5. QED
    BY <2>3, <2>4
<1>3. ASSUME NEW r \in Runs, TaskStep(r) \/ ServerStep(r) PROVE [Life!Next]_Life!vars
  <2>1. CASE r = 1
    BY <1>3, <2>1, LifeTask
  <2>2. CASE r # 1
    BY <1>3, <2>2, LifeOthers
  <2>3. QED
    BY <2>1, <2>2
<1>4. ASSUME NEW s \in Stoppers, StopGivesUp(s) PROVE [Life!Next]_Life!vars
  <2>1. /\ aborted' = aborted \cup {stopper[s].run}
        /\ UNCHANGED <<pc, fwd, owner>>
        /\ stopper[s].at = "joining" /\ pc[stopper[s].run] \notin EndPcs
    BY <1>4 DEF StopGivesUp, taskVars, fwdVars
  <2>2. LiveForwarders(1)' = LiveForwarders(1) /\ Link(1)' = Link(1)
    BY <2>1 DEF LiveForwarders, Link
  <2>3. CASE stopper[s].run = 1 /\ 1 \notin aborted
    <3>1. pc[1] # "unborn" /\ pc[1] \notin EndPcs
      BY <2>1, <2>3 DEF SpawnedInv, TypeOK, Runs
    <3>2. Life!Kill
      BY <2>1, <2>2, <2>3, <3>1 DEF Life!Kill, Phase
    <3>3. QED
      BY <3>2 DEF Life!Next
  <2>4. CASE stopper[s].run # 1 \/ 1 \in aborted
    <3>1. Phase(1)' = Phase(1)
      BY <2>1, <2>4 DEF Phase
    <3>2. QED
      BY <2>2, <3>1 DEF Life!vars
  <2>5. QED
    BY <2>3, <2>4
<1>5. ASSUME NEW s \in Stoppers,
             StopSignals(s) \/ StopTakesHandle(s) \/ StopJoins(s) \/ StopFinishes(s)
      PROVE  [Life!Next]_Life!vars
  BY <1>5, LifeStutters
     DEF StopSignals, StopTakesHandle, StopJoins, StopFinishes, taskVars, fwdVars
<1>6. ASSUME NEW v \in Visitors, ForwarderStep(v) \/ TrafficStep(v)
      PROVE  [Life!Next]_Life!vars
  BY <1>6, LifeForwarders
<1>7. QED
  BY <1>1, <1>2, <1>3, <1>4, <1>5, <1>6 DEF Next, StopStep

\* The first run keeps the safety part of what TunnelLifecycle promises: one
\* control connection at a time, closed after its visitors, and no dial once
\* it is killed.
THEOREM LifeImplemented == Spec => Life!SafeSpec
<1>1. Init => Life!Init
  <2> SUFFICES ASSUME Init PROVE Life!Init
    OBVIOUS
  <2>1. pc[1] = "unborn"
    BY ConstantsAssumption DEF Init, Runs
  <2>2. LiveForwarders(1) = {}
    BY DEF Init, LiveForwarders
  <2>3. Phase(1) = "idle" /\ Link(1) = "none"
    BY <2>1 DEF Phase, Link, EndPcs
  <2>4. QED
    BY <2>2, <2>3 DEF Life!Init
<1>2. Init => SpawnedInv
  BY ConstantsAssumption DEF Init, SpawnedInv, FreshRuns, Runs, NoRun
<1>3. QED
  BY <1>1, <1>2, SpawnedStep, LifeStep, TypeCorrect, PTL DEF Spec, Life!SafeSpec

------------------------------------------------------------------------------
(* The moves of the state. Where the only run's task is tells which states *)
(* it can find, those a stop() has written included.                       *)

Found(l) ==
    CASE l \in {"connecting", "established", "refused"} -> {"idle", "starting", "stopped"}
      [] l \in {"subscribing", "session", "teardown", "returned", "dead"} ->
             {"connected", "stopped"}
      [] l \in {"givingUp", "resting", "backoff"} -> {"starting", "stopped"}
      [] OTHER -> States

MovesInv ==
    /\ status.state \in Found(pc[1])
    /\ pc[1] = "refusalLogged" /\ auto[1] => status.state \in {"starting", "stopped"}

Allowed ==
    status.state' # status.state =>
        status.state' \in Moves[status.state] \cup {"stopped", "idle"}

\* The table of moves, row by row.
LEMMA MovesTable ==
    /\ \A s \in {"idle", "stopped"} : Moves[s] = {"starting", "connected", "failed"}
    /\ Moves["starting"] = {"connected", "failed"}
    /\ Moves["connected"] = {"starting"}
BY DEF Moves, States

\* The only run's task finds what it may find and moves on as the table allows.
LEMMA MovesTask ==
    ASSUME MaxStarts = 1, TypeOK, MovesInv, TaskStep(1) \/ ServerStep(1)
    PROVE  MovesInv' /\ Allowed
<1> 1 \in Runs
  BY ConstantsAssumption DEF Runs
<1> USE DEF TypeOK, MovesInv, Found, Goto, Local, States
<1>1. CASE ReportConnected(1)
  BY <1>1, MovesTable DEF ReportConnected, ConnectedStatus, Allowed
<1>2. CASE ReportDeath(1)
  BY <1>2, MovesTable DEF ReportDeath, DeathStatus, Allowed
<1>3. CASE GiveUp(1)
  BY <1>3, MovesTable DEF GiveUp, Allowed
<1>4. CASE ReportRefusal(1)
  BY <1>4, MovesTable DEF ReportRefusal, Allowed
<1>5. CASE Exit(1)
  BY <1>5 DEF Exit, Allowed
<1>6. CASE AfterRefusal(1)
  BY <1>6 DEF AfterRefusal, EndsAfterRefusal, Allowed
<1>7. CASE SessionSeesStop(1) \/ SessionBreaks(1) \/ AckTimeout(1)
  BY <1>7 DEF SessionSeesStop, SessionBreaks, AckTimeout, LeaveSession, Allowed
<1>8. CASE TeardownDone(1) \/ AfterSession(1) \/ BeginSession(1)
  BY <1>8 DEF TeardownDone, AfterSession, BeginSession, Allowed
<1>9. CASE BeginBackoff(1) \/ BackoffExpires(1) \/ BackoffSeesStop(1)
  BY <1>9 DEF BeginBackoff, BackoffExpires, BackoffSeesStop, Allowed
<1>10. CASE DialSucceeds(1) \/ DialFails(1) \/ Cancel(1)
  BY <1>10 DEF DialSucceeds, DialFails, Cancel, Allowed
<1>11. CASE ServerBeats(1) \/ \E v \in Visitors : SpawnForwarder(1, v)
  BY <1>11 DEF ServerBeats, SpawnForwarder, Allowed, taskVars
<1>12. QED
  BY <1>1, <1>2, <1>3, <1>4, <1>5, <1>6, <1>7, <1>8, <1>9, <1>10, <1>11
     DEF TaskStep, ServerStep

\* Every step keeps the tie and makes an allowed move.
LEMMA MovesStep ==
    ASSUME MaxStarts = 1, TypeOK, FreshRuns, MovesInv, [Next]_vars
    PROVE  MovesInv' /\ Allowed
<1>1. CASE UNCHANGED <<status, pc, auto>>
  BY <1>1 DEF MovesInv, Allowed
<1>2. ASSUME NEW a \in BOOLEAN, Start(a) PROVE MovesInv' /\ Allowed
  <2>1. pc'[1] = "connecting" /\ status'.state = "idle"
    BY <1>2, OnlyRun DEF Start, FreshStatus, TypeOK
  <2>2. QED
    BY <2>1 DEF MovesInv, Found, Allowed
<1>3. ASSUME NEW s \in Stoppers, StopFinishes(s) PROVE MovesInv' /\ Allowed
  <2>1. status'.state = "stopped" /\ UNCHANGED <<pc, auto>>
    BY <1>3 DEF StopFinishes, TypeOK, taskVars
  <2>2. "stopped" \in Found(pc[1])
    BY DEF Found, States
  <2>3. QED
    BY <2>1, <2>2 DEF MovesInv, Allowed
<1>4. ASSUME NEW s \in Stoppers,
             StopSignals(s) \/ StopTakesHandle(s) \/ StopJoins(s) \/ StopGivesUp(s)
      PROVE  MovesInv' /\ Allowed
  BY <1>1, <1>4 DEF StopSignals, StopTakesHandle, StopJoins, StopGivesUp, taskVars
<1>5. ASSUME NEW r \in Runs, TaskStep(r) \/ ServerStep(r) PROVE MovesInv' /\ Allowed
  BY <1>5, OnlyRun, MovesTask
<1>6. QED
  BY <1>1, <1>2, <1>3, <1>4, <1>5, ForwardersApart DEF Next, StopStep, vars, taskVars

\* Apart from stop() and start(), the state of a supervisor that is started
\* once makes no move that TunnelManager does not expect; a failure is final.
THEOREM MovesKept ==
    ASSUME MaxStarts = 1
    PROVE  Spec => StatusMovesAllowed
<1>1. Init => MovesInv /\ FreshRuns
  <2> SUFFICES ASSUME Init PROVE MovesInv /\ FreshRuns
    OBVIOUS
  <2>1. pc[1] = "unborn" /\ status.state = "idle"
    BY ConstantsAssumption DEF Init, FreshStatus, Runs
  <2>2. QED
    BY <2>1 DEF Init, MovesInv, Found, States, FreshRuns
<1>2. TypeOK /\ FreshRuns /\ MovesInv /\ [Next]_vars => MovesInv' /\ Allowed
  BY MovesStep
<1>3. Allowed => [status.state' # status.state =>
                      status.state' \in Moves[status.state] \cup {"stopped", "idle"}]_vars
  BY DEF Allowed
<1>4. SpawnedInv => FreshRuns
  BY DEF SpawnedInv
<1>5. Init => SpawnedInv
  BY ConstantsAssumption DEF Init, SpawnedInv, FreshRuns, Runs, NoRun
<1>6. QED
  BY <1>1, <1>2, <1>3, <1>4, <1>5, SpawnedStep, TypeCorrect, PTL DEF Spec, StatusMovesAllowed
==============================================================================
