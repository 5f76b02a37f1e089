-------------------------- MODULE TunnelManagerProofs -------------------------
(***************************************************************************)
(* Theorems about TunnelManager, for any profiles, any commands in         *)
(* progress and any number of supervisors.                                 *)
(***************************************************************************)
EXTENDS TunnelManager, TLAPS

------------------------------------------------------------------------------
(* Type correctness *)

\* A supervisor that was not made yet is not marked and runs nothing.
Unmade == \A g \in Sups : g > started => ~stopped[g] /\ task[g] = "none" /\ state[g] = "idle"

\* What a command names exists: entries are never removed.
CallsMade ==
    \A c \in Callers :
        /\ at[c] \in {"starting", "deleting"} \cup StopStages => target[c] \in Profiles
        /\ at[c] \in StopStages => victim[c] \in Sups /\ victim[c] <= started
        /\ \A p \in todo[c] : entry[p] # NoSup

Base == TypeOK /\ Unmade /\ CallsMade

\* At launch there are no tunnels and no calls.
LEMMA BaseInit == Init => Base
<1> SUFFICES ASSUME Init PROVE Base
  OBVIOUS
<1>1. MaxSups \in Nat /\ 0 \in 0..MaxSups
  BY ManagerAssumption
<1>2. "idle" \in States
  BY DEF States
<1>3. TypeOK
  <2>1. /\ entry \in [Profiles -> 0..MaxSups]
        /\ shown \in [Profiles -> [sup : 0..MaxSups, state : States]]
    BY <1>1, <1>2 DEF Init, NoSup
  <2>2. /\ at \in [Callers -> Stages]
        /\ target \in [Callers -> Profiles \cup {NoProfile}]
        /\ {victim, known} \subseteq [Callers -> 0..MaxSups]
        /\ hasPump \in [Callers -> BOOLEAN]
        /\ todo \in [Callers -> SUBSET Profiles]
    BY <1>1 DEF Init, NoSup, Stages
  <2>3. {stopped, pumpHeld, handle, signalled, dirty} \subseteq [Sups -> BOOLEAN]
    BY DEF Init
  <2>4. QED
    <3>1. /\ of \in [Sups -> Profiles \cup {NoProfile}]
          /\ state \in [Sups -> States]
          /\ task \in [Sups -> {"none", "live", "over"}]
          /\ pump \in [Sups -> {"none", "live", "aborted", "gone"}]
      BY <1>2 DEF Init
    <3>2. /\ \A p \in Profiles : entry[p] \in 0..started /\ entry[p] = NoSup
          /\ \A g \in 1..started : stopped[g] <=> ~pumpHeld[g]
      BY DEF Init, NoSup
    <3>3. saved \subseteq Profiles /\ started \in 0..MaxSups /\ exited \in BOOLEAN
      BY <1>1 DEF Init
    <3>4. QED
      BY <2>1, <2>2, <2>3, <3>1, <3>2, <3>3 DEF TypeOK
<1>4. Unmade /\ CallsMade
  BY DEF Init, Unmade, CallsMade, StopStages
<1>5. QED
  BY <1>3, <1>4 DEF Base

\* The mark is put on a supervisor that was made.
LEMMA MarkedIsMade ==
    ASSUME Base, NEW c \in Callers, NEW p \in Profiles, StopMarks(c, p) \/ QuitStops(c, p)
    PROVE  entry[p] \in Sups /\ entry[p] <= started
<1>1. entry[p] # NoSup
  BY DEF Base, CallsMade, StopMarks, QuitStops
<1>2. entry[p] \in 0..started /\ started \in 0..MaxSups
  BY DEF Base, TypeOK
<1>3. QED
  BY <1>1, <1>2, ManagerAssumption DEF Sups, NoSup

\* The states the task may report are states.
LEMMA MovesAreStates == \A s \in States : Moves[s] \subseteq States \ {"stopped", "idle"}
  BY DEF Moves, States

\* Steps of supervisors and pumps.
LEMMA BaseSupStep ==
    ASSUME Base, NEW g \in Sups, SupNext(g)
    PROVE  Base'
<1> USE DEF Base
<1>1. CASE TaskReports(g)
  <2>1. state' \in [Sups -> States]
    BY <1>1, MovesAreStates DEF TaskReports, TypeOK
  <2>2. dirty' \in [Sups -> BOOLEAN]
    BY <1>1 DEF TaskReports, TypeOK
  <2>3. TypeOK'
    BY <1>1, <2>1, <2>2 DEF TaskReports, TypeOK, entryVars, callVars
  <2>4. Unmade' /\ CallsMade'
    BY <1>1 DEF TaskReports, TypeOK, Unmade, CallsMade, entryVars, callVars
  <2>5. QED
    BY <2>3, <2>4
<1>2. CASE TaskEnds(g)
  <2>1. state' \in [Sups -> States] /\ task' \in [Sups -> {"none", "live", "over"}]
    BY <1>2 DEF TaskEnds, TypeOK, States
  <2>2. dirty' \in [Sups -> BOOLEAN]
    BY <1>2, Zenon DEF TaskEnds, TypeOK
  <2>3. TypeOK'
    BY <1>2, <2>1, <2>2 DEF TaskEnds, TypeOK, entryVars, callVars
  <2>4. Unmade' /\ CallsMade'
    BY <1>2 DEF TaskEnds, TypeOK, Unmade, CallsMade, entryVars, callVars
  <2>5. QED
    BY <2>3, <2>4
<1>3. CASE PumpShows(g)
  <2>1. pump' \in [Sups -> {"none", "live", "aborted", "gone"}]
    BY <1>3 DEF PumpShows, TypeOK
  <2>2. dirty' \in [Sups -> BOOLEAN]
    BY <1>3 DEF PumpShows, TypeOK
  <2>3. shown' \in [Profiles -> [sup : 0..MaxSups, state : States]]
    <3>1. [sup |-> g, state |-> state[g]] \in [sup : 0..MaxSups, state : States]
      <4>1. g \in 0..MaxSups /\ state[g] \in States
        BY ManagerAssumption DEF TypeOK, Sups
      <4>2. QED
        BY <4>1
    <3>2. QED
      BY <1>3, <3>1 DEF PumpShows, TypeOK
  <2>4. TypeOK'
    BY <1>3, <2>1, <2>2, <2>3 DEF PumpShows, TypeOK, supVars, entryVars, callVars
  <2>5. Unmade' /\ CallsMade'
    BY <1>3 DEF PumpShows, Unmade, CallsMade, supVars, entryVars, callVars
  <2>6. QED
    BY <2>4, <2>5
<1>4. CASE PumpCancelled(g)
  BY <1>4 DEF PumpCancelled, TypeOK, Unmade, CallsMade, supVars, entryVars, callVars
<1>5. QED
  BY <1>1, <1>2, <1>3, <1>4 DEF SupNext

\* Steps of start, Quit and delete that stop nothing.
LEMMA BaseCallStep ==
    ASSUME Base, NEW c \in Callers,
           \/ \E p \in Profiles : StartLooksUp(c, p) \/ DeleteChecks(c, p)
           \/ StartRefused(c) \/ QuitCollects(c) \/ QuitExits(c) \/ DeleteSaves(c)
    PROVE  Base'
<1> USE DEF Base
<1>1. ASSUME NEW p \in Profiles, StartLooksUp(c, p) \/ DeleteChecks(c, p)
      PROVE  Base'
  <2>1. at' \in [Callers -> Stages] /\ target' \in [Callers -> Profiles \cup {NoProfile}]
    <3>1. at' \in [Callers -> Stages]
      BY <1>1 DEF StartLooksUp, DeleteChecks, Goto, TypeOK, Stages
    <3>2. target' \in [Callers -> Profiles \cup {NoProfile}]
      BY <1>1 DEF StartLooksUp, DeleteChecks, Aim, TypeOK
    <3>3. QED
      BY <3>1, <3>2
  <2>2. TypeOK'
    BY <1>1, <2>1 DEF StartLooksUp, DeleteChecks, TypeOK, supVars, entryVars, pumpVars
  <2>3. Unmade' /\ CallsMade'
    BY <1>1 DEF StartLooksUp, DeleteChecks, Goto, Aim, TypeOK, Unmade, CallsMade, StopStages,
                supVars, entryVars, pumpVars
  <2>4. QED
    BY <2>2, <2>3
<1>2. CASE StartRefused(c) \/ DeleteSaves(c)
  <2>1. at' \in [Callers -> Stages] /\ saved' \subseteq Profiles
    BY <1>2 DEF StartRefused, DeleteSaves, At, Goto, TypeOK, Stages
  <2>2. TypeOK'
    BY <1>2, <2>1
       DEF StartRefused, DeleteSaves, At, TypeOK, supVars, entryVars, pumpVars, stopVars
  <2>3. Unmade' /\ CallsMade'
    BY <1>2 DEF StartRefused, DeleteSaves, At, Goto, TypeOK, Unmade, CallsMade, StopStages,
                supVars, entryVars, pumpVars, stopVars
  <2>4. QED
    BY <2>2, <2>3
<1>3. CASE QuitCollects(c)
  <2>1. /\ at' \in [Callers -> Stages]
        /\ todo' \in [Callers -> SUBSET Profiles]
        /\ known' \in [Callers -> 0..MaxSups]
    BY <1>3 DEF QuitCollects, Goto, Tunnels, TypeOK, Stages
  <2>2. TypeOK'
    BY <1>3, <2>1 DEF QuitCollects, TypeOK, supVars, entryVars, pumpVars
  <2>3. Unmade' /\ CallsMade'
    BY <1>3 DEF QuitCollects, Goto, Tunnels, TypeOK, Unmade, CallsMade, StopStages,
                supVars, entryVars, pumpVars
  <2>4. QED
    BY <2>2, <2>3
<1>4. CASE QuitExits(c)
  BY <1>4 DEF QuitExits, TypeOK, Unmade, CallsMade, supVars, entryVars, pumpVars, callVars
<1>5. QED
  BY <1>1, <1>2, <1>3, <1>4

\* A start makes the next supervisor.
LEMMA BaseStartRuns ==
    ASSUME Base, NEW c \in Callers, StartRuns(c)
    PROVE  Base'
<1> USE DEF Base
<1> DEFINE p == target[c]
           new == started + 1
<1>1. /\ p \in Profiles
      /\ new \in Sups /\ started' = new /\ new \in 0..MaxSups /\ started \in Nat
  BY ManagerAssumption DEF StartRuns, In, CallsMade, TypeOK, Sups
<1>2. /\ entry' = [entry EXCEPT ![p] = new]
      /\ of' = [of EXCEPT ![new] = p]
      /\ pumpHeld' = [pumpHeld EXCEPT ![new] = TRUE]
      /\ task' = [task EXCEPT ![new] = "live"]
      /\ handle' = [handle EXCEPT ![new] = TRUE]
      /\ dirty' = [dirty EXCEPT ![new] = TRUE]
      /\ UNCHANGED <<saved, stopped, state, signalled, shown, exited, stopVars>>
  BY DEF StartRuns, At
<1>3. /\ entry' \in [Profiles -> 0..MaxSups]
      /\ of' \in [Sups -> Profiles \cup {NoProfile}]
      /\ task' \in [Sups -> {"none", "live", "over"}]
  BY <1>1, <1>2 DEF TypeOK
<1>4. {stopped', pumpHeld', handle', signalled', dirty'} \subseteq [Sups -> BOOLEAN]
  BY <1>1, <1>2 DEF TypeOK
<1>5. pump' \in [Sups -> {"none", "live", "aborted", "gone"}]
  BY DEF StartRuns, TypeOK
<1>6. at' \in [Callers -> Stages] /\ at' = [at EXCEPT ![c] = "done"]
  BY DEF StartRuns, At, Goto, TypeOK, Stages
<1>7. \A q \in Profiles :
         entry'[q] \in 0..started' /\ (entry'[q] # NoSup => of'[entry'[q]] = q)
  <2>1. ASSUME NEW q \in Profiles, q # p
        PROVE  entry'[q] \in 0..started' /\ (entry'[q] # NoSup => of'[entry'[q]] = q)
    <3>1. entry'[q] = entry[q] /\ entry[q] \in 0..started /\ entry[q] # new
      BY <1>1, <1>2, <2>1 DEF TypeOK
    <3>2. QED
      BY <1>1, <1>2, <3>1 DEF TypeOK, Sups, NoSup
  <2>2. entry'[p] = new /\ of'[new] = p
    BY <1>1, <1>2 DEF TypeOK
  <2>3. QED
    BY <1>1, <2>1, <2>2
<1>8. \A g \in 1..started' : stopped'[g] <=> ~pumpHeld'[g]
  <2>1. ~stopped[new]
    BY <1>1 DEF Unmade
  <2>2. QED
    BY <1>1, <1>2, <2>1 DEF TypeOK, Sups
<1>9. TypeOK'
  BY <1>1, <1>2, <1>3, <1>4, <1>5, <1>6, <1>7, <1>8 DEF TypeOK, stopVars
<1>10. Unmade'
  BY <1>1, <1>2 DEF Unmade, TypeOK, Sups
<1>11. CallsMade'
  <2>1. \A q \in Profiles : entry[q] # NoSup => entry'[q] # NoSup
    BY <1>1, <1>2 DEF TypeOK, NoSup
  <2>2. \A d \in Callers : todo[d] \subseteq Profiles
    BY DEF TypeOK
  <2>3. \A h \in Sups : h <= started => h <= started'
    BY <1>1 DEF Sups
  <2>4. QED
    BY <1>2, <1>6, <2>1, <2>2, <2>3 DEF CallsMade, TypeOK, StopStages, stopVars
<1>12. QED
  BY <1>9, <1>10, <1>11

\* Marking a tunnel, for a stop or for Quit.
LEMMA BaseMarkStopped ==
    ASSUME Base, NEW c \in Callers, NEW p \in Profiles, StopMarks(c, p) \/ QuitStops(c, p)
    PROVE  Base'
<1> USE DEF Base
<1> DEFINE g == entry[p]
<1>1. g \in Sups /\ g <= started /\ g \in 0..MaxSups /\ pumpHeld[g] \in BOOLEAN
  BY MarkedIsMade, ManagerAssumption DEF Sups, TypeOK
<1>2. /\ stopped' = [stopped EXCEPT ![g] = TRUE]
      /\ pumpHeld' = [pumpHeld EXCEPT ![g] = FALSE]
      /\ at' = [at EXCEPT ![c] = "stopping"]
      /\ target' = [target EXCEPT ![c] = p]
      /\ victim' = [victim EXCEPT ![c] = g]
      /\ hasPump' = [hasPump EXCEPT ![c] = pumpHeld[g]]
      /\ todo' = [todo EXCEPT ![c] = @ \ {p}]
      /\ UNCHANGED <<saved, supVars, entry, of, started, known, pumpVars, exited>>
  BY DEF StopMarks, QuitStops, MarkStopped, Goto, Aim
<1>3. {stopped', pumpHeld', handle', signalled', dirty'} \subseteq [Sups -> BOOLEAN]
  BY <1>1, <1>2 DEF TypeOK, supVars, pumpVars
<1>4. /\ at' \in [Callers -> Stages]
      /\ target' \in [Callers -> Profiles \cup {NoProfile}]
      /\ victim' \in [Callers -> 0..MaxSups]
      /\ hasPump' \in [Callers -> BOOLEAN]
  BY <1>1, <1>2 DEF TypeOK, Stages, StopStages
<1>5. todo' \in [Callers -> SUBSET Profiles]
  BY <1>2 DEF TypeOK
<1>6. \A h \in 1..started : stopped'[h] <=> ~pumpHeld'[h]
  BY <1>1, <1>2 DEF TypeOK, Sups
<1>7. TypeOK'
  BY <1>1, <1>2, <1>3, <1>4, <1>5, <1>6 DEF TypeOK, supVars, pumpVars
<1>8. Unmade'
  BY <1>1, <1>2 DEF Unmade, TypeOK, supVars, Sups
<1>9. CallsMade'
  BY <1>1, <1>2 DEF CallsMade, TypeOK, StopStages, Stages, supVars
<1>10. QED
  BY <1>7, <1>8, <1>9

\* The rest of a stop.
LEMMA BaseStopStep ==
    ASSUME Base, NEW c \in Callers, StopNext(c)
    PROVE  Base'
<1> USE DEF Base
<1>1. victim[c] \in Sups /\ victim[c] <= started /\ target[c] \in Profiles
  BY DEF CallsMade, StopNext, SupSignals, SupJoins, SupMarks, StopAborts, StopEmits, In,
         StopStages
<1>2. CASE SupSignals(c)
  <2>1. /\ signalled' \in [Sups -> BOOLEAN] /\ handle' \in [Sups -> BOOLEAN]
        /\ at' \in [Callers -> Stages]
    BY <1>2 DEF SupSignals, At, Goto, TypeOK, Stages, StopStages
  <2>2. TypeOK'
    BY <1>2, <2>1 DEF SupSignals, At, TypeOK, entryVars, pumpVars, stopVars
  <2>3. Unmade' /\ CallsMade'
    BY <1>1, <1>2 DEF SupSignals, At, Goto, TypeOK, Unmade, CallsMade, StopStages,
                      entryVars, pumpVars, stopVars
  <2>4. QED
    BY <2>2, <2>3
<1>3. CASE SupJoins(c)
  <2>1. task' \in [Sups -> {"none", "live", "over"}] /\ at' \in [Callers -> Stages]
    BY <1>3 DEF SupJoins, At, Goto, TypeOK, Stages, StopStages
  <2>2. TypeOK'
    BY <1>3, <2>1 DEF SupJoins, At, TypeOK, entryVars, pumpVars, stopVars
  <2>3. Unmade' /\ CallsMade'
    BY <1>1, <1>3 DEF SupJoins, At, Goto, TypeOK, Unmade, CallsMade, StopStages, Sups,
                      entryVars, pumpVars, stopVars
  <2>4. QED
    BY <2>2, <2>3
<1>4. CASE SupMarks(c)
  <2>1. /\ state' \in [Sups -> States] /\ dirty' \in [Sups -> BOOLEAN]
        /\ at' \in [Callers -> Stages]
    BY <1>4 DEF SupMarks, At, Goto, TypeOK, Stages, StopStages, States
  <2>2. TypeOK'
    BY <1>4, <2>1 DEF SupMarks, At, TypeOK, entryVars, pumpVars, stopVars
  <2>3. Unmade' /\ CallsMade'
    BY <1>1, <1>4 DEF SupMarks, At, Goto, TypeOK, Unmade, CallsMade, StopStages, Sups,
                      entryVars, pumpVars, stopVars
  <2>4. QED
    BY <2>2, <2>3
<1>5. CASE StopAborts(c)
  <2>1. pump' \in [Sups -> {"none", "live", "aborted", "gone"}] /\ at' \in [Callers -> Stages]
    BY <1>5 DEF StopAborts, At, Goto, TypeOK, Stages, StopStages
  <2>2. TypeOK'
    BY <1>5, <2>1 DEF StopAborts, At, TypeOK, supVars, entryVars, stopVars
  <2>3. Unmade' /\ CallsMade'
    BY <1>1, <1>5 DEF StopAborts, At, Goto, TypeOK, Unmade, CallsMade, StopStages,
                      supVars, entryVars, stopVars
  <2>4. QED
    BY <2>2, <2>3
<1>6. CASE StopEmits(c)
  <2>1. at' \in [Callers -> Stages]
    BY <1>6 DEF StopEmits, At, Goto, TypeOK, Stages, StopStages
  <2>2. LastStatus(c) \in [sup : 0..MaxSups, state : States]
    <3>1. victim[c] \in 0..MaxSups /\ state[victim[c]] \in States
      BY <1>1, ManagerAssumption DEF TypeOK, Sups
    <3>2. QED
      BY <3>1 DEF LastStatus
  <2>3. shown' \in [Profiles -> [sup : 0..MaxSups, state : States]]
    BY <1>6, <2>2 DEF StopEmits, TypeOK
  <2>4. TypeOK'
    BY <1>6, <2>1, <2>3 DEF StopEmits, At, TypeOK, supVars, entryVars, stopVars
  <2>5. Unmade' /\ CallsMade'
    BY <1>1, <1>6 DEF StopEmits, At, Goto, TypeOK, Unmade, CallsMade, StopStages,
                      supVars, entryVars, stopVars
  <2>6. QED
    BY <2>4, <2>5
<1>7. QED
  BY <1>2, <1>3, <1>4, <1>5, <1>6 DEF StopNext

\* Types, unmade supervisors and the calls on made ones are kept.
LEMMA BaseStep == Base /\ [Next]_vars => Base'
<1> SUFFICES ASSUME Base, [Next]_vars PROVE Base'
  OBVIOUS
<1>1. CASE UNCHANGED vars
  BY <1>1 DEF Base, TypeOK, Unmade, CallsMade, vars, supVars, entryVars, pumpVars, callVars
<1>2. ASSUME NEW g \in Sups, SupNext(g) PROVE Base'
  BY <1>2, BaseSupStep
<1>3. ASSUME NEW c \in Callers, CallNext(c) PROVE Base'
  <2>1. CASE StartRuns(c)
    BY <2>1, BaseStartRuns
  <2>2. CASE StopNext(c)
    BY <2>2, BaseStopStep
  <2>3. ASSUME NEW p \in Profiles, StopMarks(c, p) \/ QuitStops(c, p) PROVE Base'
    BY <2>3, BaseMarkStopped
  <2>4. ASSUME NEW p \in Profiles, StartLooksUp(c, p) \/ DeleteChecks(c, p) PROVE Base'
    BY <2>4, BaseCallStep
  <2>5. CASE StartRefused(c) \/ QuitCollects(c) \/ QuitExits(c) \/ DeleteSaves(c)
    BY <2>5, BaseCallStep
  <2>6. QED
    BY <1>3, <2>1, <2>2, <2>3, <2>4, <2>5 DEF CallNext
<1>4. QED
  BY <1>1, <1>2, <1>3 DEF Next

\* Every variable of the manager stays in its range: in particular an entry is
\* a supervisor of its own profile, and the mark goes with the pump.
THEOREM TypeCorrect == Spec => []TypeOK
<1>1. Base => TypeOK
  BY DEF Base
<1>2. QED
  BY <1>1, BaseInit, BaseStep, PTL DEF Spec

------------------------------------------------------------------------------
(* No tunnel is leaked. A task that lives is held by its supervisor, or a   *)
(* stop waits for it; one that is marked as stopped and held is about to be *)
(* signalled. So a stop works on every live tunnel that is marked, and a    *)
(* restart replaces only tunnels that are marked or have failed.            *)

Waits(g) == \E c \in Callers : at[c] = "joining" /\ victim[c] = g
WillSignal(g) == \E c \in Callers : at[c] = "stopping" /\ victim[c] = g

\* Signals and reports of a stop come after the mark.
MarkedFirst ==
    /\ \A c \in Callers : at[c] \in StopStages => stopped[victim[c]]
    /\ \A g \in Sups : signalled[g] \/ state[g] = "stopped" => stopped[g]

TasksHeld ==
    \A g \in Sups : task[g] = "live" =>
        /\ handle[g] \/ Waits(g)
        /\ stopped[g] => ~handle[g] \/ WillSignal(g)
        /\ state[g] # "failed" => entry[of[g]] = g \/ stopped[g]

LeakInv == Base /\ MarkedFirst /\ TasksHeld

\* Without tunnels none is marked, and none is lost.
LEMMA LeakInit == Init => LeakInv
<1> SUFFICES ASSUME Init PROVE MarkedFirst /\ TasksHeld
  BY BaseInit DEF LeakInv
<1>1. QED
  BY DEF Init, MarkedFirst, TasksHeld, StopStages

\* A step that moves commands only, into and out of stages of no stop.
LEMMA LeakCallStep ==
    ASSUME LeakInv, NEW c \in Callers, NEW l \in Stages \ StopStages,
           at[c] \notin {"joining", "stopping"}, Goto(c, l),
           UNCHANGED <<supVars, entryVars, victim>>
    PROVE  MarkedFirst' /\ TasksHeld'
<1> USE DEF LeakInv, Base
<1>1. at' \in [Callers -> Stages] /\ \A d \in Callers : at'[d] = IF d = c THEN l ELSE at[d]
  BY DEF Goto, TypeOK
<1>2. MarkedFirst'
  BY <1>1 DEF MarkedFirst, supVars, entryVars
<1>3. ASSUME NEW g \in Sups
      PROVE  Waits(g)' = Waits(g) /\ WillSignal(g)' = WillSignal(g)
  BY <1>1, Zenon DEF Waits, WillSignal, StopStages
<1>4. TasksHeld'
  BY <1>3 DEF TasksHeld, supVars, entryVars
<1>5. QED
  BY <1>2, <1>4

\* What a supervisor and its pump do to tasks and states: none comes back to
\* life or leaves "failed", and "stopped" is written on a signal.
LEMMA SupMoves ==
    ASSUME TypeOK, NEW g \in Sups, SupNext(g)
    PROVE  \A h \in Sups : /\ task'[h] = "live" => task[h] = "live"
                           /\ task'[h] = "live" /\ state[h] = "failed" => state'[h] = "failed"
                           /\ state'[h] = "stopped" => state[h] = "stopped" \/ signalled[h]
<1>1. CASE TaskReports(g)
  <2>1. /\ state[g] \in States /\ Moves["failed"] = {}
        /\ Moves[state[g]] \subseteq States \ {"stopped", "idle"}
    BY MovesAreStates DEF TypeOK, Moves, States
  <2>2. PICK s \in Moves[state[g]] : state' = [state EXCEPT ![g] = s]
    BY <1>1 DEF TaskReports
  <2>3. state[g] # "failed" /\ s # "stopped"
    BY <2>1, <2>2
  <2>4. UNCHANGED task
    BY <1>1 DEF TaskReports
  <2>5. QED
    BY <2>2, <2>3, <2>4 DEF TypeOK
<1>2. CASE TaskEnds(g)
  <2>1. /\ task' = [task EXCEPT ![g] = "over"]
        /\ state' = IF signalled[g] THEN [state EXCEPT ![g] = "stopped"] ELSE state
    BY <1>2 DEF TaskEnds
  <2>2. QED
    BY <2>1 DEF TypeOK
<1>3. CASE PumpShows(g) \/ PumpCancelled(g)
  BY <1>3 DEF PumpShows, PumpCancelled, supVars
<1>4. QED
  BY <1>1, <1>2, <1>3 DEF SupNext

\* A step of a tunnel's own task or pump marks nothing and loses no handle.
LEMMA LeakSupStep ==
    ASSUME LeakInv, NEW g \in Sups, SupNext(g)
    PROVE  MarkedFirst' /\ TasksHeld'
<1> USE DEF LeakInv, Base
<1>1. UNCHANGED <<handle, signalled, entryVars, callVars>>
  BY DEF SupNext, TaskReports, TaskEnds, PumpShows, PumpCancelled, supVars
<1>2. \A h \in Sups : Waits(h)' = Waits(h) /\ WillSignal(h)' = WillSignal(h)
  BY <1>1 DEF Waits, WillSignal, callVars
<1>3. \A h \in Sups : /\ task'[h] = "live" => task[h] = "live"
                      /\ task'[h] = "live" /\ state[h] = "failed" => state'[h] = "failed"
                      /\ state'[h] = "stopped" => state[h] = "stopped" \/ signalled[h]
  BY SupMoves
<1>4. MarkedFirst'
  BY <1>1, <1>3 DEF MarkedFirst, entryVars, callVars
<1>5. TasksHeld'
  BY <1>1, <1>2, <1>3 DEF TasksHeld, entryVars
<1>6. QED
  BY <1>4, <1>5

\* A start replaces an entry that is marked or has failed, never a live one.
LEMMA LeakStartRuns ==
    ASSUME LeakInv, NEW c \in Callers, StartRuns(c)
    PROVE  MarkedFirst' /\ TasksHeld'
<1> USE DEF LeakInv, Base
<1> DEFINE p == target[c]
           new == started + 1
<1>1. /\ p \in Profiles
      /\ new \in Sups /\ started \in Nat
      /\ ~stopped[new] /\ state[new] = "idle"
  BY ManagerAssumption DEF StartRuns, In, CallsMade, TypeOK, Sups, Unmade
<1>2. /\ entry' = [entry EXCEPT ![p] = new]
      /\ of' = [of EXCEPT ![new] = p]
      /\ task' = [task EXCEPT ![new] = "live"]
      /\ handle' = [handle EXCEPT ![new] = TRUE]
      /\ at' = [at EXCEPT ![c] = "done"] /\ at[c] = "starting"
      /\ entry[p] # NoSup => AcceptsRestart(entry[p])
      /\ UNCHANGED <<stopped, state, signalled, victim>>
  BY DEF StartRuns, At, Goto, In, stopVars
<1>3. MarkedFirst'
  BY <1>1, <1>2 DEF MarkedFirst, TypeOK, StopStages
<1>4. \A g \in Sups : Waits(g)' = Waits(g) /\ WillSignal(g)' = WillSignal(g)
  BY <1>2 DEF Waits, WillSignal, TypeOK
<1>5. ASSUME NEW g \in Sups, g # new, task'[g] = "live"
      PROVE  /\ handle'[g] \/ Waits(g)'
             /\ stopped'[g] => ~handle'[g] \/ WillSignal(g)'
             /\ state'[g] # "failed" => entry'[of'[g]] = g \/ stopped'[g]
  <2>1. task[g] = "live" /\ handle'[g] = handle[g] /\ of'[g] = of[g]
    BY <1>1, <1>2, <1>5 DEF TypeOK
  <2>2. ASSUME state[g] # "failed", ~stopped[g]
        PROVE  entry'[of[g]] = g
    <3>1. entry[of[g]] = g
      BY <2>1, <2>2 DEF TasksHeld
    <3>2. state[g] # "stopped"
      BY <2>2 DEF MarkedFirst
    <3>3. ~AcceptsRestart(g) /\ g # NoSup
      BY <2>2, <3>2, ManagerAssumption DEF AcceptsRestart, Sups, NoSup
    <3>4. of[g] # p
      BY <1>2, <3>1, <3>3
    <3>5. QED
      BY <1>2, <3>1, <3>4 DEF TypeOK
  <2>3. QED
    BY <1>2, <1>4, <2>1, <2>2 DEF TasksHeld
<1>6. /\ handle'[new] /\ ~stopped'[new]
      /\ of'[new] = p /\ entry'[p] = new
  BY <1>1, <1>2 DEF TypeOK
<1>7. TasksHeld'
  BY <1>5, <1>6 DEF TasksHeld
<1>8. QED
  BY <1>3, <1>7

\* A stop marks the entry's tunnel before it does anything to it.
LEMMA LeakMarkStopped ==
    ASSUME LeakInv, NEW c \in Callers, NEW p \in Profiles, StopMarks(c, p) \/ QuitStops(c, p)
    PROVE  MarkedFirst' /\ TasksHeld'
<1> USE DEF LeakInv, Base
<1> DEFINE g == entry[p]
<1>1. g \in Sups
  BY MarkedIsMade
<1>2. /\ stopped' = [stopped EXCEPT ![g] = TRUE]
      /\ at' = [at EXCEPT ![c] = "stopping"] /\ at[c] \in {"idle", "quitting"}
      /\ victim' = [victim EXCEPT ![c] = g]
      /\ UNCHANGED <<supVars, entry, of>>
  BY DEF StopMarks, QuitStops, MarkStopped, Goto, In
<1>3. MarkedFirst'
  BY <1>1, <1>2 DEF MarkedFirst, TypeOK, CallsMade, StopStages, supVars
<1>4. WillSignal(g)'
  BY <1>1, <1>2 DEF WillSignal, TypeOK
<1>5. \A h \in Sups : (Waits(h) => Waits(h)') /\ (WillSignal(h) => WillSignal(h)')
  BY <1>2 DEF Waits, WillSignal, TypeOK
<1>6. \A h \in Sups : h # g => stopped'[h] = stopped[h]
  BY <1>1, <1>2 DEF TypeOK
<1>7. \A h \in Sups : stopped[h] => stopped'[h]
  BY <1>1, <1>2 DEF TypeOK
<1>8. TasksHeld'
  BY <1>2, <1>4, <1>5, <1>6, <1>7 DEF TasksHeld, supVars
<1>9. QED
  BY <1>3, <1>8

\* A stop gives a handle up only for a task that is over or aborted.
LEMMA LeakStopStep ==
    ASSUME LeakInv, NEW c \in Callers, StopNext(c)
    PROVE  MarkedFirst' /\ TasksHeld'
<1> USE DEF LeakInv, Base
<1> DEFINE g == victim[c]
<1>1. g \in Sups /\ stopped[g]
  BY DEF CallsMade, MarkedFirst, StopNext, SupSignals, SupJoins, SupMarks, StopAborts,
         StopEmits, In, StopStages
<1>2. CASE SupSignals(c)
  <2>1. /\ signalled' = [signalled EXCEPT ![g] = TRUE]
        /\ handle' = [handle EXCEPT ![g] = FALSE]
        /\ at' = [at EXCEPT ![c] = IF handle[g] THEN "joining" ELSE "marking"]
        /\ at[c] = "stopping"
        /\ UNCHANGED <<state, task, entryVars, victim>>
    BY <1>2 DEF SupSignals, At, Goto, In, stopVars
  <2>2. MarkedFirst'
    BY <1>1, <2>1 DEF MarkedFirst, TypeOK, StopStages, entryVars
  <2>3. \A h \in Sups : Waits(h) => Waits(h)'
    BY <2>1 DEF Waits, TypeOK
  <2>4. \A h \in Sups : h # g /\ WillSignal(h) => WillSignal(h)'
    BY <2>1 DEF WillSignal, TypeOK
  <2>5. handle[g] => Waits(g)'
    BY <2>1 DEF Waits, TypeOK
  <2>6. /\ ~handle'[g]
        /\ \A h \in Sups : h # g => handle'[h] = handle[h]
    BY <1>1, <2>1 DEF TypeOK
  <2>7. TasksHeld'
    BY <2>1, <2>3, <2>4, <2>5, <2>6 DEF TasksHeld, entryVars
  <2>8. QED
    BY <2>2, <2>7
<1>3. CASE SupJoins(c)
  <2>1. /\ task' = [task EXCEPT ![g] = "over"]
        /\ at' = [at EXCEPT ![c] = "marking"] /\ at[c] = "joining"
        /\ UNCHANGED <<state, handle, signalled, entryVars, victim>>
    BY <1>3 DEF SupJoins, At, Goto, In, stopVars
  <2>2. MarkedFirst'
    BY <1>1, <2>1 DEF MarkedFirst, TypeOK, entryVars, StopStages
  <2>3. \A h \in Sups : h # g => (Waits(h) => Waits(h)') /\ task'[h] = task[h]
    BY <2>1 DEF Waits, TypeOK
  <2>4. \A h \in Sups : WillSignal(h) => WillSignal(h)'
    BY <2>1 DEF WillSignal, TypeOK
  <2>5. task'[g] # "live"
    BY <1>1, <2>1 DEF TypeOK
  <2>6. TasksHeld'
    BY <2>1, <2>3, <2>4, <2>5 DEF TasksHeld, entryVars
  <2>7. QED
    BY <2>2, <2>6
<1>4. CASE SupMarks(c)
  <2>1. /\ state' = [state EXCEPT ![g] = "stopped"]
        /\ at' = [at EXCEPT ![c] = "aborting"] /\ at[c] = "marking"
        /\ UNCHANGED <<task, handle, signalled, entryVars, victim>>
    BY <1>4 DEF SupMarks, At, Goto, In, stopVars
  <2>2. MarkedFirst'
    BY <1>1, <2>1 DEF MarkedFirst, TypeOK, entryVars, StopStages
  <2>3. \A h \in Sups : Waits(h)' = Waits(h) /\ WillSignal(h)' = WillSignal(h)
    BY <2>1 DEF Waits, WillSignal, TypeOK
  <2>4. \A h \in Sups : h # g => state'[h] = state[h]
    BY <2>1 DEF TypeOK
  <2>5. TasksHeld'
    BY <1>1, <2>1, <2>3, <2>4 DEF TasksHeld, entryVars
  <2>6. QED
    BY <2>2, <2>5
<1>5. CASE StopAborts(c)
  <2>1. /\ at' = [at EXCEPT ![c] = "emitting"] /\ at[c] = "aborting"
        /\ UNCHANGED <<supVars, entryVars, victim>>
    BY <1>5 DEF StopAborts, At, Goto, In, stopVars
  <2>2. MarkedFirst'
    BY <2>1 DEF MarkedFirst, TypeOK, supVars, entryVars, StopStages
  <2>3. \A h \in Sups : Waits(h)' = Waits(h) /\ WillSignal(h)' = WillSignal(h)
    BY <2>1 DEF Waits, WillSignal, TypeOK
  <2>4. TasksHeld'
    BY <2>1, <2>3 DEF TasksHeld, supVars, entryVars
  <2>5. QED
    BY <2>2, <2>4
<1>6. CASE StopEmits(c)
  <2>1. PICK l \in {"quitting", "done"} : Goto(c, l)
    BY <1>6 DEF StopEmits, At
  <2>2. l \in Stages \ StopStages /\ at[c] = "emitting"
    BY <1>6 DEF StopEmits, In, Stages, StopStages
  <2>3. UNCHANGED <<supVars, entryVars, victim>>
    BY <1>6 DEF StopEmits, At, stopVars
  <2>4. QED
    BY <2>1, <2>2, <2>3, LeakCallStep
<1>7. QED
  BY <1>2, <1>3, <1>4, <1>5, <1>6 DEF StopNext

\* Every step keeps the chain from a live tunnel to its entry or its stop.
LEMMA LeakStep == LeakInv /\ [Next]_vars => LeakInv'
<1> SUFFICES ASSUME LeakInv, [Next]_vars PROVE MarkedFirst' /\ TasksHeld'
  BY BaseStep DEF LeakInv
<1>1. CASE UNCHANGED vars
  BY <1>1 DEF LeakInv, MarkedFirst, TasksHeld, Waits, WillSignal, vars, supVars, entryVars,
              callVars
<1>2. ASSUME NEW g \in Sups, SupNext(g) PROVE MarkedFirst' /\ TasksHeld'
  BY <1>2, LeakSupStep
<1>3. ASSUME NEW c \in Callers, CallNext(c) PROVE MarkedFirst' /\ TasksHeld'
  <2>1. CASE StartRuns(c)
    BY <2>1, LeakStartRuns
  <2>2. CASE StopNext(c)
    BY <2>2, LeakStopStep
  <2>3. ASSUME NEW p \in Profiles, StopMarks(c, p) \/ QuitStops(c, p)
        PROVE  MarkedFirst' /\ TasksHeld'
    BY <2>3, LeakMarkStopped
  <2>4. ASSUME \/ \E p \in Profiles : StartLooksUp(c, p) \/ DeleteChecks(c, p)
               \/ StartRefused(c) \/ QuitCollects(c) \/ DeleteSaves(c)
        PROVE  MarkedFirst' /\ TasksHeld'
    <3>1. PICK l \in {"starting", "deleting", "done", "quitting"} : Goto(c, l)
      BY <2>4 DEF StartLooksUp, DeleteChecks, StartRefused, QuitCollects, DeleteSaves, At
    <3>2. l \in Stages \ StopStages
      BY DEF Stages, StopStages
    <3>3. at[c] \notin {"joining", "stopping"}
      BY <2>4 DEF StartLooksUp, DeleteChecks, StartRefused, QuitCollects, DeleteSaves, In
    <3>4. UNCHANGED <<supVars, entryVars, victim>>
      BY <2>4 DEF StartLooksUp, DeleteChecks, StartRefused, QuitCollects, DeleteSaves, At,
                  stopVars
    <3>5. QED
      BY <3>1, <3>2, <3>3, <3>4, LeakCallStep
  <2>5. CASE QuitExits(c)
    BY <2>5 DEF QuitExits, LeakInv, MarkedFirst, TasksHeld, Waits, WillSignal, supVars,
                entryVars, callVars
  <2>6. QED
    BY <1>3, <2>1, <2>2, <2>3, <2>4, <2>5 DEF CallNext
<1>4. QED
  BY <1>1, <1>2, <1>3 DEF Next

\* A tunnel whose task lives and has not failed is named by its profile's
\* entry, or a stop is working on it: restarts and concurrent stops never
\* leave one running that no stop can reach.
THEOREM NothingLeaked == Spec => []NoLeakedTunnel
<1>1. LeakInv => NoLeakedTunnel
  <2> SUFFICES ASSUME LeakInv, NEW g \in Sups, task[g] = "live", state[g] # "failed",
                      entry[of[g]] # g
               PROVE  BeingStopped(g)
    BY DEF NoLeakedTunnel
  <2>1. stopped[g]
    BY DEF LeakInv, TasksHeld
  <2>2. Waits(g) \/ WillSignal(g)
    BY <2>1 DEF LeakInv, TasksHeld
  <2>3. QED
    BY <2>2 DEF Waits, WillSignal, BeingStopped, StopStages
<1>2. QED
  BY <1>1, LeakInit, LeakStep, PTL DEF Spec

------------------------------------------------------------------------------
(* A tunnel that is not stopped keeps its pump: a stop aborts the pump of   *)
(* the supervisor it marked, a restart the one of the entry it replaces.    *)

PumpKept ==
    \A g \in Sups : g <= started => stopped[g] \/ entry[of[g]] # g \/ pump[g] = "live"

PumpInv == LeakInv /\ PumpKept

\* A pump ends only by a stop or a restart of its profile, or behind stopped.
LEMMA PumpStep == PumpInv /\ [Next]_vars => PumpInv'
<1> SUFFICES ASSUME PumpInv, [Next]_vars PROVE PumpKept'
  BY LeakStep DEF PumpInv
<1> USE DEF PumpInv, LeakInv, Base
<1>1. CASE UNCHANGED <<pump, entryVars>>
  BY <1>1 DEF PumpKept, entryVars
<1>2. ASSUME NEW g \in Sups, SupNext(g) PROVE PumpKept'
  <2>1. UNCHANGED entryVars
    BY <1>2 DEF SupNext, TaskReports, TaskEnds, PumpShows, PumpCancelled
  <2>2. \A h \in Sups : pump[h] = "live" => pump'[h] = "live" \/ state[h] = "stopped"
    BY <1>2 DEF SupNext, TaskReports, TaskEnds, PumpShows, PumpCancelled, TypeOK
  <2>3. QED
    BY <2>1, <2>2 DEF PumpKept, MarkedFirst, entryVars
<1>3. ASSUME NEW c \in Callers, StartRuns(c) PROVE PumpKept'
  <2> DEFINE p == target[c]
             new == started + 1
  <2>1. /\ p \in Profiles /\ new \in Sups /\ started \in Nat
    BY <1>3, ManagerAssumption DEF StartRuns, In, CallsMade, TypeOK, Sups
  <2>2. /\ started' = new
        /\ entry' = [entry EXCEPT ![p] = new]
        /\ of' = [of EXCEPT ![new] = p]
        /\ pump' = [h \in Sups |->
                       IF h = new THEN "live"
                       ELSE IF h = entry[p] /\ pumpHeld[h] /\ pump[h] = "live" THEN "aborted"
                       ELSE pump[h]]
        /\ UNCHANGED stopped
    BY <1>3 DEF StartRuns
  <2>3. pump'[new] = "live"
    BY <2>1, <2>2
  <2>4. ASSUME NEW h \in Sups, h # new, h <= started', ~stopped'[h], entry'[of'[h]] = h
        PROVE  pump'[h] = "live"
    <3>1. h <= started /\ of'[h] = of[h] /\ ~stopped[h]
      BY <2>1, <2>2, <2>4 DEF TypeOK, Sups
    <3>2. of[h] # p /\ entry[of[h]] = h
      BY <2>1, <2>2, <2>4, <3>1 DEF TypeOK
    <3>3. pump[h] = "live"
      BY <3>1, <3>2 DEF PumpKept
    <3>4. h # entry[p]
      <4>1. h # NoSup
        BY ManagerAssumption DEF Sups, NoSup
      <4>2. entry[p] # NoSup => of[entry[p]] = p
        BY <2>1 DEF TypeOK
      <4>3. QED
        BY <3>2, <4>1, <4>2
    <3>5. QED
      BY <2>2, <2>4, <3>3, <3>4
  <2>5. QED
    BY <2>3, <2>4 DEF PumpKept
<1>4. ASSUME NEW c \in Callers, NEW p \in Profiles, StopMarks(c, p) \/ QuitStops(c, p)
      PROVE  PumpKept'
  <2>1. /\ stopped' = [stopped EXCEPT ![entry[p]] = TRUE]
        /\ UNCHANGED <<pump, entry, of, started>>
    BY <1>4 DEF StopMarks, QuitStops, MarkStopped, pumpVars
  <2>2. \A h \in Sups : stopped[h] => stopped'[h]
    BY <2>1 DEF TypeOK
  <2>3. QED
    BY <2>1, <2>2 DEF PumpKept
<1>5. ASSUME NEW c \in Callers, StopAborts(c) PROVE PumpKept'
  <2>1. UNCHANGED entryVars /\ stopped[victim[c]]
    BY <1>5 DEF StopAborts, In, MarkedFirst, StopStages
  <2>2. \A h \in Sups : pump[h] = "live" => pump'[h] = "live" \/ h = victim[c]
    BY <1>5 DEF StopAborts, TakenPump, TypeOK
  <2>3. QED
    BY <2>1, <2>2 DEF PumpKept, entryVars
<1>6. QED
  <2>1. ASSUME NEW c \in Callers, CallNext(c) PROVE PumpKept'
    <3>1. CASE StartRuns(c)
      BY <3>1, <1>3
    <3>2. CASE StopAborts(c)
      BY <3>2, <1>5
    <3>3. ASSUME NEW p \in Profiles, StopMarks(c, p) \/ QuitStops(c, p) PROVE PumpKept'
      BY <3>3, <1>4
    <3>4. CASE \/ \E p \in Profiles : StartLooksUp(c, p) \/ DeleteChecks(c, p)
               \/ StartRefused(c) \/ QuitCollects(c) \/ QuitExits(c) \/ DeleteSaves(c)
               \/ SupSignals(c) \/ SupJoins(c) \/ SupMarks(c) \/ StopEmits(c)
      <4>1. UNCHANGED <<pump, entryVars>>
        BY <3>4 DEF StartLooksUp, DeleteChecks, StartRefused, QuitCollects, QuitExits,
                    DeleteSaves, SupSignals, SupJoins, SupMarks, StopEmits, pumpVars
      <4>2. QED
        BY <4>1, <1>1
    <3>5. QED
      BY <2>1, <3>1, <3>2, <3>3, <3>4 DEF CallNext, StopNext
  <2>2. CASE UNCHANGED vars
    BY <2>2, <1>1 DEF vars, pumpVars
  <2>3. QED
    BY <1>2, <2>1, <2>2 DEF Next

\* An old stop and a restart of the same profile never silence the fresh
\* tunnel: its entry, unless it is stopped itself, has a live pump.
THEOREM FreshPumpKept == Spec => []FreshPumpAlive
<1>1. Init => PumpInv
  BY LeakInit DEF PumpInv, PumpKept, Init, Sups
<1>2. PumpInv => FreshPumpAlive
  <2> SUFFICES ASSUME PumpInv, NEW p \in Profiles, entry[p] # NoSup, ~stopped[entry[p]]
               PROVE  pump[entry[p]] = "live"
    BY DEF FreshPumpAlive
  <2>1. entry[p] \in Sups /\ entry[p] <= started /\ of[entry[p]] = p
    BY ManagerAssumption DEF PumpInv, LeakInv, Base, TypeOK, Sups, NoSup
  <2>2. QED
    BY <2>1 DEF PumpInv, PumpKept
<1>3. QED
  BY <1>1, <1>2, PumpStep, PTL DEF Spec

------------------------------------------------------------------------------
(* Quit. The supervisors that were made when it began are still to be       *)
(* stopped, or have ended, or were told to.                                 *)

Met(g) == task[g] = "live" /\ state[g] # "failed" => signalled[g] \/ BeingStopped(g)

\* A stop that has signalled leaves its mark for good.
SignalsKept ==
    \A c \in Callers :
        at[c] \in {"joining", "marking", "aborting", "emitting"} => signalled[victim[c]]

OwnersKnown == \A g \in Sups : g <= started => of[g] \in Profiles

QuitPending ==
    \A c \in Callers : known[c] <= started /\ \A g \in 1..known[c] : of[g] \in todo[c] \/ Met(g)

QuitInv == LeakInv /\ SignalsKept /\ OwnersKnown /\ QuitPending

\* The invariant that no tunnel is leaked, as a state formula.
LEMMA LeakNone == LeakInv => NoLeakedTunnel
<1> SUFFICES ASSUME LeakInv, NEW g \in Sups, task[g] = "live", state[g] # "failed",
                    entry[of[g]] # g
             PROVE  BeingStopped(g)
  BY DEF NoLeakedTunnel
<1>1. stopped[g]
  BY DEF LeakInv, TasksHeld
<1>2. Waits(g) \/ WillSignal(g)
  BY <1>1 DEF LeakInv, TasksHeld
<1>3. QED
  BY <1>2 DEF Waits, WillSignal, BeingStopped, StopStages

\* The supervisors on which a stop has not yet had its say.
Early(g) == \E c \in Callers : at[c] \in {"stopping", "joining", "marking"} /\ victim[c] = g

\* A command that neither enters nor leaves a stop changes no stop.
LEMMA NoStopTouched ==
    ASSUME TypeOK, NEW c \in Callers, NEW l \in Stages \ StopStages,
           at[c] \notin StopStages, Goto(c, l), UNCHANGED victim
    PROVE  \A g \in Sups : BeingStopped(g)' = BeingStopped(g) /\ Early(g)' = Early(g)
<1>1. \A d \in Callers : at'[d] = IF d = c THEN l ELSE at[d]
  BY DEF Goto, TypeOK
<1>2. \A g \in Sups : BeingStopped(g)' = BeingStopped(g)
  BY <1>1 DEF BeingStopped
<1>3. \A g \in Sups : Early(g)' = Early(g)
  BY <1>1 DEF Early, StopStages
<1>4. QED
  BY <1>2, <1>3

\* The commands that are no stop: each moves its caller from one stage to
\* another, both outside a stop.
Quiet(c) ==
    \/ \E p \in Profiles : StartLooksUp(c, p) \/ DeleteChecks(c, p)
    \/ StartRefused(c) \/ StartRuns(c) \/ QuitCollects(c) \/ DeleteSaves(c)

\* So no stop, no report and nothing shown changes.
LEMMA QuietTouchesNoStop ==
    ASSUME TypeOK, NEW c \in Callers, Quiet(c)
    PROVE  /\ \A g \in Sups : BeingStopped(g)' = BeingStopped(g) /\ Early(g)' = Early(g)
           /\ \A d \in Callers : at'[d] \in StopStages => at[d] = at'[d]
           /\ UNCHANGED <<victim, signalled, stopped, state, shown>>
<1>1. PICK l \in {"starting", "deleting", "done", "quitting"} : Goto(c, l)
  BY DEF Quiet, StartLooksUp, DeleteChecks, StartRefused, StartRuns, QuitCollects, DeleteSaves, At
<1>2. l \in Stages \ StopStages
  BY DEF Stages, StopStages
<1>3. at[c] \notin StopStages
  BY DEF Quiet, StartLooksUp, DeleteChecks, StartRefused, StartRuns, QuitCollects, DeleteSaves,
         In, StopStages
<1>4. UNCHANGED <<victim, signalled, stopped, state, shown>>
  BY DEF Quiet, StartLooksUp, DeleteChecks, StartRefused, StartRuns, QuitCollects, DeleteSaves,
         At, stopVars, supVars, entryVars, pumpVars
<1>5. \A d \in Callers : at'[d] \in StopStages => at[d] = at'[d]
  BY <1>1, <1>2 DEF Goto, TypeOK
<1>6. QED
  BY <1>1, <1>2, <1>3, <1>4, <1>5, NoStopTouched

\* A step of a supervisor or its pump.
LEMMA QuitSupStep ==
    ASSUME QuitInv, NEW g \in Sups, SupNext(g)
    PROVE  SignalsKept' /\ OwnersKnown' /\ QuitPending'
<1> USE DEF QuitInv, LeakInv, Base
<1>1. UNCHANGED <<handle, signalled, entryVars, callVars>>
  BY DEF SupNext, TaskReports, TaskEnds, PumpShows, PumpCancelled, supVars
<1>2. \A h \in Sups : Met(h) => Met(h)'
  BY <1>1, SupMoves DEF Met, BeingStopped, callVars
<1>3. \A c \in Callers : 1..known[c] \subseteq Sups
  BY ManagerAssumption DEF TypeOK, Sups
<1>4. QED
  BY <1>1, <1>2, <1>3 DEF SignalsKept, OwnersKnown, QuitPending, entryVars, callVars

\* A step of a stop on its way.
LEMMA QuitStopStep ==
    ASSUME QuitInv, NEW c \in Callers, StopNext(c)
    PROVE  SignalsKept' /\ OwnersKnown' /\ QuitPending'
<1> USE DEF QuitInv, LeakInv, Base
<1> DEFINE g == victim[c]
<1>1. /\ at[c] \in StopStages /\ g \in Sups
      /\ UNCHANGED <<entryVars, stopVars>>
  BY DEF StopNext, SupSignals, SupJoins, SupMarks, StopAborts, StopEmits, In, StopStages,
         CallsMade, At
<1>2. /\ \A h \in Sups : signalled[h] => signalled'[h]
      /\ signalled'[g]
  BY <1>1 DEF StopNext, SupSignals, SupJoins, SupMarks, StopAborts, StopEmits, In, supVars,
         SignalsKept, TypeOK
<1>3. /\ \A d \in Callers : d # c => at'[d] = at[d]
      /\ at'[c] \in StopStages => at'[c] # "stopping"
  BY DEF StopNext, SupSignals, SupJoins, SupMarks, StopAborts, StopEmits, At, Goto, TypeOK
<1>4. SignalsKept'
  <2>1. ASSUME NEW d \in Callers, at'[d] \in {"joining", "marking", "aborting", "emitting"}
        PROVE  signalled'[victim[d]]
    <3>1. CASE d = c
      BY <1>2, <3>1
    <3>2. CASE d # c
      <4>1. at[d] = at'[d] /\ signalled[victim[d]]
        BY <1>3, <2>1, <3>2 DEF SignalsKept
      <4>2. victim[d] \in Sups
        BY <2>1, <4>1 DEF CallsMade, StopStages
      <4>3. QED
        BY <1>2, <4>1, <4>2
    <3>3. QED
      BY <3>1, <3>2
  <2>2. QED
    BY <1>1, <2>1 DEF SignalsKept, stopVars
<1>5. \A h \in Sups : h # g => /\ task'[h] = task[h] /\ state'[h] = state[h]
                               /\ BeingStopped(h) => BeingStopped(h)'
  <2>1. \A h \in Sups : h # g => task'[h] = task[h] /\ state'[h] = state[h]
    BY <1>1 DEF StopNext, SupSignals, SupJoins, SupMarks, StopAborts, StopEmits, supVars, TypeOK
  <2>2. \A h \in Sups : h # g /\ BeingStopped(h) => BeingStopped(h)'
    BY <1>1, <1>3 DEF BeingStopped, stopVars
  <2>3. QED
    BY <2>1, <2>2
<1>6. \A h \in Sups : Met(h) => Met(h)'
  BY <1>2, <1>5 DEF Met
<1>7. \A d \in Callers : 1..known[d] \subseteq Sups
  BY ManagerAssumption DEF TypeOK, Sups
<1>8. OwnersKnown' /\ QuitPending'
  BY <1>1, <1>6, <1>7 DEF OwnersKnown, QuitPending, entryVars, stopVars
<1>9. QED
  BY <1>4, <1>8

\* Quit, or a stop, takes up one tunnel: the supervisors of its profile that
\* are not the entry's have a stop of their own.
LEMMA QuitMarkStopped ==
    ASSUME QuitInv, NEW c \in Callers, NEW p \in Profiles, StopMarks(c, p) \/ QuitStops(c, p)
    PROVE  SignalsKept' /\ OwnersKnown' /\ QuitPending'
<1> USE DEF QuitInv, LeakInv, Base
<1>1. /\ at' = [at EXCEPT ![c] = "stopping"] /\ at[c] \notin StopStages
      /\ victim' = [victim EXCEPT ![c] = entry[p]]
      /\ todo' = [todo EXCEPT ![c] = @ \ {p}]
      /\ UNCHANGED <<supVars, of, started, known>>
  BY DEF StopMarks, QuitStops, MarkStopped, Goto, In, StopStages
<1>2. SignalsKept'
  BY <1>1 DEF SignalsKept, TypeOK, StopStages, supVars
<1>3. \A h \in Sups : BeingStopped(h) => BeingStopped(h)'
  BY <1>1 DEF BeingStopped, TypeOK
<1>4. \A h \in Sups : Met(h) => Met(h)'
  BY <1>1, <1>3 DEF Met, supVars
<1>5. ASSUME NEW h \in Sups, of[h] = p
      PROVE  Met(h)'
  <2>1. task[h] = "live" /\ state[h] # "failed" => entry[p] = h \/ BeingStopped(h)
    BY <1>5, LeakNone DEF NoLeakedTunnel
  <2>2. entry[p] = h => BeingStopped(h)'
    BY <1>1 DEF BeingStopped, TypeOK, StopStages
  <2>3. QED
    BY <1>1, <1>3, <2>1, <2>2 DEF Met, supVars
<1>6. \A d \in Callers : 1..known[d] \subseteq Sups
  BY ManagerAssumption DEF TypeOK, Sups
<1>7. \A d \in Callers : todo[d] \ {p} \subseteq todo'[d]
  BY <1>1 DEF TypeOK
<1>8. OwnersKnown' /\ QuitPending'
  BY <1>1, <1>4, <1>5, <1>6, <1>7 DEF OwnersKnown, QuitPending
<1>9. QED
  BY <1>2, <1>8

\* A command that is no stop. A start makes a supervisor that no Quit in
\* progress knows of; a Quit begins with every tunnel there is.
LEMMA QuitQuietStep ==
    ASSUME QuitInv, NEW c \in Callers, Quiet(c)
    PROVE  SignalsKept' /\ OwnersKnown' /\ QuitPending'
<1> USE DEF QuitInv, LeakInv, Base
<1>1. /\ \A g \in Sups : BeingStopped(g)' = BeingStopped(g)
      /\ \A d \in Callers : at'[d] \in StopStages => at[d] = at'[d]
      /\ UNCHANGED <<victim, signalled, state>>
  BY QuietTouchesNoStop
<1>2. SignalsKept'
  BY <1>1 DEF SignalsKept, StopStages
<1>3. \A d \in Callers : known[d] \in Nat /\ 1..known[d] \subseteq Sups
  BY ManagerAssumption DEF TypeOK, Sups
<1>4. CASE StartRuns(c)
  <2>1. /\ started' = started + 1 /\ started \in Nat
        /\ of' = [of EXCEPT ![started + 1] = target[c]]
        /\ task' = [task EXCEPT ![started + 1] = "live"]
        /\ UNCHANGED <<known, todo>>
    BY <1>4 DEF StartRuns, At, stopVars, TypeOK
  <2>2. target[c] \in Profiles
    BY <1>4 DEF StartRuns, In, CallsMade
  <2>3. \A g \in Sups : g <= started => of'[g] = of[g] /\ task'[g] = task[g]
    BY <2>1 DEF TypeOK, Sups
  <2>4. \A g \in Sups : g <= started /\ Met(g) => Met(g)'
    BY <1>1, <2>3 DEF Met
  <2>5. OwnersKnown'
    BY <2>1, <2>2, <2>3 DEF OwnersKnown, TypeOK, Sups
  <2>6. QuitPending'
    BY <1>3, <2>1, <2>3, <2>4 DEF QuitPending
  <2>7. QED
    BY <1>2, <2>5, <2>6
<1>5. CASE QuitCollects(c)
  <2>1. /\ todo' = [todo EXCEPT ![c] = Tunnels] /\ known' = [known EXCEPT ![c] = started]
        /\ UNCHANGED <<task, of, started, entry>>
    BY <1>5 DEF QuitCollects, supVars, entryVars
  <2>2. \A g \in Sups : Met(g) => Met(g)'
    BY <1>1, <2>1 DEF Met
  <2>3. ASSUME NEW g \in Sups, g <= started
        PROVE  of[g] \in Tunnels \/ Met(g)
    <3>1. task[g] = "live" /\ state[g] # "failed" => entry[of[g]] = g \/ BeingStopped(g)
      BY LeakNone DEF NoLeakedTunnel
    <3>2. entry[of[g]] = g => of[g] \in Tunnels
      BY <2>3 DEF OwnersKnown, Tunnels, Sups, NoSup
    <3>3. QED
      BY <3>1, <3>2 DEF Met
  <2>4. started \in Nat /\ 1..started \subseteq Sups
    BY ManagerAssumption DEF TypeOK, Sups
  <2>5. ASSUME NEW d \in Callers
        PROVE  known'[d] <= started' /\ \A g \in 1..known'[d] : of'[g] \in todo'[d] \/ Met(g)'
    <3>1. CASE d = c
      <4>1. known'[d] = started /\ todo'[d] = Tunnels
        BY <2>1, <3>1 DEF TypeOK
      <4>2. QED
        BY <2>1, <2>2, <2>3, <2>4, <4>1
    <3>2. CASE d # c
      <4>1. known'[d] = known[d] /\ todo'[d] = todo[d]
        BY <2>1, <3>2 DEF TypeOK
      <4>2. QED
        BY <1>3, <2>1, <2>2, <4>1 DEF QuitPending
    <3>3. QED
      BY <3>1, <3>2
  <2>6. OwnersKnown' /\ QuitPending'
    BY <2>1, <2>5 DEF OwnersKnown, QuitPending
  <2>7. QED
    BY <1>2, <2>6
<1>6. CASE ~StartRuns(c) /\ ~QuitCollects(c)
  <2>1. UNCHANGED <<task, of, started, known, todo>>
    BY <1>6 DEF Quiet, StartLooksUp, DeleteChecks, StartRefused, DeleteSaves, At, stopVars,
                supVars, entryVars
  <2>2. \A g \in Sups : Met(g) => Met(g)'
    BY <1>1, <2>1 DEF Met
  <2>3. QED
    BY <1>2, <1>3, <2>1, <2>2 DEF OwnersKnown, QuitPending
<1>7. QED
  BY <1>4, <1>5, <1>6

\* When Quit ends the process every tunnel it knew of has ended, was told to
\* stop, or has a stop on it: restarts and other stops in between take none
\* out of its reach.
THEOREM QuitReachesAll == Spec => []QuitStopsAll
<1>1. Init => QuitInv
  <2> SUFFICES ASSUME Init PROVE SignalsKept /\ OwnersKnown /\ QuitPending
    BY LeakInit DEF QuitInv
  <2>1. QED
    BY DEF Init, SignalsKept, OwnersKnown, QuitPending, Sups
<1>2. QuitInv /\ [Next]_vars => QuitInv'
  <2> SUFFICES ASSUME QuitInv, [Next]_vars PROVE SignalsKept' /\ OwnersKnown' /\ QuitPending'
    BY LeakStep DEF QuitInv
  <2>1. CASE UNCHANGED <<supVars, entryVars, callVars>>
    BY <2>1 DEF QuitInv, SignalsKept, OwnersKnown, QuitPending, Met, BeingStopped, supVars,
                entryVars, callVars
  <2>2. ASSUME NEW c \in Callers, CallNext(c)
        PROVE  SignalsKept' /\ OwnersKnown' /\ QuitPending'
    <3>1. CASE Quiet(c)
      BY <3>1, QuitQuietStep
    <3>2. CASE StopNext(c)
      BY <3>2, QuitStopStep
    <3>3. ASSUME NEW p \in Profiles, StopMarks(c, p) \/ QuitStops(c, p)
          PROVE  SignalsKept' /\ OwnersKnown' /\ QuitPending'
      BY <3>3, QuitMarkStopped
    <3>4. CASE QuitExits(c)
      BY <2>1, <3>4 DEF QuitExits
    <3>5. QED
      BY <2>2, <3>1, <3>2, <3>3, <3>4 DEF CallNext, Quiet
  <2>3. QED
    BY <2>1, <2>2, QuitSupStep DEF Next, vars
<1>3. QuitInv => QuitStopsAll
  <2> SUFFICES ASSUME QuitInv, NEW c \in Callers, todo[c] = {}, NEW g \in 1..known[c],
                      task[g] = "live", state[g] # "failed"
               PROVE  signalled[g] \/ BeingStopped(g)
    BY DEF QuitStopsAll
  <2>1. QED
    BY DEF QuitInv, QuitPending, Met
<1>4. QED
  BY <1>1, <1>2, <1>3, PTL DEF Spec

------------------------------------------------------------------------------
(* What the frontend is left with. A stop that is past its mark has found   *)
(* the task ended, so the state it wrote is the last; whatever shows that   *)
(* supervisor afterwards shows "stopped".                                   *)

HandlesTaken ==
    \A c \in Callers :
        at[c] \in {"joining", "marking", "aborting", "emitting"} => ~handle[victim[c]]

Settled ==
    \A g \in Sups : stopped[g] /\ ~Early(g) => state[g] = "stopped" /\ task[g] # "live"

\* A stop emits for the profile its victim was made for.
TargetsOwned == \A c \in Callers : at[c] \in StopStages => of[victim[c]] = target[c]

ShownLast ==
    \A p \in Profiles, g \in Sups :
        of[g] = p /\ stopped[g] /\ ~BeingStopped(g) /\ shown[p].sup = g
            => shown[p].state = "stopped"

ShownInv == LeakInv /\ HandlesTaken /\ TargetsOwned /\ Settled /\ ShownLast

\* The four parts that LeakInv needs no proof for again.
ShownParts == HandlesTaken /\ TargetsOwned /\ Settled /\ ShownLast

\* A task that reports or ends belongs to a supervisor with a stop ahead of it
\* or none at all; a pump that shows a stopped one shows its last state.
LEMMA ShownSupStep ==
    ASSUME ShownInv, NEW g \in Sups, SupNext(g)
    PROVE  ShownParts'
<1> USE DEF ShownInv, LeakInv, Base
<1>1. UNCHANGED <<handle, entryVars, callVars>>
  BY DEF SupNext, TaskReports, TaskEnds, PumpShows, PumpCancelled, supVars
<1>2. \A h \in Sups : Early(h)' = Early(h) /\ BeingStopped(h)' = BeingStopped(h)
  BY <1>1 DEF Early, BeingStopped, callVars
<1>3. HandlesTaken' /\ TargetsOwned'
  BY <1>1 DEF HandlesTaken, TargetsOwned, entryVars, callVars
<1>4. CASE TaskReports(g) \/ TaskEnds(g)
  <2>1. /\ task[g] = "live" /\ UNCHANGED shown
        /\ \A h \in Sups : h # g => task'[h] = task[h] /\ state'[h] = state[h]
    BY <1>4 DEF TaskReports, TaskEnds, TypeOK
  <2>2. Settled'
    BY <1>1, <1>2, <2>1 DEF Settled, entryVars
  <2>3. QED
    BY <1>1, <1>2, <1>3, <2>1, <2>2 DEF ShownParts, ShownLast, entryVars
<1>5. CASE PumpCancelled(g)
  <2>1. UNCHANGED <<task, state, shown>>
    BY <1>5 DEF PumpCancelled, supVars
  <2>2. QED
    BY <1>1, <1>2, <1>3, <2>1 DEF ShownParts, Settled, ShownLast, entryVars
<1>6. CASE PumpShows(g)
  <2>1. /\ UNCHANGED <<task, state>>
        /\ shown' = [shown EXCEPT ![of[g]] = [sup |-> g, state |-> state[g]]]
    BY <1>6 DEF PumpShows, supVars
  <2>2. Settled'
    BY <1>1, <1>2, <2>1 DEF Settled, entryVars
  <2>3. ASSUME NEW p \in Profiles, NEW h \in Sups, stopped[h], ~BeingStopped(h),
               of[h] = p, shown'[p].sup = h
        PROVE  shown'[p].state = "stopped"
    <3>1. CASE p = of[g]
      <4>1. shown'[p] = [sup |-> g, state |-> state[g]]
        BY <2>1, <3>1 DEF TypeOK
      <4>2. h = g /\ ~Early(g)
        BY <2>3, <4>1 DEF Early, BeingStopped, StopStages
      <4>3. QED
        BY <2>3, <4>1, <4>2 DEF Settled
    <3>2. CASE p # of[g]
      BY <2>1, <2>3, <3>2 DEF ShownLast, TypeOK
    <3>3. QED
      BY <3>1, <3>2
  <2>4. ShownLast'
    BY <1>1, <1>2, <2>3 DEF ShownLast, entryVars
  <2>5. QED
    BY <1>3, <2>2, <2>4 DEF ShownParts
<1>7. QED
  BY <1>4, <1>5, <1>6 DEF SupNext

\* A command that is no stop changes nothing the frontend shows of a stopped one.
LEMMA ShownQuietStep ==
    ASSUME ShownInv, NEW c \in Callers, Quiet(c)
    PROVE  ShownParts'
<1> USE DEF ShownInv, LeakInv, Base
<1>1. /\ \A g \in Sups : BeingStopped(g)' = BeingStopped(g) /\ Early(g)' = Early(g)
      /\ \A d \in Callers : at'[d] \in StopStages => at[d] = at'[d]
      /\ UNCHANGED <<victim, stopped, state, shown>>
  BY QuietTouchesNoStop
<1>2. \A d \in Callers : at'[d] \in StopStages => target'[d] = target[d]
  BY DEF Quiet, StartLooksUp, DeleteChecks, StartRefused, StartRuns, QuitCollects, DeleteSaves,
         At, Aim, Goto, In, StopStages, stopVars, TypeOK
<1>3. CASE StartRuns(c)
  <2> DEFINE new == started + 1
  <2>1. /\ new \in Sups /\ started \in Nat /\ ~stopped[new]
        /\ \A g \in Sups : g # new => /\ task'[g] = task[g] /\ handle'[g] = handle[g]
                                      /\ of'[g] = of[g]
    <3>1. new \in Sups /\ started \in Nat
      BY <1>3, ManagerAssumption DEF StartRuns, TypeOK, Sups
    <3>2. ~stopped[new]
      BY <3>1 DEF Unmade
    <3>3. \A g \in Sups : g # new => task'[g] = task[g] /\ handle'[g] = handle[g]
      BY <1>3, <3>1 DEF StartRuns, TypeOK
    <3>4. \A g \in Sups : g # new => of'[g] = of[g]
      BY <1>3, <3>1 DEF StartRuns, TypeOK
    <3>5. QED
      BY <3>1, <3>2, <3>3, <3>4
  <2>2. Settled'
    BY <1>1, <2>1 DEF Settled
  <2>3. \A d \in Callers : at[d] \in StopStages => victim[d] \in Sups /\ victim[d] # new
    BY <2>1 DEF CallsMade, Sups
  <2>4. HandlesTaken'
    BY <1>1, <2>1, <2>3 DEF HandlesTaken, StopStages
  <2>5. TargetsOwned'
    BY <1>1, <1>2, <2>1, <2>3 DEF TargetsOwned
  <2>6. ShownLast'
    BY <1>1, <2>1 DEF ShownLast
  <2>7. QED
    BY <2>2, <2>4, <2>5, <2>6 DEF ShownParts
<1>4. CASE ~StartRuns(c)
  <2>1. UNCHANGED <<task, handle, of>>
    BY <1>4 DEF Quiet, StartLooksUp, DeleteChecks, StartRefused, QuitCollects, DeleteSaves,
                supVars, entryVars
  <2>2. Settled' /\ ShownLast'
    BY <1>1, <2>1 DEF Settled, ShownLast
  <2>3. HandlesTaken' /\ TargetsOwned'
    BY <1>1, <1>2, <2>1 DEF HandlesTaken, TargetsOwned, StopStages
  <2>4. QED
    BY <2>2, <2>3 DEF ShownParts
<1>5. QED
  BY <1>3, <1>4

\* A mark starts a stop, so it is early for the supervisor it is on.
LEMMA ShownMarkStopped ==
    ASSUME ShownInv, NEW c \in Callers, NEW p \in Profiles, StopMarks(c, p) \/ QuitStops(c, p)
    PROVE  ShownParts'
<1> USE DEF ShownInv, LeakInv, Base
<1>0. PICK g \in Sups : g = entry[p] /\ of[g] = p
  BY MarkedIsMade DEF TypeOK, Sups, NoSup
<1>1. /\ at' = [at EXCEPT ![c] = "stopping"] /\ at[c] \notin StopStages
      /\ victim' = [victim EXCEPT ![c] = g]
      /\ target' = [target EXCEPT ![c] = p]
      /\ stopped' = [stopped EXCEPT ![g] = TRUE]
      /\ UNCHANGED <<supVars, shown, of>>
  BY <1>0 DEF StopMarks, QuitStops, MarkStopped, Goto, Aim, In, StopStages, pumpVars
<1>2. /\ at'[c] = "stopping" /\ victim'[c] = g /\ target'[c] = p
      /\ \A d \in Callers : d # c => /\ at'[d] = at[d] /\ victim'[d] = victim[d]
                                      /\ target'[d] = target[d]
      /\ \A h \in Sups : h # g => stopped'[h] = stopped[h]
  BY <1>1 DEF TypeOK
<1>3. Early(g)' /\ BeingStopped(g)'
  BY <1>2 DEF Early, BeingStopped, StopStages
<1>4. \A h \in Sups : (Early(h) => Early(h)') /\ (BeingStopped(h) => BeingStopped(h)')
  BY <1>1, <1>2 DEF Early, BeingStopped, StopStages
<1>5. HandlesTaken' /\ TargetsOwned'
  BY <1>0, <1>1, <1>2 DEF HandlesTaken, TargetsOwned, StopStages, supVars
<1>6. Settled'
  BY <1>1, <1>2, <1>3, <1>4 DEF Settled, supVars
<1>7. ShownLast'
  BY <1>1, <1>2, <1>3, <1>4 DEF ShownLast
<1>8. QED
  BY <1>5, <1>6, <1>7 DEF ShownParts

\* The step out of "marking" writes the last state, the last step shows it.
LEMMA ShownStopStep ==
    ASSUME ShownInv, NEW c \in Callers, StopNext(c)
    PROVE  ShownParts'
<1> USE DEF ShownInv, LeakInv, Base
<1>0. PICK g \in Sups : g = victim[c]
  BY DEF StopNext, SupSignals, SupJoins, SupMarks, StopAborts, StopEmits, In, StopStages,
         CallsMade
<1>1. /\ at[c] \in StopStages /\ target[c] \in Profiles
      /\ UNCHANGED <<entryVars, stopVars>>
  BY DEF StopNext, SupSignals, SupJoins, SupMarks, StopAborts, StopEmits, In, StopStages,
         CallsMade, At
<1>2. \A d \in Callers : d # c => at'[d] = at[d]
  BY DEF StopNext, SupSignals, SupJoins, SupMarks, StopAborts, StopEmits, At, Goto, TypeOK
<1>3. TargetsOwned'
  BY <1>0, <1>1, <1>2 DEF TargetsOwned, entryVars, stopVars
<1>4. HandlesTaken'
  <2>1. ~handle'[g] \/ at'[c] \notin {"joining", "marking", "aborting", "emitting"}
    BY <1>0, <1>1 DEF StopNext, SupSignals, SupJoins, SupMarks, StopAborts, StopEmits, In, At, Goto,
                HandlesTaken, TypeOK, supVars
  <2>2. \A h \in Sups : handle'[h] => handle[h]
    BY <1>0, <1>1 DEF StopNext, SupSignals, SupJoins, SupMarks, StopAborts, StopEmits, TypeOK, supVars
  <2>3. \A d \in Callers : at[d] \in StopStages => victim[d] \in Sups
    BY DEF CallsMade
  <2>4. QED
    BY <1>0, <1>1, <1>2, <2>1, <2>2, <2>3 DEF HandlesTaken, StopStages, stopVars
<1>5. \A h \in Sups : h # g => /\ Early(h)' = Early(h)
                               /\ BeingStopped(h)' = BeingStopped(h)
                               /\ task'[h] = task[h] /\ state'[h] = state[h]
  <2>1. \A h \in Sups : h # g => task'[h] = task[h] /\ state'[h] = state[h]
    BY <1>0, <1>1 DEF StopNext, SupSignals, SupJoins, SupMarks, StopAborts, StopEmits, supVars, TypeOK
  <2>2. \A h \in Sups : h # g => Early(h)' = Early(h)
    BY <1>0, <1>1, <1>2 DEF Early, stopVars
  <2>3. \A h \in Sups : h # g => BeingStopped(h)' = BeingStopped(h)
    BY <1>0, <1>1, <1>2 DEF BeingStopped, stopVars
  <2>4. QED
    BY <2>1, <2>2, <2>3
<1>6. CASE SupSignals(c) \/ SupJoins(c)
  <2>1. /\ at'[c] \in {"joining", "marking"} /\ UNCHANGED shown
    BY <1>0, <1>6 DEF SupSignals, SupJoins, At, Goto, TypeOK, pumpVars
  <2>2. Early(g)' /\ BeingStopped(g)'
    BY <1>0, <1>1, <2>1 DEF Early, BeingStopped, StopStages, stopVars
  <2>3. QED
    BY <1>0, <1>1, <1>4, <1>5, <1>3, <2>1, <2>2 DEF ShownParts, Settled, ShownLast, entryVars
<1>7. CASE SupMarks(c)
  <2>1. /\ at[c] = "marking" /\ at'[c] = "aborting"
        /\ UNCHANGED <<shown, task>> /\ state'[g] = "stopped"
    BY <1>0, <1>1, <1>7 DEF SupMarks, In, At, Goto, TypeOK
  <2>2. BeingStopped(g)'
    BY <1>0, <1>1, <2>1 DEF BeingStopped, StopStages, stopVars
  <2>3. task[g] = "live" => Early(g)'
    <3>1. task[g] = "live" => Waits(g)
      BY <1>0, <1>1, <2>1 DEF HandlesTaken, TasksHeld
    <3>2. Waits(g) => Early(g)'
      BY <1>0, <1>1, <1>2, <2>1 DEF Waits, Early, stopVars
    <3>3. QED
      BY <3>1, <3>2
  <2>4. Settled'
    BY <1>0, <1>1, <1>5, <2>1, <2>3 DEF Settled, entryVars
  <2>5. ShownLast'
    BY <1>0, <1>1, <1>5, <2>1, <2>2 DEF ShownLast, entryVars
  <2>6. QED
    BY <1>4, <1>3, <2>4, <2>5 DEF ShownParts
<1>8. CASE StopAborts(c)
  <2>1. /\ at[c] = "aborting" /\ at'[c] = "emitting"
        /\ UNCHANGED <<shown, task, state>>
    BY <1>0, <1>8 DEF StopAborts, In, At, Goto, TypeOK, supVars
  <2>2. BeingStopped(g)' /\ Early(g)' = Early(g)
    BY <1>0, <1>1, <1>2, <2>1 DEF BeingStopped, Early, StopStages, stopVars
  <2>3. QED
    BY <1>0, <1>1, <1>4, <1>5, <1>3, <2>1, <2>2 DEF ShownParts, Settled, ShownLast, entryVars
<1>9. CASE StopEmits(c)
  <2>1. /\ at[c] = "emitting" /\ at'[c] \notin StopStages
        /\ UNCHANGED <<task, state>>
        /\ shown' = [shown EXCEPT ![target[c]] = [sup |-> g, state |-> state[g]]]
    BY <1>0, <1>9 DEF StopEmits, LastStatus, In, At, Goto, TypeOK, supVars, StopStages
  <2>2. Early(g)' = Early(g)
    BY <1>0, <1>1, <1>2, <2>1 DEF Early, StopStages, stopVars
  <2>3. Settled'
    BY <1>0, <1>1, <1>5, <2>1, <2>2 DEF Settled, entryVars
  <2>4. ASSUME NEW p \in Profiles, NEW h \in Sups, stopped[h], ~BeingStopped(h)',
               of[h] = p, shown'[p].sup = h
        PROVE  shown'[p].state = "stopped"
    <3>1. CASE p = target[c]
      <4>1. shown'[p] = [sup |-> g, state |-> state[g]]
        BY <2>1, <3>1 DEF TypeOK
      <4>2. h = g
        BY <2>4, <4>1
      <4>3. Early(g)' => BeingStopped(g)'
        BY DEF Early, BeingStopped, StopStages
      <4>4. ~Early(g)
        BY <2>2, <2>4, <4>2, <4>3
      <4>5. QED
        BY <2>4, <4>1, <4>2, <4>4 DEF Settled
    <3>2. CASE p # target[c]
      <4>1. shown'[p] = shown[p]
        BY <2>1, <3>2 DEF TypeOK
      <4>2. h # g
        BY <1>0, <1>1, <2>4, <3>2 DEF TargetsOwned
      <4>3. QED
        BY <1>5, <2>4, <4>1, <4>2 DEF ShownLast
    <3>3. QED
      BY <3>1, <3>2
  <2>5. ShownLast'
    BY <1>0, <1>1, <2>4 DEF ShownLast, entryVars
  <2>6. QED
    BY <1>4, <1>3, <2>3, <2>5 DEF ShownParts
<1>10. QED
  BY <1>6, <1>7, <1>8, <1>9 DEF StopNext

\* When every stop of a tunnel has returned, the frontend shows it as stopped,
\* or shows another run of the profile: no late report of the task and no pump,
\* aborted or not, has the last word.
THEOREM StoppedStaysShown == Spec => []StoppedIsShown
<1>1. Init => ShownInv
  <2> SUFFICES ASSUME Init PROVE HandlesTaken /\ TargetsOwned /\ Settled /\ ShownLast
    BY LeakInit DEF ShownInv
  <2>1. QED
    BY DEF Init, HandlesTaken, TargetsOwned, Settled, ShownLast, StopStages
<1>2. ShownInv /\ [Next]_vars => ShownInv'
  <2> SUFFICES ASSUME ShownInv, [Next]_vars PROVE ShownParts'
    BY LeakStep DEF ShownInv, ShownParts
  <2>1. CASE UNCHANGED <<supVars, entryVars, callVars, shown>>
    BY <2>1 DEF ShownInv, ShownParts, HandlesTaken, TargetsOwned, Settled, ShownLast, Early,
                BeingStopped, supVars, entryVars, callVars
  <2>2. ASSUME NEW c \in Callers, CallNext(c)
        PROVE  ShownParts'
    <3>1. CASE Quiet(c)
      BY <3>1, ShownQuietStep
    <3>2. CASE StopNext(c)
      BY <3>2, ShownStopStep
    <3>3. ASSUME NEW p \in Profiles, StopMarks(c, p) \/ QuitStops(c, p)
          PROVE  ShownParts'
      BY <3>3, ShownMarkStopped
    <3>4. CASE QuitExits(c)
      BY <2>1, <3>4 DEF QuitExits, pumpVars
    <3>5. QED
      BY <2>2, <3>1, <3>2, <3>3, <3>4 DEF CallNext, Quiet
  <2>3. QED
    BY <2>1, <2>2, ShownSupStep DEF Next, vars, pumpVars
<1>3. ShownInv => StoppedIsShown
  <2> SUFFICES ASSUME ShownInv, NEW p \in Profiles, entry[p] # NoSup, stopped[entry[p]],
                      ~BeingStopped(entry[p]), shown[p].sup = entry[p]
               PROVE  shown[p].state = "stopped"
    BY DEF StoppedIsShown
  <2>1. entry[p] \in Sups /\ of[entry[p]] = p
    BY ManagerAssumption DEF ShownInv, LeakInv, Base, TypeOK, Sups, NoSup
  <2>2. QED
    BY <2>1 DEF ShownInv, ShownLast
<1>4. QED
  BY <1>1, <1>2, <1>3, PTL DEF Spec
==============================================================================
