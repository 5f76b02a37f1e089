--------------------------------- MODULE Tray ---------------------------------
(***************************************************************************)
(* The tray menu (tray.rs) beside the tunnels it shows: the status events   *)
(* fanned out to it (main.rs), the refresh tasks a flipped running bit      *)
(* spawns, and the menu items, which start and stop tunnels.                *)
(*                                                                         *)
(* A refresh reads the config, then the statuses, then takes the lock of    *)
(* the built menu; refreshes run in parallel. A pump emits a status at some *)
(* time after it changed, so a status that changes back in between is never *)
(* emitted. The order of the items, icon, window and Quit are left out, and *)
(* the tray is there; the profile commands are those that change the list.  *)
(*                                                                         *)
(* Init, Next and the like carry the module's name, since EventProofs       *)
(* extends this module beside EventPump.                                    *)
(***************************************************************************)
EXTENDS Naturals, FiniteSets

CONSTANTS
    Profiles,
    Names,
    Refreshes,     \* bound: refresh tasks at once
    MaxEdits,      \* bound: profiles saved or deleted
    NoName

ASSUME TrayAssumption ==
    NoName \notin Names /\ IsFiniteSet(Profiles) /\ MaxEdits \in Nat

VARIABLES
    name,          \* config.json: the name of each saved profile
    live,          \* is_running_state of each tunnel's status: it starts or is connected
    due,           \* tunnels whose last status has not been emitted
    seen,          \* TraySink.running: the last bit of each profile, if any
    refresh,       \* the refresh tasks, with what each has read
    menu,          \* Built: the entries of the last menu built
    unset,         \* set_menu failed on it: an older menu is on screen
    count,         \* Built: running_count, the tooltip
    emitted,       \* history: the bit of each profile's last emission, if any
    edits,         \* how many profiles were saved or deleted
    stale          \* history: the menu may be outdated, see TrayCurrent

tunnels == <<name, live, due>>
trayVars == <<tunnels, seen, refresh, menu, unset, count, emitted, edits, stale>>

Entries == [id : Profiles, name : Names, running : BOOLEAN]
Tasks == [at : {"idle", "spawned", "configured", "collected"},
          names : [Profiles -> Names \cup {NoName}], entries : SUBSET Entries]
Idle == [at |-> "idle", names |-> [p \in Profiles |-> NoName], entries |-> {}]

TrayTypeOK ==
    /\ name \in [Profiles -> Names \cup {NoName}]
    /\ live \in [Profiles -> BOOLEAN]
    /\ due \subseteq Profiles
    /\ {seen, emitted} \subseteq [Profiles -> {{}, {TRUE}, {FALSE}}]
    /\ refresh \in [Refreshes -> Tasks]
    /\ menu \subseteq Entries
    /\ count \in 0..Cardinality(Profiles) /\ edits \in 0..MaxEdits
    /\ {unset, stale} \subseteq BOOLEAN

-----------------------------------------------------------------------------
\* collect_entries
EntriesOf(names) ==
    {[id |-> p, name |-> names[p], running |-> live[p]] :
        p \in {q \in Profiles : names[q] # NoName}}

\* Mutant: the signature is the names.
MenuSignatureOfNames(entries) == {e.name : e \in entries}

\* The sorted (name, running) pairs: how many entries have each pair.
MenuSignature(entries) ==
    [pair \in Names \X BOOLEAN |->
        Cardinality({e \in entries : <<e.name, e.running>> = pair})]

RunningCount(entries) == Cardinality({e \in entries : e.running})

\* At launch nothing runs, and the menu says so for every saved profile.
TrayInit ==
    /\ name \in [Profiles -> Names \cup {NoName}]
    /\ \A p, q \in Profiles : p # q /\ name[p] = name[q] => name[p] = NoName
    /\ live = [p \in Profiles |-> FALSE]
    /\ due = {}
    /\ seen = [p \in Profiles |-> {}] /\ emitted = seen
    /\ refresh = [r \in Refreshes |-> Idle]
    /\ menu = EntriesOf(name) /\ unset = FALSE
    /\ count = 0
    /\ stale = FALSE /\ edits = 0

-----------------------------------------------------------------------------
(* The tunnels *)

\* A status is published, which may or may not flip the running bit.
Becomes(p, running) ==
    /\ live' = [live EXCEPT ![p] = running]
    /\ due' = due \cup {p}
    /\ UNCHANGED <<name, seen, refresh, menu, unset, count, emitted, edits, stale>>

\* start_profile: the profile is saved. In its first dial a tunnel is idle.
Starts(p) ==
    /\ name[p] # NoName /\ ~live[p]
    /\ Becomes(p, FALSE)

\* The manager has a tunnel of this profile: it was started once.
Known(p) == p \in due \/ seen[p] # {}

\* The supervisor connects or reconnects, or it fails or is stopped, or another
\* has taken its place. (Which task may still report: see TunnelManager.)
Reports(p) ==
    /\ Known(p)
    /\ \E running \in BOOLEAN : Becomes(p, running)

\* A click on an item does what the item said when it was built; stopping
\* a stopped tunnel emits its status once more. (An item of an older menu
\* does what Starts and Reports do.)
Clicks(e) ==
    \/ e.running /\ Becomes(e.id, FALSE)
    \/ ~e.running /\ Starts(e.id)

\* save_profile and delete_profile, which tell no one. A tunnel in its first
\* dial does not keep its profile from being deleted.
Edits(p) ==
    /\ \/ \E n \in Names : (\A q \in Profiles : name[q] # n) /\ name' = [name EXCEPT ![p] = n]
       \/ ~live[p] /\ name[p] # NoName /\ name' = [name EXCEPT ![p] = NoName]
    /\ edits < MaxEdits /\ edits' = edits + 1
    /\ stale' = TRUE
    /\ UNCHANGED <<live, due, seen, refresh, menu, unset, count, emitted>>

-----------------------------------------------------------------------------
(* TraySink and refresh_menu *)

\* A refresh has read, or the menu shows, this bit of a profile; an item of
\* the same name stands for it, since a signature has no ids.
ReadAs(p, running) ==
    \E e \in menu \cup UNION {refresh[r].entries : r \in Refreshes} :
        (e.id = p \/ e.name = name[p]) /\ e.running = running

\* Mutant: the bit is only remembered when the tunnel runs.
RemembersRunning(p, running) == IF running THEN [seen EXCEPT ![p] = {TRUE}] ELSE seen

Remembers(p, running) == [seen EXCEPT ![p] = {running}]

\* TraySink.emit_status: a refresh is spawned if the bit flips.
Tells(p, running) ==
    /\ emitted' = [emitted EXCEPT ![p] = {running}]
    /\ \/ /\ seen[p] = {running}
          /\ stale' = (stale \/ (/\ emitted[p] = {running}
                                 /\ live[p] = running /\ ReadAs(p, ~running)))
          /\ UNCHANGED <<seen, refresh>>
       \/ /\ seen[p] # {running}
          /\ seen' = Remembers(p, running)
          /\ \E r \in Refreshes :
              /\ refresh[r].at = "idle"
              /\ refresh' = [refresh EXCEPT ![r].at = "spawned"]
          /\ UNCHANGED stale
    /\ UNCHANGED <<name, live, menu, unset, count, edits>>

\* FanOutSink.emit_status, by the pump or by a stop.
Emits(p) ==
    /\ p \in due
    /\ due' = due \ {p}
    /\ Tells(p, live[p])

\* An emission of a status that was read before the bit changed: by a stop that
\* a restart has overtaken, or by a pump that is stopped between the two.
EmitsLate(p) ==
    /\ Known(p)
    /\ Tells(p, ~live[p])
    /\ UNCHANGED due

\* Tasks between their first read and their end.
Reading == {r \in Refreshes : refresh[r].at \in {"configured", "collected"}}

\* load_config. A refresh that begins alone repairs what was outdated, unless
\* a failed set_menu has left a menu that counts as built.
RefreshLoads(r) ==
    /\ refresh[r].at = "spawned"
    /\ refresh' = [refresh EXCEPT ![r] = [at |-> "configured", names |-> name, entries |-> {}]]
    /\ stale' = (Reading # {} \/ unset)
    /\ UNCHANGED <<tunnels, seen, menu, unset, count, emitted, edits>>

RefreshGivesUp(r) ==
    /\ refresh[r].at = "spawned"
    /\ refresh' = [refresh EXCEPT ![r] = Idle]
    /\ stale' = TRUE
    /\ UNCHANGED <<tunnels, seen, menu, unset, count, emitted, edits>>

\* all_statuses, under the lock of the manager's map.
RefreshCollects(r) ==
    /\ refresh[r].at = "configured"
    /\ refresh' = [refresh EXCEPT ![r] = [at |-> "collected", names |-> Idle.names,
                                          entries |-> EntriesOf(refresh[r].names)]]
    /\ UNCHANGED <<tunnels, seen, menu, unset, count, emitted, edits, stale>>

\* The tooltip follows although the menu may not have been built.
Counts(entries) == RunningCount(entries)

\* Under the lock: a new menu if the signature differs. Building it may fail;
\* setting it may too, and is not looked at.
RefreshInstalls(r) ==
    /\ refresh[r].at = "collected"
    /\ LET entries == refresh[r].entries
           same == MenuSignature(menu) = MenuSignature(entries)
       IN  /\ \/ same /\ UNCHANGED <<menu, unset, stale>>
              \/ ~same /\ menu' = entries /\ unset' = FALSE /\ UNCHANGED stale
              \/ ~same /\ menu' = entries /\ unset' = TRUE /\ stale' = TRUE
              \/ ~same /\ stale' = TRUE /\ UNCHANGED <<menu, unset>>
           /\ count' = Counts(entries)
    /\ refresh' = [refresh EXCEPT ![r] = Idle]
    /\ UNCHANGED <<tunnels, seen, emitted, edits>>

TrayNext ==
    \/ \E p \in Profiles :
        Starts(p) \/ Reports(p) \/ Edits(p) \/ Emits(p) \/ EmitsLate(p)
    \/ \E e \in menu : Clicks(e)
    \/ \E r \in Refreshes :
        RefreshLoads(r) \/ RefreshGivesUp(r) \/ RefreshCollects(r) \/ RefreshInstalls(r)

TraySpec == TrayInit /\ [][TrayNext]_trayVars

-----------------------------------------------------------------------------
AtRest == due = {} /\ \A r \in Refreshes : refresh[r].at = "idle"

Labels(entries) == {<<e.name, e.running>> : e \in entries}

\* tray.rs:4-7: once every status is emitted and every refresh has ended, the
\* labels and the tooltip are those of the live state, although refreshes
\* only follow flips the tray saw. The exceptions: since the last refresh
\* that began alone, profiles were edited, refreshes overlapped, a refresh
\* read a bit that flipped back unemitted, or one failed; or a menu was not
\* set that counts as built.
TrayCurrent ==
    AtRest /\ ~stale =>
        /\ Labels(menu) = Labels(EntriesOf(name))
        /\ count = RunningCount(EntriesOf(name))
=============================================================================
