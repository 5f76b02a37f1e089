----------------------------- MODULE ConfigStore -----------------------------
(***************************************************************************)
(* The commands of commands.rs over config.json and the keyring            *)
(* (config.rs). A command is one call of the frontend or the tray; calls   *)
(* run in parallel on the threads of the runtime, and a command takes no   *)
(* lock: it loads the whole file, changes its copy and writes it back.     *)
(* fs::write truncates the file and then writes it. The process may be     *)
(* killed at any step, a write of the file or a keyring call may fail.     *)
(*                                                                         *)
(* A profile is its id and its name. Of the tunnel manager, only which     *)
(* tunnels run and with which secret is kept. Reading commands are left    *)
(* out. The profile editor's save_profile and set_profile_secret, called   *)
(* one after the other, are one request.                                   *)
(***************************************************************************)
EXTENDS Naturals, FiniteSets

CONSTANTS
    Profiles,      \* profile ids, those of later imports included
    Names,         \* names a user gives, told apart without their case
    Secrets,       \* secrets a user types
    Callers,       \* bound: calls made
    NoProfile, NoName, Blank

Imported == "Imported - host"
LegacySecret == "legacy"

ASSUME ConfigAssumption ==
    /\ NoProfile \notin Profiles
    /\ NoName \notin Names /\ Imported \notin Names /\ NoName # Imported
    /\ Blank \notin Secrets \cup {LegacySecret}

AllNames == Names \cup {Imported}
AllSecrets == Secrets \cup {LegacySecret}

VARIABLES
    names,         \* config.json: the name of each saved profile
    active,        \* config.json: active_profile_id
    theme,         \* config.json: ui
    torn,          \* config.json is truncated, or a mix of two writes
    keyring,       \* profile:<id> under KEYRING_SERVICE
    running,       \* profiles whose tunnel runs
    startedWith,   \* the secret each profile's tunnel was started with
    pc,            \* where each call is
    req,           \* its request
    copy,          \* the config it has loaded and changed
    chosen,        \* the secret a start has resolved
    acked,         \* history: names, theme and secrets by the calls' answers
    contended,     \* history: calls overlapped, or a write was cut short
    ruined,        \* history: a call began on a torn file, with no other in flight
    failed         \* history: a keyring call failed, or the file did not open

file == <<names, active, theme, torn>>
tunnels == <<running, startedWith>>
history == <<acked, contended, ruined, failed>>
vars == <<file, keyring, tunnels, pc, req, copy, chosen, history>>

\* An edit with a blank secret keeps the stored one; a start may bring one.
Requests == [op : {"edit"}, p : Profiles, name : Names, secret : Secrets \cup {Blank}]
    \cup [op : {"start"}, p : Profiles, secret : Secrets \cup {Blank}]
    \cup [op : {"activate", "delete"}, p : Profiles]
    \cup [op : {"import"}, p : Profiles, hasSecret : BOOLEAN]
    \cup [op : {"prefs"}, theme : {"Dark", "Light"}]
    \cup [op : {"stop", "none"}]

Configs == [names : [Profiles -> AllNames \cup {NoName}],
            active : Profiles \cup {NoProfile}, theme : {"Dark", "Light"}]

DefaultConfig == [names |-> [p \in Profiles |-> NoName], active |-> NoProfile, theme |-> "Dark"]

Stages == {"idle", "checking", "copying", "loading", "opening", "writing", "overwriting",
           "storing", "dropping", "resolving", "starting", "ok", "error", "killed"}
InFlight == {c \in Callers : pc[c] \notin {"idle", "ok", "error", "killed"}}
Quiet == InFlight = {}

TypeOK ==
    /\ [names |-> names, active |-> active, theme |-> theme] \in Configs
    /\ {torn, contended, ruined, failed} \subseteq BOOLEAN
    /\ keyring \in [Profiles -> AllSecrets \cup {Blank}]
    /\ running \subseteq Profiles
    /\ startedWith \in [Profiles -> AllSecrets \cup {Blank}]
    /\ pc \in [Callers -> Stages]
    /\ req \in [Callers -> Requests]
    /\ copy \in [Callers -> Configs]
    /\ chosen \in [Callers -> AllSecrets \cup {Blank}]
    /\ acked.names \in [Profiles -> AllNames \cup {NoName}]
    /\ acked.secrets \in [Profiles -> AllSecrets \cup {Blank}]

Init ==
    /\ names = DefaultConfig.names /\ active = NoProfile /\ theme = "Dark"
    /\ torn = FALSE
    /\ keyring = [p \in Profiles |-> Blank]
    /\ running = {}
    /\ startedWith = [p \in Profiles |-> Blank]
    /\ pc = [c \in Callers |-> "idle"]
    /\ req = [c \in Callers |-> [op |-> "none"]]
    /\ copy = [c \in Callers |-> DefaultConfig]
    /\ chosen = [c \in Callers |-> Blank]
    /\ acked = [names |-> names, theme |-> theme, secrets |-> keyring]
    /\ contended = FALSE /\ ruined = FALSE /\ failed = FALSE

-----------------------------------------------------------------------------
At(c, stage) == pc[c] = stage
Goto(c, stage) == pc' = [pc EXCEPT ![c] = stage]
Saved(nm) == {p \in Profiles : nm[p] # NoName}

\* An id of an import is new: no profile, secret or other request has had it.
Fresh(p) == /\ p \notin Saved(names) /\ keyring[p] = Blank
            /\ \A c \in Callers : "p" \in DOMAIN req[c] => req[c].p # p

Begins(c) ==
    /\ At(c, "idle")
    /\ \E r \in Requests :
        /\ r.op # "none"
        /\ r.op = "import" => Fresh(r.p)
        /\ req' = [req EXCEPT ![c] = r]
        /\ Goto(c, CASE r.op = "delete" -> "checking" [] r.op = "import" -> "copying"
                     [] OTHER -> "loading")
    /\ contended' = (contended \/ ~Quiet)
    /\ ruined' = (ruined \/ (torn /\ Quiet))
    /\ UNCHANGED <<file, keyring, tunnels, copy, chosen, acked, failed>>

\* delete_profile asks the manager first.
DeleteChecks(c) ==
    /\ At(c, "checking")
    /\ Goto(c, IF req[c].p \in running THEN "error" ELSE "loading")
    /\ UNCHANGED <<file, keyring, tunnels, req, copy, chosen, history>>

\* A keyring call, which may fail; "value" is what it stores.
KeyringSets(p, value) ==
    /\ keyring' = [keyring EXCEPT ![p] = value]
    /\ acked' = [acked EXCEPT !.secrets = [@ EXCEPT ![p] = value]]
    /\ failed' = failed
KeyringFails == failed' = TRUE /\ UNCHANGED <<keyring, acked>>

\* config::import_legacy copies the old secret before the profile is saved.
ImportCopies(c) ==
    /\ At(c, "copying")
    /\ \/ ~req[c].hasSecret /\ Goto(c, "loading") /\ UNCHANGED <<keyring, acked, failed>>
       \/ req[c].hasSecret /\ KeyringSets(req[c].p, LegacySecret) /\ Goto(c, "loading")
       \/ req[c].hasSecret /\ KeyringFails /\ Goto(c, "error")
    /\ UNCHANGED <<file, tunnels, req, copy, chosen, contended, ruined>>

\* Mutant: a file that cannot be parsed is taken for an empty one.
ReadableAlways == TRUE

\* AppConfig::load_from cannot parse a torn file.
Readable == ~torn

\* Mutant: only a new profile's name is compared.
NameFreeWhenNew(p, name) == names[p] = NoName => \A q \in Profiles \ {p} : names[q] # name

\* normalize_profile(): no other profile of this name.
NameFree(p, name) == \A q \in Profiles \ {p} : names[q] # name

Accepts(r) ==
    CASE r.op = "edit" -> NameFree(r.p, r.name)
      [] r.op \in {"activate", "delete"} -> r.p \in Saved(names)
      [] OTHER -> TRUE

\* Mutant: a deleted profile stays the active one.
NextActiveUndeleted(r) ==
    CASE r.op \in {"edit", "import"} /\ active = NoProfile -> r.p
      [] r.op = "activate" -> r.p
      [] OTHER -> active

\* The active profile after the request.
NextActive(r) ==
    CASE r.op \in {"edit", "import"} /\ active = NoProfile -> r.p
      [] r.op = "activate" -> r.p
      [] r.op = "delete" /\ active = r.p -> NoProfile
      [] OTHER -> active

NextNames(r) ==
    CASE r.op = "edit" -> [names EXCEPT ![r.p] = r.name]
      [] r.op = "import" -> [names EXCEPT ![r.p] = Imported]
      [] r.op = "delete" -> [names EXCEPT ![r.p] = NoName]
      [] OTHER -> names

\* Mutant: the preferences are saved over a config that was not loaded.
EditedAnew(r) ==
    IF r.op = "prefs" THEN [DefaultConfig EXCEPT !.theme = r.theme]
    ELSE [names |-> NextNames(r), active |-> NextActive(r), theme |-> theme]

Edited(r) == [names |-> NextNames(r), active |-> NextActive(r),
              theme |-> IF r.op = "prefs" THEN r.theme ELSE theme]

\* A command that changes the config loads it and changes its copy.
Loads(c) ==
    /\ At(c, "loading") /\ req[c].op \notin {"start", "stop"}
    /\ IF Readable /\ Accepts(req[c])
       THEN copy' = [copy EXCEPT ![c] = Edited(req[c])] /\ Goto(c, "opening")
       ELSE copy' = copy /\ Goto(c, "error")
    /\ UNCHANGED <<file, keyring, tunnels, req, chosen, history>>

\* start_profile finds its profile.
StartLoads(c) ==
    /\ At(c, "loading") /\ req[c].op = "start"
    /\ Goto(c, IF Readable /\ req[c].p \in Saved(names) THEN "resolving" ELSE "error")
    /\ UNCHANGED <<file, keyring, tunnels, req, copy, chosen, history>>

\* stop_tunnel of the active profile: resolve_target() and the manager's stop.
StopsActive(c) ==
    /\ At(c, "loading") /\ req[c].op = "stop"
    /\ IF Readable /\ active \in running
       THEN running' = running \ {active} /\ Goto(c, "ok")
       ELSE running' = running /\ Goto(c, "error")
    /\ UNCHANGED <<file, keyring, startedWith, req, copy, chosen, history>>

\* fs::write opens and truncates; it may fail before that.
Opens(c) ==
    /\ At(c, "opening")
    /\ \/ torn' = TRUE /\ failed' = failed /\ Goto(c, "writing")
       \/ torn' = torn /\ failed' = TRUE /\ Goto(c, "error")
    /\ UNCHANGED <<names, active, theme, keyring, tunnels, req, copy, chosen, acked, contended, ruined>>

\* Mutant: a deleted profile's secret is forgotten.
AfterWriteKeeping(c) ==
    IF req[c].op = "edit" /\ req[c].secret # Blank THEN "storing" ELSE "ok"

\* What follows the write.
AfterWrite(c) ==
    CASE req[c].op = "edit" /\ req[c].secret # Blank -> "storing"
      [] req[c].op = "delete" -> "dropping"
      [] OTHER -> "ok"

\* The calls that have opened the file and not written it: they write over this.
WrittenOver(c) ==
    [d \in Callers |-> IF d = c THEN AfterWrite(c)
                       ELSE IF pc[d] = "writing" THEN "overwriting" ELSE pc[d]]

\* The content is written from the start of the file. Over the content of a
\* write that came since this one truncated, a longer rest may stay behind.
Writes(c) ==
    /\ pc[c] \in {"writing", "overwriting"}
    /\ names' = copy[c].names /\ active' = copy[c].active /\ theme' = copy[c].theme
    /\ torn' \in IF At(c, "overwriting") THEN BOOLEAN ELSE {FALSE}
    /\ pc' = WrittenOver(c)
    /\ acked' = CASE req[c].op = "prefs" -> [acked EXCEPT !.theme = req[c].theme]
                  [] req[c].op \in {"edit", "import", "delete"} ->
                        [acked EXCEPT !.names = [@ EXCEPT ![req[c].p] = copy[c].names[req[c].p]]]
                  [] OTHER -> acked
    /\ UNCHANGED <<keyring, tunnels, req, copy, chosen, contended, ruined, failed>>

\* The disk is full.
WriteFails(c) ==
    /\ pc[c] \in {"writing", "overwriting"}
    /\ Goto(c, "error")
    /\ contended' = TRUE
    /\ UNCHANGED <<file, keyring, tunnels, req, copy, chosen, acked, ruined, failed>>

\* store_profile_secret(), a failure of which is the command's.
EditStores(c) ==
    /\ At(c, "storing")
    /\ \/ KeyringSets(req[c].p, req[c].secret) /\ Goto(c, "ok")
       \/ KeyringFails /\ Goto(c, "error")
    /\ UNCHANGED <<file, tunnels, req, copy, chosen, contended, ruined>>

\* delete_profile drops the secret, best effort.
DeleteDrops(c) ==
    /\ At(c, "dropping")
    /\ KeyringSets(req[c].p, Blank) \/ KeyringFails
    /\ Goto(c, "ok")
    /\ UNCHANGED <<file, tunnels, req, copy, chosen, contended, ruined>>

\* Mutant: a stored secret wins over the one that is given.
StartResolvesStored(c) ==
    /\ At(c, "resolving")
    /\ LET p == req[c].p
           given == req[c].secret
       IN  /\ chosen' = [chosen EXCEPT ![c] = IF keyring[p] # Blank THEN keyring[p] ELSE given]
           /\ acked' = IF given = Blank THEN acked
                       ELSE [acked EXCEPT !.secrets = [@ EXCEPT ![p] = given]]
    /\ Goto(c, "starting")
    /\ UNCHANGED <<file, keyring, tunnels, req, copy, contended, ruined, failed>>

\* resolve_secret(): one that is given wins and is remembered if the keyring
\* allows; otherwise the stored one, or none.
StartResolves(c) ==
    /\ At(c, "resolving")
    /\ LET given == req[c].secret IN
        \/ /\ given # Blank
           /\ KeyringSets(req[c].p, given) \/ KeyringFails
           /\ chosen' = [chosen EXCEPT ![c] = given]
        \/ /\ given = Blank
           /\ chosen' = [chosen EXCEPT ![c] = keyring[req[c].p]]
           /\ UNCHANGED <<keyring, acked, failed>>
        \/ /\ given = Blank
           /\ chosen' = [chosen EXCEPT ![c] = Blank]
           /\ KeyringFails
    /\ Goto(c, "starting")
    /\ UNCHANGED <<file, tunnels, req, copy, contended, ruined>>

\* TunnelManager::start, which refuses a tunnel that runs.
StartStarts(c) ==
    /\ At(c, "starting")
    /\ IF req[c].p \in running
       THEN Goto(c, "error") /\ UNCHANGED tunnels
       ELSE /\ running' = running \cup {req[c].p}
            /\ startedWith' = [startedWith EXCEPT ![req[c].p] = chosen[c]]
            /\ Goto(c, "ok")
    /\ UNCHANGED <<file, keyring, req, copy, chosen, history>>

\* The process is killed with its calls and tunnels; the next calls find the
\* file and the keyring as they are.
Killed ==
    /\ ~Quiet
    /\ pc' = [c \in Callers |-> IF c \in InFlight THEN "killed" ELSE pc[c]]
    /\ running' = {}
    /\ contended' = TRUE
    /\ UNCHANGED <<file, keyring, startedWith, req, copy, chosen, acked, ruined, failed>>

Step(c) ==
    \/ DeleteChecks(c) \/ ImportCopies(c)
    \/ Loads(c) \/ StartLoads(c) \/ StopsActive(c)
    \/ Opens(c) \/ Writes(c) \/ WriteFails(c)
    \/ EditStores(c) \/ DeleteDrops(c)
    \/ StartResolves(c) \/ StartStarts(c)

Next == Killed \/ \E c \in Callers : Begins(c) \/ Step(c)

Spec == Init /\ [][Next]_vars

-----------------------------------------------------------------------------
(* Properties. *)

\* The active profile of the file is one of its profiles.
ActiveIsSaved == active \in Saved(names) \cup {NoProfile}

\* No two profiles of the file have one name, except that an import does not
\* look whether its name is taken.
SavedNamesUnique ==
    \A p, q \in Saved(names) : p # q /\ names[p] = names[q] => names[p] = Imported

\* Whatever calls overlap, are killed or fail: a config.json that can be read
\* is consistent. Every call writes a copy that is sound by itself, and never
\* a part of it over another's.
FileSound == ActiveIsSaved /\ SavedNamesUnique

\* A config that no call can read is not written over: once all calls that
\* had read it before are over, a torn file stays as it is, for its owner to
\* mend, and no call begins again from an empty config.
TornIsKept == ruined => torn

\* Calls that do not overlap and are not cut short are atomic: between calls
\* the file holds what the answers said, failed calls having changed nothing.
AnswersKept ==
    ~contended /\ Quiet => ~torn /\ names = acked.names /\ theme = acked.theme

\* If besides nothing fails, the keyring holds secrets of saved profiles only.
NoOrphanSecrets ==
    ~contended /\ ~failed /\ Quiet => \A p \in Profiles : keyring[p] # Blank => names[p] # NoName

\* A tunnel is started with the secret that was last given for its profile,
\* blank answers of the editor notwithstanding, as long as the keyring works.
StartedWithItsSecret ==
    ~contended /\ ~failed =>
        \A c \in Callers : At(c, "starting") => chosen[c] = acked.secrets[req[c].p]
==============================================================================
