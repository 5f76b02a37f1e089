--------------------------- MODULE ConfigStoreProofs --------------------------
(***************************************************************************)
(* Theorems about ConfigStore, for any profiles, names and secrets and any *)
(* number of calls.                                                        *)
(***************************************************************************)
EXTENDS ConfigStore, TLAPS

-----------------------------------------------------------------------------
(* Every config in the file or in a call's hands is sound. *)

Sound(cfg) ==
    /\ cfg.active \in Saved(cfg.names) \cup {NoProfile}
    /\ \A p, q \in Saved(cfg.names) :
           p # q /\ cfg.names[p] = cfg.names[q] => cfg.names[p] = Imported

SoundFile == [names |-> names, active |-> active, theme |-> theme] \in Configs /\ FileSound

SoundInv ==
    /\ SoundFile
    /\ req \in [Callers -> Requests]
    /\ copy \in [Callers -> Configs]
    /\ \A c \in Callers : Sound(copy[c])

\* The config of a program that was never used is sound.
LEMMA DefaultSound == DefaultConfig \in Configs /\ Sound(DefaultConfig)
BY DEF DefaultConfig, Configs, Sound, Saved, AllNames

\* The default config, which the first call finds, is sound.
LEMMA SoundInit == Init => SoundInv
<1> SUFFICES ASSUME Init PROVE SoundInv
  OBVIOUS
<1>1. /\ names = DefaultConfig.names /\ active = DefaultConfig.active /\ theme = DefaultConfig.theme
      /\ copy = [c \in Callers |-> DefaultConfig]
      /\ req = [c \in Callers |-> [op |-> "none"]]
  BY DEF Init, DefaultConfig
<1>2. [names |-> names, active |-> active, theme |-> theme] \in Configs
  BY <1>1, DefaultSound DEF Configs
<1>3. FileSound
  BY <1>1, DefaultSound DEF FileSound, ActiveIsSaved, SavedNamesUnique, Sound
<1>4. req \in [Callers -> Requests]
  BY <1>1 DEF Requests
<1>5. QED
  BY <1>1, <1>2, <1>3, <1>4, DefaultSound DEF SoundInv, SoundFile

\* What a call that has loaded a sound file makes of it is sound: an edit only
\* takes a free name, an active profile that is deleted is active no more.
LEMMA EditedSound ==
    ASSUME SoundFile, NEW r \in Requests, r.op \notin {"start", "stop"}, Accepts(r)
    PROVE  Edited(r) \in Configs /\ Sound(Edited(r))
<1> DEFINE nm == NextNames(r)
           ac == NextActive(r)
<1>1. /\ names \in [Profiles -> AllNames \cup {NoName}]
      /\ active \in Profiles \cup {NoProfile} /\ theme \in {"Dark", "Light"}
  BY DEF SoundFile, Configs
<1>2. /\ active \in Saved(names) \cup {NoProfile}
      /\ \A p, q \in Saved(names) : p # q /\ names[p] = names[q] => names[p] = Imported
  BY DEF SoundFile, FileSound, ActiveIsSaved, SavedNamesUnique
<1>3. /\ NoName \notin Names /\ Imported \notin Names /\ NoName # Imported /\ NoProfile \notin Profiles
  BY ConfigAssumption
<1>4. Edited(r) = [names |-> nm, active |-> ac, theme |-> IF r.op = "prefs" THEN r.theme ELSE theme]
  BY DEF Edited
<1>5. CASE r.op = "edit"
  <2>1. r.p \in Profiles /\ r.name \in Names /\ \A q \in Profiles \ {r.p} : names[q] # r.name
    BY <1>5 DEF Requests, Accepts, NameFree
  <2>2. nm = [names EXCEPT ![r.p] = r.name] /\ ac = IF active = NoProfile THEN r.p ELSE active
    BY <1>5 DEF NextNames, NextActive
  <2>3. QED
    BY <1>1, <1>2, <1>3, <1>4, <1>5, <2>1, <2>2 DEF Configs, Sound, Saved, AllNames
<1>6. CASE r.op = "import"
  <2>1. r.p \in Profiles
    BY <1>6 DEF Requests
  <2>2. nm = [names EXCEPT ![r.p] = Imported] /\ ac = IF active = NoProfile THEN r.p ELSE active
    BY <1>6 DEF NextNames, NextActive
  <2>3. QED
    BY <1>1, <1>2, <1>3, <1>4, <1>6, <2>1, <2>2 DEF Configs, Sound, Saved, AllNames
<1>7. CASE r.op = "delete"
  <2>1. r.p \in Profiles
    BY <1>7 DEF Requests
  <2>2. nm = [names EXCEPT ![r.p] = NoName] /\ ac = IF active = r.p THEN NoProfile ELSE active
    BY <1>7 DEF NextNames, NextActive
  <2>3. QED
    BY <1>1, <1>2, <1>3, <1>4, <1>7, <2>1, <2>2 DEF Configs, Sound, Saved, AllNames
<1>8. CASE r.op = "activate"
  <2>1. r.p \in Profiles /\ r.p \in Saved(names)
    BY <1>8 DEF Requests, Accepts
  <2>2. nm = names /\ ac = r.p
    BY <1>8 DEF NextNames, NextActive
  <2>3. QED
    BY <1>1, <1>2, <1>4, <1>8, <2>1, <2>2 DEF Configs, Sound
<1>9. CASE r.op \in {"prefs", "none"}
  <2>1. r.op = "prefs" => r.theme \in {"Dark", "Light"}
    BY <1>9 DEF Requests
  <2>2. nm = names /\ ac = active
    BY <1>9 DEF NextNames, NextActive
  <2>3. QED
    BY <1>1, <1>2, <1>4, <1>9, <2>1, <2>2 DEF Configs, Sound
<1>10. QED
  BY <1>5, <1>6, <1>7, <1>8, <1>9 DEF Requests

\* Every step keeps every config sound.
LEMMA SoundStep ==
    ASSUME SoundInv, [Next]_vars
    PROVE  SoundInv'
<1> USE DEF SoundInv
<1>1. ASSUME NEW c \in Callers, Begins(c)
      PROVE  SoundInv'
  <2>1. UNCHANGED <<file, copy>> /\ \E r \in Requests : req' = [req EXCEPT ![c] = r]
    BY <1>1 DEF Begins
  <2>2. req' \in [Callers -> Requests]
    BY <2>1
  <2>3. SoundFile'
    BY <2>1 DEF SoundFile, FileSound, ActiveIsSaved, SavedNamesUnique, file
  <2>4. QED
    BY <2>1, <2>2, <2>3
<1>2. ASSUME NEW c \in Callers, Loads(c)
      PROVE  SoundInv'
  <2>1. UNCHANGED <<file, req>>
    BY <1>2 DEF Loads
  <2>2. \/ copy' = copy
        \/ /\ Accepts(req[c]) /\ req[c].op \notin {"start", "stop"}
           /\ copy' = [copy EXCEPT ![c] = Edited(req[c])]
    BY <1>2 DEF Loads
  <2>3. SoundFile'
    BY <2>1 DEF SoundFile, FileSound, ActiveIsSaved, SavedNamesUnique, file
  <2>4. copy' \in [Callers -> Configs] /\ \A d \in Callers : Sound(copy[d])'
    <3>1. CASE copy' = copy
      BY <3>1
    <3>2. CASE /\ Accepts(req[c]) /\ req[c].op \notin {"start", "stop"}
               /\ copy' = [copy EXCEPT ![c] = Edited(req[c])]
      <4>1. Edited(req[c]) \in Configs /\ Sound(Edited(req[c]))
        BY <3>2, EditedSound
      <4>2. \A d \in Callers : copy[d]' = IF d = c THEN Edited(req[c]) ELSE copy[d]
        BY <3>2
      <4>3. QED
        BY <3>2, <4>1, <4>2
    <3>3. QED
      BY <2>2, <3>1, <3>2
  <2>5. QED
    BY <2>1, <2>3, <2>4
<1>3. ASSUME NEW c \in Callers, Writes(c)
      PROVE  SoundInv'
  <2>1. names' = copy[c].names /\ active' = copy[c].active /\ theme' = copy[c].theme
        /\ UNCHANGED <<req, copy>>
    BY <1>3 DEF Writes
  <2>2. copy[c] \in Configs /\ Sound(copy[c])
    OBVIOUS
  <2>3. SoundFile'
    BY <2>1, <2>2 DEF SoundFile, FileSound, ActiveIsSaved, SavedNamesUnique, Sound, Configs, Saved
  <2>4. QED
    BY <2>1, <2>3
<1>4. CASE UNCHANGED <<names, active, theme, req, copy>>
  BY <1>4 DEF SoundFile, FileSound, ActiveIsSaved, SavedNamesUnique
<1>5. CASE Killed \/ UNCHANGED vars
  BY <1>4, <1>5 DEF Killed, vars, file
<1>6. ASSUME NEW c \in Callers, Step(c), ~Loads(c), ~Writes(c)
      PROVE  SoundInv'
  BY <1>4, <1>6 DEF Step, DeleteChecks, ImportCopies, StartLoads, StopsActive, Opens, WriteFails,
     EditStores, DeleteDrops, StartResolves, StartStarts, file
<1>7. QED
  BY <1>1, <1>2, <1>3, <1>5, <1>6 DEF Next

\* A file that can be read is consistent, whatever calls overlapped, failed or
\* were killed: FileSound in every state.
THEOREM FileIsSound == Spec => []FileSound
<1>1. SoundInv => FileSound
  BY DEF SoundInv, SoundFile
<1>2. QED
  BY <1>1, SoundInit, SoundStep, PTL DEF Spec

-----------------------------------------------------------------------------
(* A torn file is left to its owner. *)

\* Once a call had to begin on a torn file alone, no call holds a copy to write.
NoCopyHeld ==
    ruined => torn /\ \A c \in Callers : pc[c] \notin {"opening", "writing", "overwriting"}

\* No step that is taken on a torn file makes a copy of it.
LEMMA TornStep ==
    ASSUME NoCopyHeld, [Next]_vars
    PROVE  NoCopyHeld'
<1> SUFFICES ASSUME ruined'
             PROVE  torn' /\ \A d \in Callers : pc'[d] \notin {"opening", "writing", "overwriting"}
  BY DEF NoCopyHeld
<1>1. ASSUME NEW c \in Callers, Begins(c)
      PROVE  torn' /\ \A d \in Callers : pc'[d] \notin {"opening", "writing", "overwriting"}
  <2>1. torn /\ \A d \in Callers : pc[d] \notin {"opening", "writing", "overwriting"}
    BY <1>1 DEF Begins, NoCopyHeld, Quiet, InFlight
  <2>2. UNCHANGED torn /\ \E s \in {"checking", "copying", "loading"} : pc' = [pc EXCEPT ![c] = s]
    BY <1>1 DEF Begins, Goto, file
  <2>3. QED
    BY <2>1, <2>2
<1>2. ASSUME ruined, NEW c \in Callers, Step(c)
      PROVE  torn' /\ \A d \in Callers : pc'[d] \notin {"opening", "writing", "overwriting"}
  <2>1. torn /\ \A d \in Callers : pc[d] \notin {"opening", "writing", "overwriting"}
    BY <1>2 DEF NoCopyHeld
  <2>2. ~Opens(c) /\ ~Writes(c) /\ ~WriteFails(c)
    BY <2>1 DEF Opens, Writes, WriteFails, At
  <2>3. /\ UNCHANGED torn
        /\ \E s \in Stages \ {"opening", "writing", "overwriting"} : pc' = [pc EXCEPT ![c] = s]
    BY <1>2, <2>1, <2>2 DEF Step, DeleteChecks, ImportCopies, Loads, StartLoads, StopsActive, Opens,
       EditStores, DeleteDrops, StartResolves, StartStarts, Goto, file, Readable, Stages
  <2>4. QED
    BY <2>1, <2>3
<1>3. CASE Killed
  BY <1>3 DEF Killed, NoCopyHeld, file
<1>4. CASE UNCHANGED vars
  BY <1>4 DEF vars, file, history, NoCopyHeld
<1>5. ASSUME NEW c \in Callers, Step(c)
      PROVE  ruined
  BY <1>5 DEF Step, DeleteChecks, ImportCopies, Loads, StartLoads, StopsActive, Opens, Writes,
     WriteFails, EditStores, DeleteDrops, StartResolves, StartStarts, history
<1>6. QED
  BY <1>1, <1>2, <1>3, <1>4, <1>5 DEF Next

\* TornIsKept in every state: no call goes on from an empty config.
THEOREM TornFileIsKept == Spec => []TornIsKept
<1>1. Init => NoCopyHeld
  BY DEF Init, NoCopyHeld
<1>2. NoCopyHeld => TornIsKept
  BY DEF NoCopyHeld, TornIsKept
<1>3. QED
  BY <1>1, <1>2, TornStep, PTL DEF Spec

-----------------------------------------------------------------------------
(* Calls that do not overlap are atomic. *)

\* Which request a call at a stage of one operation has.
Asked ==
    \A c \in Callers :
        /\ pc[c] = "storing" => req[c].op = "edit"
        /\ pc[c] \in {"resolving", "starting"} => req[c].op = "start"

Answers == [names : [Profiles -> AllNames \cup {NoName}], theme : {"Dark", "Light"},
            secrets : [Profiles -> AllSecrets \cup {Blank}]]

\* The types of the first state; no call has a request.
LEMMA TypeInit == Init => TypeOK /\ Asked
<1> SUFFICES ASSUME Init PROVE TypeOK /\ Asked
  OBVIOUS
<1>1. /\ names = DefaultConfig.names /\ active = NoProfile /\ theme = "Dark"
      /\ keyring = [p \in Profiles |-> Blank] /\ startedWith = [p \in Profiles |-> Blank]
      /\ running = {} /\ pc = [c \in Callers |-> "idle"]
      /\ chosen = [c \in Callers |-> Blank]
      /\ acked = [names |-> names, theme |-> theme, secrets |-> keyring]
      /\ torn = FALSE /\ contended = FALSE /\ ruined = FALSE /\ failed = FALSE
  BY DEF Init
<1>2. SoundInv
  BY SoundInit
<1>3. pc \in [Callers -> Stages] /\ chosen \in [Callers -> AllSecrets \cup {Blank}]
  BY <1>1 DEF Stages
<1>4. /\ acked.names \in [Profiles -> AllNames \cup {NoName}]
      /\ acked.secrets \in [Profiles -> AllSecrets \cup {Blank}]
  BY <1>1 DEF DefaultConfig
<1>5. {torn, contended, ruined, failed} \subseteq BOOLEAN
  BY <1>1
<1>6. TypeOK
  BY <1>1, <1>2, <1>3, <1>4, <1>5 DEF TypeOK, SoundInv, SoundFile
<1>7. QED
  BY <1>1, <1>6 DEF Asked

\* The requests, the stages and the secrets stay what they are.
LEMMA TypeStep ==
    ASSUME SoundInv, SoundInv', TypeOK, Asked, acked' \in Answers, [Next]_vars
    PROVE  TypeOK' /\ Asked'
<1>1. SoundFile' /\ req' \in [Callers -> Requests] /\ copy' \in [Callers -> Configs]
  BY DEF SoundInv
<1>2. /\ acked'.names \in [Profiles -> AllNames \cup {NoName}]
      /\ acked'.secrets \in [Profiles -> AllSecrets \cup {Blank}]
  BY DEF Answers
<1>3. ASSUME NEW c \in Callers, Begins(c)
      PROVE  TypeOK' /\ Asked'
  <2>1. /\ UNCHANGED <<torn, keyring, running, startedWith, chosen, failed>>
        /\ \E s \in {"checking", "copying", "loading"} : pc' = [pc EXCEPT ![c] = s]
        /\ \E r \in Requests : req' = [req EXCEPT ![c] = r]
        /\ contended' \in BOOLEAN /\ ruined' \in BOOLEAN
    BY <1>3 DEF Begins, Goto, file, tunnels, TypeOK
  <2>2. pc' \in [Callers -> Stages]
    BY <2>1 DEF TypeOK, Stages
  <2>3. TypeOK'
    BY <1>1, <1>2, <2>1, <2>2 DEF TypeOK, SoundFile
  <2>4. Asked'
    BY <2>1 DEF TypeOK, Asked
  <2>5. QED
    BY <2>3, <2>4
<1>4. ASSUME NEW c \in Callers, Writes(c)
      PROVE  TypeOK' /\ Asked'
  <2>1. /\ UNCHANGED <<keyring, running, startedWith, req, chosen, contended, ruined, failed>>
        /\ torn' \in BOOLEAN /\ pc' = WrittenOver(c)
    BY <1>4 DEF Writes, tunnels, At
  <2>2. \A d \in Callers : pc'[d] = IF d = c THEN AfterWrite(c)
                                   ELSE IF pc[d] = "writing" THEN "overwriting" ELSE pc[d]
    BY <2>1 DEF WrittenOver
  <2>3. /\ AfterWrite(c) \in {"storing", "dropping", "ok"}
        /\ AfterWrite(c) = "storing" => req[c].op = "edit"
    BY DEF AfterWrite
  <2>4. pc' \in [Callers -> Stages]
    BY <2>1, <2>3 DEF WrittenOver, Stages, TypeOK
  <2>5. Asked'
    BY <2>1, <2>2, <2>3 DEF Asked
  <2>6. QED
    BY <1>1, <1>2, <2>1, <2>4, <2>5 DEF TypeOK, SoundFile
<1>5. CASE Killed
  <2>1. pc' \in [Callers -> Stages]
    BY <1>5 DEF Killed, Stages, TypeOK
  <2>2. QED
    BY <1>1, <1>2, <1>5, <2>1 DEF Killed, TypeOK, SoundFile, file, Asked
<1>6. CASE UNCHANGED vars
  BY <1>1, <1>2, <1>6 DEF vars, file, tunnels, history, TypeOK, SoundFile, Asked
<1>7. ASSUME NEW c \in Callers, Step(c), ~Writes(c)
      PROVE  TypeOK' /\ Asked'
  <2>1. /\ UNCHANGED req
        /\ \E s \in Stages : /\ pc' = [pc EXCEPT ![c] = s] /\ s # "storing"
                             /\ s \in {"resolving", "starting"} => req[c].op = "start"
    BY <1>7 DEF Step, DeleteChecks, ImportCopies, Loads, StartLoads, StopsActive, Opens, WriteFails,
       EditStores, DeleteDrops, StartResolves, StartStarts, At, Goto, Stages, Asked
  <2>2. pc' \in [Callers -> Stages] /\ Asked'
    BY <2>1 DEF TypeOK, Asked
  <2>3. /\ {torn', contended', ruined', failed'} \subseteq BOOLEAN
        /\ running' \subseteq Profiles
    <3>1. req[c].op = "start" => req[c].p \in Profiles
      BY DEF SoundInv, Requests
    <3>2. QED
      BY <1>7, <3>1, ZenonT(30) DEF Step, DeleteChecks, ImportCopies, Loads, StartLoads, StopsActive, Opens,
         WriteFails, EditStores, DeleteDrops, StartResolves, StartStarts, At, Asked, KeyringSets,
         KeyringFails, TypeOK, file, tunnels, history
  <2>4. req[c].op \in {"edit", "start"} => req[c].secret \in AllSecrets \cup {Blank}
    BY DEF SoundInv, Requests, AllSecrets
  <2>5. /\ keyring' \in [Profiles -> AllSecrets \cup {Blank}]
        /\ chosen' \in [Callers -> AllSecrets \cup {Blank}]
        /\ startedWith' \in [Profiles -> AllSecrets \cup {Blank}]
    <3>1. CASE StartResolves(c)
      <4>1. req[c].op = "start" /\ keyring[req[c].p] \in AllSecrets \cup {Blank}
        BY <3>1 DEF StartResolves, At, Asked, SoundInv, Requests, TypeOK
      <4>2. QED
        BY <2>4, <3>1, <4>1 DEF StartResolves, KeyringSets, KeyringFails, TypeOK, tunnels
    <3>2. CASE EditStores(c)
      <4>1. req[c].secret \in AllSecrets \cup {Blank}
        BY <2>4, <3>2 DEF EditStores, At, Asked
      <4>2. QED
        BY <3>2, <4>1 DEF EditStores, KeyringSets, KeyringFails, TypeOK, tunnels
    <3>3. CASE ImportCopies(c)
      BY <3>3 DEF ImportCopies, KeyringSets, KeyringFails, TypeOK, tunnels, AllSecrets
    <3>4. CASE DeleteDrops(c)
      BY <3>4 DEF DeleteDrops, KeyringSets, KeyringFails, TypeOK, tunnels
    <3>5. CASE StartStarts(c)
      BY <3>5 DEF StartStarts, TypeOK, tunnels
    <3>6. CASE UNCHANGED <<keyring, chosen, startedWith>>
      BY <3>6 DEF TypeOK
    <3>7. QED
      BY <1>7, <3>1, <3>2, <3>3, <3>4, <3>5, <3>6 DEF Step, DeleteChecks, Loads, StartLoads,
         StopsActive, Opens, WriteFails, tunnels
  <2>6. QED
    BY <1>1, <1>2, <2>2, <2>3, <2>5 DEF TypeOK, SoundFile
<1>8. QED
  BY <1>3, <1>4, <1>5, <1>6, <1>7 DEF Next

\* A call that is alone holds its edit of the file as it is, and the file is
\* torn only between its two writes.
AloneInv ==
    /\ acked \in Answers
    /\ ~contended =>
        /\ \A c, d \in InFlight : c = d
        /\ names = acked.names /\ theme = acked.theme
        /\ torn => \E c \in Callers : pc[c] = "writing"
        /\ \A c \in Callers : pc[c] # "overwriting"
        /\ \A c \in Callers :
               pc[c] \in {"opening", "writing"} =>
                   copy[c] = Edited(req[c]) /\ req[c].op \notin {"start", "stop"}

\* No call is in flight at first, and no answer was given.
LEMMA AloneInit == Init => AloneInv
<1> SUFFICES ASSUME Init PROVE AloneInv
  OBVIOUS
<1>1. /\ names = DefaultConfig.names /\ theme = "Dark" /\ keyring = [p \in Profiles |-> Blank]
      /\ acked = [names |-> names, theme |-> theme, secrets |-> keyring]
      /\ ~torn /\ InFlight = {} /\ \A c \in Callers : pc[c] = "idle"
  BY DEF Init, InFlight
<1>2. acked \in Answers
  BY <1>1 DEF Answers, DefaultConfig, AllNames
<1>3. QED
  BY <1>1, <1>2 DEF AloneInv

\* The file of a call that is alone becomes what its answer will say.
LEMMA WriteAnswers ==
    ASSUME SoundInv, AloneInv, NEW c \in Callers, Writes(c)
    PROVE  AloneInv'
<1>1. /\ names' = copy[c].names /\ theme' = copy[c].theme
      /\ torn' \in IF At(c, "overwriting") THEN BOOLEAN ELSE {FALSE}
      /\ pc' = WrittenOver(c)
      /\ acked' = CASE req[c].op = "prefs" -> [acked EXCEPT !.theme = req[c].theme]
                    [] req[c].op \in {"edit", "import", "delete"} ->
                          [acked EXCEPT !.names = [@ EXCEPT ![req[c].p] = copy[c].names[req[c].p]]]
                    [] OTHER -> acked
      /\ UNCHANGED <<req, copy, contended>>
      /\ pc[c] \in {"writing", "overwriting"}
  BY DEF Writes, At
<1>2. /\ names \in [Profiles -> AllNames \cup {NoName}] /\ theme \in {"Dark", "Light"}
      /\ req[c] \in Requests
      /\ copy[c].names \in [Profiles -> AllNames \cup {NoName}]
      /\ acked \in Answers
  BY DEF SoundInv, SoundFile, Configs, AloneInv
<1>3. /\ req[c].op = "prefs" => req[c].theme \in {"Dark", "Light"}
      /\ req[c].op \in {"edit", "import", "delete"} => req[c].p \in Profiles
  BY <1>2 DEF Requests
<1>4. acked' \in Answers
  BY <1>1, <1>2, <1>3 DEF Answers
<1>5. ASSUME ~contended
      PROVE  /\ \A a, b \in InFlight' : a = b
             /\ names' = acked'.names /\ theme' = acked'.theme
             /\ ~torn' /\ \A d \in Callers : pc'[d] \notin {"opening", "writing", "overwriting"}
  <2>1. /\ pc[c] = "writing" /\ \A d \in Callers : d \in InFlight => d = c
        /\ names = acked.names /\ theme = acked.theme
        /\ copy[c] = Edited(req[c]) /\ req[c].op \notin {"start", "stop"}
    BY <1>1, <1>5 DEF AloneInv, InFlight
  <2>2. \A d \in Callers : d # c => pc[d] \in {"idle", "ok", "error", "killed"} /\ pc'[d] = pc[d]
    BY <1>1, <2>1 DEF InFlight, WrittenOver
  <2>3. pc'[c] \in {"storing", "dropping", "ok"}
    BY <1>1 DEF WrittenOver, AfterWrite
  <2>4. (\A a, b \in InFlight' : a = b)
    BY <2>2 DEF InFlight
  <2>5. copy[c].names = NextNames(req[c])
        /\ copy[c].theme = IF req[c].op = "prefs" THEN req[c].theme ELSE theme
    BY <2>1 DEF Edited
  <2>6. names' = acked'.names /\ theme' = acked'.theme
    <3>1. CASE req[c].op = "prefs"
      BY <1>1, <1>2, <2>1, <2>5, <3>1 DEF NextNames, Answers
    <3>2. CASE req[c].op \in {"edit", "import", "delete"}
      <4>1. acked' = [acked EXCEPT !.names = [@ EXCEPT ![req[c].p] = copy[c].names[req[c].p]]]
        BY <1>1, <3>2
      <4>2. acked'.names = [names EXCEPT ![req[c].p] = copy[c].names[req[c].p]]
            /\ acked'.theme = theme
        BY <1>2, <2>1, <4>1 DEF Answers
      <4>3. \E v : copy[c].names = [names EXCEPT ![req[c].p] = v]
        BY <2>5, <3>2 DEF NextNames
      <4>4. [names EXCEPT ![req[c].p] = copy[c].names[req[c].p]] = copy[c].names
        BY <1>2, <1>3, <3>2, <4>3
      <4>5. QED
        BY <1>1, <2>5, <3>2, <4>2, <4>4
    <3>3. CASE req[c].op \notin {"prefs", "edit", "import", "delete"}
      BY <1>1, <2>1, <2>5, <3>3 DEF NextNames
    <3>4. QED
      BY <3>1, <3>2, <3>3
  <2>7. ~torn'
    BY <1>1, <2>1 DEF At
  <2>8. QED
    BY <2>2, <2>3, <2>4, <2>6, <2>7
<1>6. QED
  BY <1>1, <1>4, <1>5 DEF AloneInv

\* A step that leaves the file, the answers about it and the copies alone, and
\* moves one call on, neither to a write nor from one.
LEMMA AloneKept ==
    ASSUME AloneInv, NEW c \in InFlight, acked' \in Answers,
           UNCHANGED <<names, active, theme, torn, req, contended>>,
           acked'.names = acked.names, acked'.theme = acked.theme,
           NEW s \in Stages \ {"idle", "killed", "writing", "overwriting"},
           pc' = [pc EXCEPT ![c] = s], pc[c] \notin {"writing", "overwriting"},
           pc \in [Callers -> Stages],
           s # "opening" => copy' = copy,
           s = "opening" => /\ copy' = [copy EXCEPT ![c] = Edited(req[c])]
                            /\ req[c].op \notin {"start", "stop"},
           copy \in [Callers -> Configs]
    PROVE  AloneInv'
<1>1. c \in Callers
  BY DEF InFlight
<1>2. \A d \in Callers : pc'[d] = IF d = c THEN s ELSE pc[d]
  BY <1>1
<1>3. InFlight' \subseteq InFlight
  BY <1>2 DEF InFlight
<1>4. \A d \in Callers : Edited(req[d])' = Edited(req[d])
  BY DEF Edited, NextNames, NextActive
<1>5. \A d \in Callers : copy'[d] = IF d = c /\ s = "opening" THEN Edited(req[c]) ELSE copy[d]
  BY <1>1
<1>6. ASSUME ~contended
      PROVE  /\ \A a, b \in InFlight' : a = b
             /\ names' = acked'.names /\ theme' = acked'.theme
             /\ torn' => \E d \in Callers : pc'[d] = "writing"
             /\ \A d \in Callers : pc'[d] # "overwriting"
    BY <1>1, <1>2, <1>3, <1>6 DEF AloneInv
<1>7. ASSUME ~contended, NEW d \in Callers, pc'[d] \in {"opening", "writing"}
      PROVE  copy'[d] = Edited(req[d]) /\ req[d].op \notin {"start", "stop"}
  <2>1. CASE d = c
    BY <1>1, <1>2, <1>5, <1>7, <2>1
  <2>2. CASE d # c
    BY <1>2, <1>5, <1>7, <2>2 DEF AloneInv
  <2>3. QED
    BY <2>1, <2>2
<1>8. QED
  BY <1>4, <1>6, <1>7 DEF AloneInv

\* Every step keeps the answers true, or is one of calls that overlap, or cuts
\* a write short.
LEMMA AloneStep ==
    ASSUME SoundInv, TypeOK, Asked, AloneInv, [Next]_vars
    PROVE  AloneInv'
<1> pc \in [Callers -> Stages]
  BY DEF TypeOK
<1>1. ASSUME NEW p, NEW value, KeyringSets(p, value) \/ KeyringFails, value \in AllSecrets \cup {Blank}
      PROVE  acked' \in Answers /\ acked'.names = acked.names /\ acked'.theme = acked.theme
  BY <1>1 DEF KeyringSets, KeyringFails, AloneInv, Answers
<1>2. ASSUME NEW c \in Callers
      PROVE  /\ req[c] \in Requests /\ copy \in [Callers -> Configs] /\ acked \in Answers
             /\ pc \in [Callers -> Stages]
             /\ req[c].op \in {"edit", "start"} => req[c].secret \in AllSecrets \cup {Blank}
  BY DEF SoundInv, AloneInv, Requests, AllSecrets, TypeOK
<1>3. ASSUME NEW c \in Callers, Begins(c)
      PROVE  AloneInv'
  <2>1. /\ UNCHANGED <<names, theme, torn, copy, acked>> /\ contended' = (contended \/ ~Quiet)
        /\ \E s \in {"checking", "copying", "loading"} : pc' = [pc EXCEPT ![c] = s]
    BY <1>3 DEF Begins, Goto, file
  <2>2. ~contended' => InFlight = {} /\ InFlight' \subseteq {c}
    BY <2>1 DEF Quiet, InFlight
  <2>3. ~contended' => \A d \in Callers : pc[d] \in {"idle", "ok", "error", "killed"}
    BY <2>2 DEF InFlight
  <2>4. ~contended' => \A d \in Callers : pc'[d] \notin {"opening", "writing", "overwriting"}
    BY <2>1, <2>3
  <2>5. ~contended' => ~torn
    BY <2>1, <2>3 DEF AloneInv
  <2>6. QED
    BY <2>1, <2>2, <2>4, <2>5 DEF AloneInv
<1>4. ASSUME NEW c \in Callers, WriteFails(c)
      PROVE  AloneInv'
  BY <1>4 DEF WriteFails, AloneInv, file
<1>5. CASE Killed
  BY <1>5 DEF Killed, AloneInv
<1>6. CASE UNCHANGED vars
  <2>1. UNCHANGED InFlight /\ \A c \in Callers : Edited(req[c])' = Edited(req[c])
    BY <1>6 DEF vars, file, InFlight, Edited, NextNames, NextActive
  <2>2. QED
    BY <1>6, <2>1 DEF vars, file, history, AloneInv
<1>7. ASSUME NEW c \in Callers, Opens(c)
      PROVE  AloneInv'
  <2>1. c \in InFlight /\ pc[c] = "opening"
    BY <1>7 DEF Opens, At, InFlight
  <2>2. /\ UNCHANGED <<names, active, theme, req, copy, acked, contended>>
        /\ \/ torn' = TRUE /\ pc' = [pc EXCEPT ![c] = "writing"]
           \/ torn' = torn /\ pc' = [pc EXCEPT ![c] = "error"]
    BY <1>7 DEF Opens, Goto
  <2>3. InFlight' \subseteq InFlight
    BY <2>1, <2>2 DEF InFlight
  <2>4. \A d \in Callers : Edited(req[d])' = Edited(req[d])
    BY <2>2 DEF Edited, NextNames, NextActive
  <2>5. pc'[c] \in {"writing", "error"} /\ \A d \in Callers : d # c => pc'[d] = pc[d]
    BY <2>2
  <2>6. \A d \in Callers : pc'[d] \in {"opening", "writing"} => pc[d] \in {"opening", "writing"}
    BY <2>1, <2>5
  <2>7. torn' /\ ~contended => \E d \in Callers : pc'[d] = "writing"
    BY <2>1, <2>2, <2>5 DEF AloneInv
  <2>8. QED
    BY <2>2, <2>3, <2>4, <2>5, <2>6, <2>7 DEF AloneInv
<1>8. ASSUME NEW c \in Callers, Step(c), ~Opens(c), ~Writes(c), ~WriteFails(c)
      PROVE  AloneInv'
  <2>1. /\ c \in InFlight /\ pc[c] \notin {"writing", "overwriting"}
        /\ UNCHANGED <<names, active, theme, torn, req, contended>>
    BY <1>8 DEF Step, DeleteChecks, ImportCopies, Loads, StartLoads, StopsActive, EditStores,
       DeleteDrops, StartResolves, StartStarts, At, InFlight, file, history
  <2>2. acked' \in Answers /\ acked'.names = acked.names /\ acked'.theme = acked.theme
    <3>1. CASE UNCHANGED acked
      BY <3>1, <1>2
    <3>2. CASE ImportCopies(c)
      <4>1. UNCHANGED acked \/ KeyringSets(req[c].p, LegacySecret) \/ KeyringFails
        BY <3>2 DEF ImportCopies
      <4>2. LegacySecret \in AllSecrets \cup {Blank}
        BY DEF AllSecrets
      <4>3. QED
        BY <4>1, <4>2, <1>1, <3>1
    <3>3. CASE EditStores(c)
      <4>1. KeyringSets(req[c].p, req[c].secret) \/ KeyringFails
        BY <3>3 DEF EditStores
      <4>2. req[c].secret \in AllSecrets \cup {Blank}
        BY <1>2, <3>3 DEF EditStores, At, Asked
      <4>3. QED
        BY <4>1, <4>2, <1>1
    <3>4. CASE DeleteDrops(c)
      BY <3>4, <1>1 DEF DeleteDrops
    <3>5. CASE StartResolves(c)
      <4>1. req[c].secret \in AllSecrets \cup {Blank}
        BY <3>5, <1>2 DEF StartResolves, At, Asked
      <4>2. UNCHANGED acked \/ KeyringSets(req[c].p, req[c].secret) \/ KeyringFails
        BY <3>5 DEF StartResolves
      <4>3. QED
        BY <4>1, <4>2, <1>1, <3>1
    <3>6. QED
      BY <1>8, <3>1, <3>2, <3>3, <3>4, <3>5 DEF Step, DeleteChecks, Loads, StartLoads, StopsActive,
         StartStarts, history
  <2>3. CASE Loads(c)
    <3>1. \/ copy' = [copy EXCEPT ![c] = Edited(req[c])] /\ pc' = [pc EXCEPT ![c] = "opening"]
             /\ req[c].op \notin {"start", "stop"}
          \/ copy' = copy /\ pc' = [pc EXCEPT ![c] = "error"]
      BY <2>3 DEF Loads, Goto
    <3>2. CASE copy' = [copy EXCEPT ![c] = Edited(req[c])] /\ pc' = [pc EXCEPT ![c] = "opening"]
               /\ req[c].op \notin {"start", "stop"}
      BY <2>1, <2>2, <1>2, <3>2, AloneKept DEF Stages
    <3>3. CASE copy' = copy /\ pc' = [pc EXCEPT ![c] = "error"]
      BY <2>1, <2>2, <1>2, <3>3, AloneKept DEF Stages
    <3>4. QED
      BY <3>1, <3>2, <3>3
  <2>4. CASE ~Loads(c)
    <3>1. PICK s \in Stages \ {"idle", "killed", "writing", "overwriting", "opening"} :
              pc' = [pc EXCEPT ![c] = s] /\ copy' = copy
      BY <1>8, <2>4 DEF Step, DeleteChecks, ImportCopies, StartLoads, StopsActive, EditStores,
         DeleteDrops, StartResolves, StartStarts, Goto, Stages
    <3>2. QED
      BY <2>1, <2>2, <1>2, <3>1, AloneKept
  <2>5. QED
    BY <2>3, <2>4
<1>9. QED
  BY <1>3, <1>4, <1>5, <1>6, <1>7, <1>8, WriteAnswers DEF Next

\* Every variable keeps its type.
THEOREM TypeCorrect == Spec => []TypeOK
<1>1. AloneInv' => acked' \in Answers
  BY DEF AloneInv
<1>2. QED
  BY <1>1, SoundInit, TypeInit, AloneInit, SoundStep, AloneStep, TypeStep, PTL DEF Spec

\* Between calls that did not overlap and were not cut short the file holds
\* what their answers said: AnswersKept in every state.
THEOREM AnswersAreKept == Spec => []AnswersKept
<1>1. AloneInv => AnswersKept
  <2> SUFFICES ASSUME AloneInv, ~contended, Quiet
               PROVE  ~torn /\ names = acked.names /\ theme = acked.theme
    BY DEF AnswersKept
  <2>1. \A c \in Callers : pc[c] # "writing"
    BY DEF Quiet, InFlight
  <2>2. QED
    BY <2>1 DEF AloneInv
<1>2. AloneInv' => acked' \in Answers
  BY DEF AloneInv
<1>3. QED
  BY <1>1, <1>2, SoundInit, TypeInit, AloneInit, SoundStep, AloneStep, TypeStep, PTL DEF Spec

-----------------------------------------------------------------------------
(* The keyring of calls that do not overlap, while nothing fails. *)

\* The call has yet to save the profile of a secret, or to drop the secret.
HoldsFor(c, p) ==
    \/ req[c].op = "import" /\ req[c].p = p /\ pc[c] \in {"loading", "opening", "writing"}
    \/ req[c].op = "delete" /\ req[c].p = p /\ pc[c] = "dropping"

\* The keyring is what the answers said, whatever happens. Of calls that are
\* alone, the one in flight knows of every secret without a profile, stores one
\* only for a profile it has saved or found, and starts with the one it found.
SecretInv ==
    /\ keyring = acked.secrets
    /\ \A c \in Callers :
        /\ pc[c] = "copying" => req[c].op = "import"
        /\ pc[c] = "dropping" => req[c].op = "delete"
    /\ ~contended /\ ~failed =>
        /\ \A p \in Profiles :
               keyring[p] # Blank => names[p] # NoName \/ \E c \in Callers : HoldsFor(c, p)
        /\ \A c \in Callers :
            /\ pc[c] \in {"storing", "resolving"} => names[req[c].p] # NoName
            /\ pc[c] = "starting" => chosen[c] = keyring[req[c].p]

\* No secret is stored at first.
LEMMA SecretInit == Init => SecretInv
BY DEF Init, SecretInv

\* What one step does to the calls it does not belong to, and to its own.
LEMMA StepMoves ==
    ASSUME SoundInv, TypeOK, Asked, AloneInv, SecretInv, NEW c \in Callers, Step(c)
    PROVE  /\ req' = req /\ (contended => contended') /\ (failed => failed')
           /\ c \in InFlight
           /\ ~contended => \A d \in Callers : d # c => pc[d] \in {"idle", "ok", "error", "killed"} /\ pc'[d] = pc[d]
           /\ pc'[c] # "copying"
           /\ \A d \in Callers : d # c => pc'[d] \in {pc[d], "overwriting"}
<1>1. c \in InFlight
  BY DEF Step, DeleteChecks, ImportCopies, Loads, StartLoads, StopsActive, Opens, Writes, WriteFails,
     EditStores, DeleteDrops, StartResolves, StartStarts, At, InFlight
<1>b. req' = req /\ (contended' = contended \/ contended' = TRUE) /\ (failed' = failed \/ failed' = TRUE)
  BY DEF Step, DeleteChecks, ImportCopies, Loads, StartLoads, StopsActive, Opens, Writes, WriteFails,
     EditStores, DeleteDrops, StartResolves, StartStarts, KeyringSets, KeyringFails, history
<1>2. req' = req /\ (contended => contended') /\ (failed => failed')
  <2>1. contended => contended'
    <3>1. CASE contended' = contended
      BY <3>1
    <3>2. CASE contended' = TRUE
      BY <3>2
    <3>3. QED
      BY <1>b, <3>1, <3>2
  <2>2. failed => failed'
    <3>1. CASE failed' = failed
      BY <3>1
    <3>2. CASE failed' = TRUE
      BY <3>2
    <3>3. QED
      BY <1>b, <3>1, <3>2
  <2>3. QED
    BY <1>b, <2>1, <2>2
<1>3. pc \in [Callers -> Stages]
  BY DEF TypeOK
<1>4. \/ \E s \in Stages : pc' = [pc EXCEPT ![c] = s] /\ s # "copying"
      \/ pc' = WrittenOver(c)
  BY DEF Step, DeleteChecks, ImportCopies, Loads, StartLoads, StopsActive, Opens, Writes, WriteFails,
     EditStores, DeleteDrops, StartResolves, StartStarts, Goto, Stages
<1>5. /\ pc'[c] # "copying"
      /\ \A d \in Callers : d # c => pc'[d] = pc[d] \/ (pc[d] = "writing" /\ pc'[d] = "overwriting")
  <2>1. CASE pc' = WrittenOver(c)
    <3>1. \A d \in Callers : pc'[d] = IF d = c THEN AfterWrite(c)
                                     ELSE IF pc[d] = "writing" THEN "overwriting" ELSE pc[d]
      BY <2>1 DEF WrittenOver
    <3>2. QED
      BY <3>1 DEF AfterWrite
  <2>2. CASE \E s \in Stages : pc' = [pc EXCEPT ![c] = s] /\ s # "copying"
    BY <1>3, <2>2
  <2>3. QED
    BY <1>4, <2>1, <2>2
<1>6. ~contended => \A d \in Callers : d # c => pc[d] \in {"idle", "ok", "error", "killed"}
  BY <1>1 DEF AloneInv, InFlight
<1>7. ~contended => \A d \in Callers : d # c => pc'[d] = pc[d]
  BY <1>5, <1>6
<1>8. QED
  BY <1>1, <1>2, <1>5, <1>6, <1>7

\* The answers speak of the keyring as it is, and of the requests of the calls.
LEMMA AnswersOfKeyring ==
    ASSUME SoundInv, TypeOK, Asked, AloneInv, SecretInv, NEW c \in Callers, Step(c)
    PROVE  /\ keyring' = acked'.secrets
           /\ \A d \in Callers : /\ pc'[d] = "copying" => req'[d].op = "import"
                                 /\ pc'[d] = "dropping" => req'[d].op = "delete"
<1>1. /\ req' = req /\ pc'[c] # "copying"
      /\ \A d \in Callers : d # c => pc'[d] \in {pc[d], "overwriting"}
  BY StepMoves
<1>2. keyring = acked.secrets /\ acked \in Answers
  BY DEF SecretInv, AloneInv
<1>3. pc \in [Callers -> Stages]
  BY DEF TypeOK
<1>4. pc'[c] = "dropping" => req[c].op = "delete"
  <2>1. CASE Writes(c)
    <3>1. pc'[c] = AfterWrite(c)
      BY <2>1 DEF Writes, WrittenOver
    <3>2. QED
      BY <3>1 DEF AfterWrite
  <2>2. CASE ~Writes(c)
    BY <1>3, <2>2 DEF Step, DeleteChecks, ImportCopies, Loads, StartLoads, StopsActive, Opens, WriteFails,
       EditStores, DeleteDrops, StartResolves, StartStarts, Goto
  <2>3. QED
    BY <2>1, <2>2
<1>5. \A p, v : KeyringSets(p, v) => keyring' = acked'.secrets
  BY <1>2 DEF KeyringSets, Answers
<1>6. KeyringFails => keyring' = acked'.secrets
  BY <1>2 DEF KeyringFails
<1>7. keyring' = acked'.secrets
  <2>1. CASE Writes(c)
    <3>1. keyring' = keyring /\ acked'.secrets = acked.secrets
      BY <1>2, <2>1 DEF Writes, Answers
    <3>2. QED
      BY <1>2, <3>1
  <2>2. CASE ~Writes(c)
    BY <1>2, <1>5, <1>6, <2>2 DEF Step, DeleteChecks, ImportCopies, Loads, StartLoads, StopsActive, Opens,
       WriteFails, EditStores, DeleteDrops, StartResolves, StartStarts, history
  <2>3. QED
    BY <2>1, <2>2
<1>8. QED
  BY <1>1, <1>4, <1>7 DEF SecretInv

\* A call that is alone, and nothing has failed, accounts for the keyring.
LEMMA AloneAccounts ==
    ASSUME SoundInv, TypeOK, Asked, AloneInv, SecretInv, NEW c \in Callers, Step(c), ~contended', ~failed'
    PROVE  /\ \A p \in Profiles : keyring'[p] # Blank => names'[p] # NoName \/ HoldsFor(c, p)'
           /\ pc'[c] \in {"storing", "resolving"} => names'[req[c].p] # NoName
           /\ pc'[c] = "starting" => chosen'[c] = keyring'[req[c].p]
<1>a. /\ req' = req /\ ~contended /\ ~failed /\ c \in InFlight
      /\ ~contended => \A d \in Callers : d # c => pc[d] \in {"idle", "ok", "error", "killed"} /\ pc'[d] = pc[d]
  BY StepMoves
<1>1. /\ req' = req /\ ~contended /\ ~failed /\ c \in InFlight
      /\ \A d \in Callers : d # c => pc[d] \in {"idle", "ok", "error", "killed"}
  BY <1>a
<1>2. /\ pc \in [Callers -> Stages] /\ keyring \in [Profiles -> AllSecrets \cup {Blank}]
      /\ chosen \in [Callers -> AllSecrets \cup {Blank}]
      /\ names \in [Profiles -> AllNames \cup {NoName}] /\ req[c] \in Requests
  BY DEF TypeOK, Configs
<1>3. /\ req[c].op \in {"edit", "start", "activate", "delete", "import"} => req[c].p \in Profiles
      /\ req[c].op = "edit" => req[c].name # NoName
  BY <1>2, ConfigAssumption DEF Requests
<1>4. /\ \A p \in Profiles : keyring[p] # Blank => names[p] # NoName \/ HoldsFor(c, p)
      /\ pc[c] \in {"storing", "resolving"} => names[req[c].p] # NoName
      /\ pc[c] = "starting" => chosen[c] = keyring[req[c].p]
      /\ pc[c] = "copying" => req[c].op = "import"
      /\ pc[c] = "dropping" => req[c].op = "delete"
  BY <1>1 DEF SecretInv, HoldsFor
<1>5. /\ pc[c] # "writing" => ~torn
      /\ pc[c] # "overwriting"
      /\ pc[c] \in {"opening", "writing"} => copy[c] = Edited(req[c]) /\ req[c].op \notin {"start", "stop"}
  BY <1>1 DEF AloneInv
<1>6. CASE DeleteChecks(c)
  BY <1>1, <1>2, <1>4, <1>6 DEF DeleteChecks, At, Goto, file, tunnels, HoldsFor
<1>7. CASE ImportCopies(c)
  <2>1. /\ pc[c] = "copying" /\ UNCHANGED <<names, chosen>> /\ pc' = [pc EXCEPT ![c] = "loading"]
        /\ keyring' = keyring \/ keyring' = [keyring EXCEPT ![req[c].p] = LegacySecret]
    BY <1>7 DEF ImportCopies, At, Goto, KeyringSets, KeyringFails, file
  <2>2. \A p \in Profiles : ~HoldsFor(c, p)
    BY <2>1 DEF HoldsFor
  <2>3. pc'[c] = "loading" /\ req'[c] = req[c] /\ req[c].op = "import"
    BY <1>1, <1>2, <1>4, <2>1
  <2>4. \A p \in Profiles : p = req[c].p => HoldsFor(c, p)'
    BY <2>3 DEF HoldsFor
  <2>5. \A p \in Profiles : p # req[c].p => keyring'[p] = keyring[p]
    BY <1>2, <2>1
  <2>6. QED
    BY <1>4, <2>1, <2>2, <2>3, <2>4, <2>5
<1>8. CASE Loads(c)
  <2>1. /\ pc[c] = "loading" /\ UNCHANGED <<names, keyring, chosen>>
        /\ \/ pc' = [pc EXCEPT ![c] = "opening"]
           \/ ~(Readable /\ Accepts(req[c])) /\ pc' = [pc EXCEPT ![c] = "error"]
    BY <1>8 DEF Loads, At, Goto, file
  <2>2. Readable
    BY <1>5, <2>1 DEF Readable
  <2>3. req[c].op = "import" => pc'[c] = "opening"
    BY <1>2, <2>1, <2>2 DEF Accepts
  <2>4. pc'[c] \in {"opening", "error"}
    BY <1>2, <2>1
  <2>5. \A p \in Profiles : HoldsFor(c, p) => HoldsFor(c, p)'
    BY <1>1, <2>1, <2>3 DEF HoldsFor
  <2>6. QED
    BY <1>4, <2>1, <2>4, <2>5
<1>9. CASE StartLoads(c)
  <2>1. /\ pc[c] = "loading" /\ req[c].op = "start" /\ UNCHANGED <<names, keyring, chosen>>
        /\ \/ pc' = [pc EXCEPT ![c] = "resolving"] /\ req[c].p \in Saved(names)
           \/ pc' = [pc EXCEPT ![c] = "error"]
    BY <1>9 DEF StartLoads, At, Goto, file
  <2>2. \A p \in Profiles : ~HoldsFor(c, p)
    BY <2>1 DEF HoldsFor
  <2>3. QED
    BY <1>2, <1>4, <2>1, <2>2 DEF Saved
<1>10. CASE StopsActive(c)
  <2>1. /\ pc[c] = "loading" /\ req[c].op = "stop" /\ UNCHANGED <<names, keyring, chosen>>
        /\ \E s \in {"ok", "error"} : pc' = [pc EXCEPT ![c] = s]
    BY <1>10 DEF StopsActive, At, Goto, file
  <2>2. \A p \in Profiles : ~HoldsFor(c, p)
    BY <2>1 DEF HoldsFor
  <2>3. QED
    BY <1>2, <1>4, <2>1, <2>2
<1>11. CASE Opens(c)
  <2>1. /\ pc[c] = "opening" /\ UNCHANGED <<names, keyring, chosen>> /\ pc' = [pc EXCEPT ![c] = "writing"]
    BY <1>11 DEF Opens, At, Goto
  <2>2. \A p \in Profiles : HoldsFor(c, p) => HoldsFor(c, p)'
    BY <1>1, <1>2, <2>1 DEF HoldsFor
  <2>3. QED
    BY <1>2, <1>4, <2>1, <2>2
<1>12. CASE Writes(c)
  <2>1. /\ pc[c] = "writing" /\ names' = NextNames(req[c]) /\ UNCHANGED <<keyring, chosen>>
        /\ pc'[c] = AfterWrite(c) /\ req[c].op \notin {"start", "stop"}
    BY <1>5, <1>12 DEF Writes, WrittenOver, Edited
  <2>2. CASE req[c].op = "delete"
    <3>1. pc'[c] = "dropping" /\ names' = [names EXCEPT ![req[c].p] = NoName]
      BY <2>1, <2>2 DEF AfterWrite, NextNames
    <3>2. \A p \in Profiles : p = req[c].p => HoldsFor(c, p)'
      BY <1>1, <2>2, <3>1 DEF HoldsFor
    <3>3. \A p \in Profiles : ~HoldsFor(c, p)
      BY <2>1, <2>2 DEF HoldsFor
    <3>4. QED
      BY <1>2, <1>4, <2>1, <3>1, <3>2, <3>3
  <2>3. CASE req[c].op = "import"
    <3>1. pc'[c] = "ok" /\ names' = [names EXCEPT ![req[c].p] = Imported]
      BY <2>1, <2>3 DEF AfterWrite, NextNames
    <3>2. \A p \in Profiles : HoldsFor(c, p) => p = req[c].p
      BY DEF HoldsFor
    <3>3. QED
      BY <1>2, <1>4, <2>1, <3>1, <3>2, ConfigAssumption
  <2>4. CASE req[c].op = "edit"
    <3>1. pc'[c] \in {"storing", "ok"} /\ names' = [names EXCEPT ![req[c].p] = req[c].name]
      BY <2>1, <2>4 DEF AfterWrite, NextNames
    <3>2. \A p \in Profiles : ~HoldsFor(c, p)
      BY <2>4 DEF HoldsFor
    <3>3. names'[req[c].p] # NoName
      BY <1>2, <1>3, <2>4, <3>1
    <3>4. QED
      BY <1>2, <1>4, <2>1, <3>1, <3>2, <3>3
  <2>5. CASE req[c].op \notin {"delete", "import", "edit"}
    <3>1. pc'[c] = "ok" /\ names' = names
      BY <2>1, <2>5 DEF AfterWrite, NextNames
    <3>2. \A p \in Profiles : ~HoldsFor(c, p)
      BY <2>5 DEF HoldsFor
    <3>3. QED
      BY <1>4, <2>1, <3>1, <3>2
  <2>6. QED
    BY <2>2, <2>3, <2>4, <2>5
<1>13. CASE WriteFails(c)
  BY <1>13 DEF WriteFails
<1>14. CASE EditStores(c)
  <2>1. /\ pc[c] = "storing" /\ UNCHANGED <<names, chosen>> /\ pc' = [pc EXCEPT ![c] = "ok"]
        /\ keyring' = [keyring EXCEPT ![req[c].p] = req[c].secret]
    BY <1>14 DEF EditStores, At, Goto, KeyringSets, KeyringFails, file
  <2>2. \A p \in Profiles : ~HoldsFor(c, p)
    BY <2>1 DEF HoldsFor
  <2>3. \A p \in Profiles : p # req[c].p => keyring'[p] = keyring[p]
    BY <1>2, <2>1
  <2>4. pc'[c] = "ok"
    BY <1>2, <2>1
  <2>5. QED
    BY <1>4, <2>1, <2>2, <2>3, <2>4
<1>15. CASE DeleteDrops(c)
  <2>1. /\ pc[c] = "dropping" /\ req[c].op = "delete" /\ UNCHANGED <<names, chosen>>
        /\ pc' = [pc EXCEPT ![c] = "ok"] /\ keyring' = [keyring EXCEPT ![req[c].p] = Blank]
    BY <1>4, <1>15 DEF DeleteDrops, At, Goto, KeyringSets, KeyringFails, file
  <2>2. \A p \in Profiles : HoldsFor(c, p) => p = req[c].p
    BY DEF HoldsFor
  <2>3. \A p \in Profiles : keyring'[p] = IF p = req[c].p THEN Blank ELSE keyring[p]
    BY <1>2, <2>1
  <2>4. pc'[c] = "ok"
    BY <1>2, <2>1
  <2>5. QED
    BY <1>4, <2>1, <2>2, <2>3, <2>4
<1>16. CASE StartResolves(c)
  <2>1. /\ pc[c] = "resolving" /\ req[c].op = "start" /\ UNCHANGED names
        /\ pc' = [pc EXCEPT ![c] = "starting"]
        /\ \/ /\ keyring' = [keyring EXCEPT ![req[c].p] = req[c].secret]
              /\ chosen' = [chosen EXCEPT ![c] = req[c].secret]
           \/ keyring' = keyring /\ chosen' = [chosen EXCEPT ![c] = keyring[req[c].p]]
    BY <1>16 DEF StartResolves, At, Goto, KeyringSets, KeyringFails, file, Asked
  <2>2. \A p \in Profiles : ~HoldsFor(c, p)
    BY <2>1 DEF HoldsFor
  <2>3. \A p \in Profiles : p # req[c].p => keyring'[p] = keyring[p]
    BY <1>2, <2>1
  <2>4. pc'[c] = "starting" /\ chosen'[c] = keyring'[req[c].p]
    BY <1>2, <1>3, <2>1
  <2>5. QED
    BY <1>4, <2>1, <2>2, <2>3, <2>4
<1>17. CASE StartStarts(c)
  <2>1. /\ pc[c] = "starting" /\ UNCHANGED <<names, keyring, chosen>>
        /\ \E s \in {"ok", "error"} : pc' = [pc EXCEPT ![c] = s]
    BY <1>17 DEF StartStarts, At, Goto, file
  <2>2. \A p \in Profiles : ~HoldsFor(c, p)
    BY <2>1 DEF HoldsFor
  <2>3. QED
    BY <1>2, <1>4, <2>1, <2>2
<1>18. QED
  BY <1>6, <1>7, <1>8, <1>9, <1>10, <1>11, <1>12, <1>13, <1>14, <1>15, <1>16, <1>17 DEF Step

\* Every step keeps the account of the keyring.
LEMMA SecretStep ==
    ASSUME SoundInv, TypeOK, Asked, AloneInv, SecretInv, [Next]_vars
    PROVE  SecretInv'
<1> pc \in [Callers -> Stages]
  BY DEF TypeOK
<1>1. ASSUME NEW c \in Callers, Begins(c)
      PROVE  SecretInv'
  <2>1. PICK r \in Requests, s \in {"checking", "copying", "loading"} :
            /\ req' = [req EXCEPT ![c] = r] /\ pc' = [pc EXCEPT ![c] = s]
            /\ s = "copying" => r.op = "import"
    BY <1>1 DEF Begins, Goto
  <2>2. /\ UNCHANGED <<names, keyring, chosen, acked, failed>> /\ contended' = (contended \/ ~Quiet)
        /\ req \in [Callers -> Requests]
    BY <1>1 DEF Begins, file, SoundInv
  <2>3. \A d \in Callers : d # c => pc'[d] = pc[d] /\ req'[d] = req[d]
    BY <2>1, <2>2
  <2>4. pc'[c] = s /\ req'[c] = r
    BY <2>1, <2>2
  <2>5. ASSUME ~contended', ~failed'
        PROVE  \A d \in Callers : pc[d] \in {"idle", "ok", "error", "killed"}
    BY <2>2, <2>5 DEF Quiet, InFlight
  <2>6. ASSUME ~contended', ~failed'
        PROVE  /\ \A p \in Profiles : keyring'[p] # Blank => names'[p] # NoName
               /\ \A d \in Callers : pc'[d] \notin {"storing", "resolving", "starting"}
    BY <2>2, <2>3, <2>4, <2>5, <2>6 DEF SecretInv, HoldsFor
  <2>7. \A d \in Callers : /\ pc'[d] = "copying" => req'[d].op = "import"
                           /\ pc'[d] = "dropping" => req'[d].op = "delete"
    BY <2>1, <2>3, <2>4 DEF SecretInv
  <2>8. QED
    BY <2>2, <2>6, <2>7 DEF SecretInv
<1>2. CASE Killed
  <2>1. contended' /\ UNCHANGED <<keyring, acked, req>>
    BY <1>2 DEF Killed
  <2>2. \A d \in Callers : pc'[d] \in {pc[d], "killed"}
    BY <1>2 DEF Killed
  <2>3. QED
    BY <2>1, <2>2 DEF SecretInv
<1>3. CASE UNCHANGED vars
  BY <1>3 DEF vars, file, history, SecretInv, HoldsFor
<1>4. ASSUME NEW c \in Callers, Step(c)
      PROVE  SecretInv'
  <2>1. /\ keyring' = acked'.secrets
        /\ \A d \in Callers : /\ pc'[d] = "copying" => req'[d].op = "import"
                              /\ pc'[d] = "dropping" => req'[d].op = "delete"
    BY <1>4, AnswersOfKeyring
  <2>2. ASSUME ~contended', ~failed'
        PROVE  /\ \A p \in Profiles : keyring'[p] # Blank => names'[p] # NoName \/ HoldsFor(c, p)'
               /\ pc'[c] \in {"storing", "resolving"} => names'[req'[c].p] # NoName
               /\ pc'[c] = "starting" => chosen'[c] = keyring'[req'[c].p]
               /\ \A d \in Callers : d # c => pc'[d] \notin {"storing", "resolving", "starting"}
    <3>1. /\ \A p \in Profiles : keyring'[p] # Blank => names'[p] # NoName \/ HoldsFor(c, p)'
          /\ pc'[c] \in {"storing", "resolving"} => names'[req[c].p] # NoName
          /\ pc'[c] = "starting" => chosen'[c] = keyring'[req[c].p]
      BY <1>4, <2>2, AloneAccounts
    <3>2. /\ req' = req /\ ~contended
          /\ ~contended => \A d \in Callers : d # c => pc[d] \in {"idle", "ok", "error", "killed"} /\ pc'[d] = pc[d]
      BY <1>4, <2>2, StepMoves
    <3>3. QED
      BY <3>1, <3>2
  <2>3. QED
    BY <2>1, <2>2 DEF SecretInv
<1>5. QED
  BY <1>1, <1>2, <1>3, <1>4 DEF Next

\* The inductive invariant of the store.
StoreInv == SoundInv /\ TypeOK /\ Asked /\ AloneInv /\ SecretInv

\* It holds at first, and every step keeps it.
LEMMA StoreInductive ==
    /\ Init => StoreInv
    /\ StoreInv /\ [Next]_vars => StoreInv'
<1>1. AloneInv' => acked' \in Answers
  BY DEF AloneInv
<1>2. Init => StoreInv
  BY SoundInit, TypeInit, AloneInit, SecretInit DEF StoreInv
<1>3. ASSUME StoreInv, [Next]_vars PROVE StoreInv'
  BY <1>1, <1>3, SoundStep, AloneStep, TypeStep, SecretStep DEF StoreInv
<1>4. QED
  BY <1>2, <1>3

\* Between calls that did not overlap, were not cut short and had no failure, no
\* secret outlives its profile: NoOrphanSecrets in every state.
THEOREM SecretsHaveProfiles == Spec => []NoOrphanSecrets
<1>1. StoreInv => NoOrphanSecrets
  <2> SUFFICES ASSUME StoreInv, ~contended, ~failed, Quiet, NEW p \in Profiles, keyring[p] # Blank
               PROVE  names[p] # NoName
    BY DEF NoOrphanSecrets
  <2>1. \A c \in Callers : ~HoldsFor(c, p)
    BY DEF Quiet, InFlight, HoldsFor
  <2>2. QED
    BY <2>1 DEF StoreInv, SecretInv
<1>2. QED
  BY <1>1, StoreInductive, PTL DEF Spec

\* A tunnel is started with the secret that was last given for its profile, as
\* long as calls do not overlap and the keyring works.
THEOREM StartedAsAnswered == Spec => []StartedWithItsSecret
<1>1. StoreInv => StartedWithItsSecret
  BY DEF StoreInv, SecretInv, StartedWithItsSecret, At
<1>2. QED
  BY <1>1, StoreInductive, PTL DEF Spec
===============================================================================
