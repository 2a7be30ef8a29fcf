-------------------------- MODULE ProvisionProofs --------------------------
(* Provision's safety properties for any set of installations, and that its *)
(* five writes implement the atomic replacement of Install, its fairness    *)
(* apart. The argument is mutual exclusion and what it protects: whoever    *)
(* holds the mutex works on a copy of the profile that nobody else changes, *)
(* and nobody who could change a token is at work while it is replaced.     *)
EXTENDS Provision, TLAPS

Changing  == {"clear", "save", "check", "cover", "handover"}
Replacing == {"mark", "empty", "token", "profile", "complete"}
Copying   == Changing \cup {"forget", "store"}
Holding   == Copying \cup Replacing
UsbSteps  == {"idle", "load", "acquire", "wait", "validate", "exclude", "wifi", "reboot"} \cup Holding
WebSteps  == {"idle", "acquire"} \cup Changing

Profiles  == [owner : Someone, disabled : BOOLEAN, version : {1, 2}]
NvsType   == [marker : BOOLEAN, profile : Profiles, token : Someone, journal : Someone]
RamType   == [provisioning : BOOLEAN, busy : BOOLEAN, fault : BOOLEAN, ready : BOOLEAN,
              disabled : BOOLEAN, inhibited : BOOLEAN, pending : {"none", "off", "auto"}]
TaskType  == [pc : UsbSteps, op : {"off", "auto", "provision", "wifi"}, current : BOOLEAN,
              read : BOOLEAN, profile : Profiles, owner : Someone]
OtherTypes ==
    /\ mutex \in Holders \cup {Nobody}
    /\ worker \in [pc : {"off", "init", "idle", "about", "claimed", "busy"}, owner : Someone]
    /\ storage \in [pc : {"idle", "lock", "save"}, current : BOOLEAN, clear : BOOLEAN]
    /\ setup \in [pc : {"load", "recover", "configure", "online", "offline", "stopped"},
                  current : BOOLEAN, profile : Profiles]
    /\ migrating \in BOOLEAN /\ stopped \in BOOLEAN

TypeInv == nvs \in NvsType /\ ram \in RamType /\ task \in [Tasks -> TaskType] /\ OtherTypes

\* Who is between taking the mutex and giving it back is its holder.
Exclusion ==
    /\ \A t \in Tasks : task[t].pc \in Holding => mutex = t
    /\ storage.pc = "save" => mutex = Worker
    /\ migrating => mutex = Login

\* What each task may be at, and for whom.
Roles ==
    /\ task[Web].pc \in WebSteps /\ task[Web].op \in {"off", "auto"}
    /\ task[Usb].op # "auto"
    /\ task[Usb].op = "provision" => task[Usb].owner \in Incoming
    /\ task[Usb].op # "provision" => task[Usb].owner = Nobody
    /\ task[Usb].pc \in {"validate", "exclude"} \cup Replacing => task[Usb].op = "provision"
    /\ task[Usb].pc = "idle" <=> task[Usb].op = "off"

\* The copy that a holder works on is of the profile in flash.
Copy(t) ==
    /\ task[t].pc \in Copying => /\ task[t].profile.owner = nvs.profile.owner
                                 /\ task[t].profile.version = nvs.profile.version
    /\ task[t].pc \in {"clear", "save", "check", "handover"} =>
           task[t].profile.disabled = (task[t].op # "auto")
    /\ task[t].pc \in {"cover", "forget", "store"} => task[t].profile.disabled
    /\ task[t].pc \in {"check", "handover"} => nvs.profile = task[t].profile

Copies == \A t \in Tasks : Copy(t)

\* From begin_provision on no AUTO that is in flight has a generation left.
Stop ==
    /\ task[Usb].pc # "idle" => ram.provisioning
    /\ ram.provisioning => /\ ram.disabled /\ ram.pending # "auto" /\ ~setup.current
                           /\ task[Web].op = "auto" => ~task[Web].current

\* Flash says DISABLED, and no task would write anything else.
Safe ==
    /\ nvs.marker \/ nvs.profile.disabled
    /\ task[Web].op = "auto" => task[Web].pc \in {"idle", "acquire"} /\ ~task[Web].current

Revival == stopped \/ (task[Usb].pc = "wait" /\ task[Usb].read) => Safe

\* How far a replacement has come.
Progress ==
    LET usb == task[Usb]
    IN /\ usb.pc \in Replacing \ {"mark"} => nvs.marker
       /\ usb.pc \in {"token", "profile", "complete"} => nvs.journal = Nobody
       /\ usb.pc \in {"profile", "complete"} => nvs.token = usb.owner
       /\ usb.pc = "complete" => nvs.profile.owner = usb.owner /\ nvs.profile.disabled

\* The worker holds the token in flash whenever it may still store another.
Chain ==
    /\ task[Usb].pc \in Replacing => worker.pc # "busy"
    /\ worker.pc \in {"claimed", "busy"} => ram.busy
    /\ worker.pc = "busy" => worker.owner = nvs.token
    /\ ~ram.provisioning /\ worker.pc \notin {"off", "init"} => worker.owner = nvs.token

Whole ==
    nvs.marker \/ (nvs.token = nvs.profile.owner /\ nvs.journal \in {Nobody, nvs.profile.owner})

IInv ==
    /\ TypeInv /\ Exclusion /\ Roles /\ Copies
    /\ Stop /\ Revival /\ Progress /\ Chain /\ Whole
-----------------------------------------------------------------------------
(* The tasks that change no command: worker, storage, login, setup.         *)

LEMMA Distinct ==
  /\ Usb \in Tasks /\ Web \in Tasks /\ Usb # Web /\ Tasks = {Web, Usb}
  /\ Worker \notin Tasks /\ Login \notin Tasks /\ Worker # Login
  /\ Nobody \notin Tasks /\ Nobody # Worker /\ Nobody # Login /\ Nobody \notin Incoming
  /\ Incoming \subseteq Someone /\ Nobody \in Someone /\ Present \subseteq Someone
  /\ Tasks \subseteq Holders /\ Worker \in Holders /\ Login \in Holders
  BY ProvisionAssumption DEF Tasks, Holders, Owners, Someone

\* A step that leaves the records and the commands alone.
LEMMA Frame ==
  ASSUME IInv, UNCHANGED <<nvs, task, stopped>>
  PROVE  Roles' /\ Copies' /\ Progress' /\ Whole' /\ Revival'
  BY DEF IInv, Roles, Copies, Copy, Progress, Whole, Revival, Safe

LEMMA WorkerStep == IInv /\ (Look \/ Claim \/ Recheck \/ Operate \/ Initialize) => IInv'
<1> SUFFICES ASSUME IInv, Look \/ Claim \/ Recheck \/ Operate \/ Initialize PROVE IInv'
  OBVIOUS
<1> USE DEF IInv
<1>1. CASE Look
  <2>1. /\ UNCHANGED <<nvs, mutex, ram, storage, setup, task, migrating, stopped>>
        /\ worker.pc = "idle" /\ worker' = [worker EXCEPT !.pc = "about"]
    BY <1>1 DEF Look, Others
  <2>2. TypeInv' /\ Exclusion'
    BY <2>1 DEF TypeInv, OtherTypes, Exclusion
  <2>3. Stop' /\ Chain'
    BY <2>1 DEF Stop, Chain, TypeInv, OtherTypes
  <2>4. QED
    BY <2>1, <2>2, <2>3, Frame
<1>2. CASE Claim
  <2>1. /\ UNCHANGED <<nvs, mutex, storage, setup, task, migrating, stopped>>
        /\ worker.pc = "about" /\ worker' = [worker EXCEPT !.pc = "claimed"]
        /\ ram' = [ram EXCEPT !.busy = TRUE]
    BY <1>2 DEF Claim, Flag, Others
  <2>2. TypeInv' /\ Exclusion'
    BY <2>1 DEF TypeInv, OtherTypes, RamType, Exclusion
  <2>3. Stop' /\ Chain'
    BY <2>1 DEF Stop, Chain, TypeInv, OtherTypes, RamType
  <2>4. QED
    BY <2>1, <2>2, <2>3, Frame
<1>3. CASE Recheck
  <2>1. UNCHANGED <<nvs, mutex, storage, setup, task, migrating, stopped>>
    BY <1>3 DEF Recheck, Others
  <2>2. \/ worker' = [worker EXCEPT !.pc = "idle"] /\ ram.provisioning /\ ram' = [ram EXCEPT !.busy = FALSE]
        \/ worker' = [worker EXCEPT !.pc = "busy"] /\ ~ram.provisioning /\ ram' = ram
    BY <1>3 DEF Recheck
  <2>3. TypeInv'
    BY <2>1, <2>2, ZenonT(40) DEF TypeInv, OtherTypes, RamType
  <2>4. Exclusion' /\ Roles' /\ Copies' /\ Progress' /\ Whole' /\ Revival'
    BY <2>1, Frame DEF Exclusion
  <2>5. Stop' /\ Chain'
    <3>1. CASE ram.provisioning
      BY <1>3, <3>1, <2>1, <2>2 DEF Recheck, Stop, Chain, TypeInv, OtherTypes, RamType
    <3>2. CASE ~ram.provisioning
      BY <1>3, <3>2, <2>1, <2>2 DEF Recheck, Stop, Chain, TypeInv, OtherTypes, RamType, Roles, Replacing
    <3>3. QED
      BY <3>1, <3>2
  <2>6. QED
    BY <2>3, <2>4, <2>5
<1>4. CASE Operate
  <2>1. UNCHANGED <<mutex, storage, setup, task, migrating, stopped>>
    BY <1>4 DEF Operate, Others
  <2>2. nvs' = nvs
    BY <1>4 DEF Operate, Chain, TypeInv, NvsType
  <2>3. PICK bad \in {FALSE, Failures} : ram' = [ram EXCEPT !.busy = FALSE, !.fault = @ \/ bad]
    BY <1>4 DEF Operate
  <2>4. worker.pc = "busy" /\ worker' = [worker EXCEPT !.pc = "idle"]
    BY <1>4 DEF Operate
  <2>5. TypeInv'
    BY <2>1, <2>2, <2>3, <2>4, ProvisionAssumption DEF TypeInv, OtherTypes, RamType
  <2>6. Exclusion' /\ Roles' /\ Copies' /\ Progress' /\ Whole' /\ Revival'
    BY <2>1, <2>2, Frame DEF Exclusion
  <2>7. Stop' /\ Chain'
    BY <2>1, <2>2, <2>3, <2>4 DEF Stop, Chain, TypeInv, OtherTypes, RamType
  <2>8. QED
    BY <2>5, <2>6, <2>7
<1>5. CASE Initialize
  <2>1. UNCHANGED <<nvs, mutex, ram, storage, setup, task, migrating, stopped>>
    BY <1>5 DEF Initialize, Others
  <2>2. worker' = [pc |-> "idle", owner |-> nvs.token]
    BY <1>5 DEF Initialize
  <2>3. TypeInv'
    BY <2>1, <2>2 DEF TypeInv, OtherTypes, NvsType
  <2>4. Exclusion' /\ Roles' /\ Copies' /\ Progress' /\ Whole' /\ Revival' /\ Stop' /\ Chain'
    BY <2>1, <2>2, Frame DEF Exclusion, Stop, Chain
  <2>5. QED
    BY <2>3, <2>4
<1>6. QED
  BY <1>1, <1>2, <1>3, <1>4, <1>5

LEMMA StorageStep == IInv /\ (Decide \/ StorageLock \/ StorageSave) => IInv'
<1> SUFFICES ASSUME IInv, Decide \/ StorageLock \/ StorageSave PROVE IInv'
  OBVIOUS
<1> USE DEF IInv
<1>1. CASE Decide
  <2>1. /\ UNCHANGED <<nvs, mutex, ram, worker, setup, task, migrating, stopped>>
        /\ storage' = [storage EXCEPT !.pc = "lock", !.current = TRUE]
    BY <1>1 DEF Decide, Others
  <2>2. TypeInv' /\ Exclusion'
    BY <2>1 DEF TypeInv, OtherTypes, Exclusion
  <2>3. Stop' /\ Chain'
    BY <2>1 DEF Stop, Chain
  <2>4. QED
    BY <2>1, <2>2, <2>3, Frame
<1>2. CASE StorageLock
  <2>1. UNCHANGED <<nvs, worker, setup, task, migrating, stopped>>
    BY <1>2 DEF StorageLock, Others
  <2>2. \/ /\ mutex = Nobody /\ mutex' = Worker /\ UNCHANGED ram
           /\ storage' = [storage EXCEPT !.pc = "save", !.clear = Denied]
        \/ mutex' = mutex /\ storage' = [storage EXCEPT !.pc = "idle"] /\ ram' \in {ram, [ram EXCEPT !.fault = TRUE]}
    BY <1>2 DEF StorageLock, Flag
  <2>3. Denied \in BOOLEAN
    BY DEF Denied, TypeInv, RamType
  <2>4. TypeInv' /\ Exclusion'
    <3>1. ram' \in RamType
      BY <2>2 DEF TypeInv, RamType
    <3>2. storage' \in [pc : {"idle", "lock", "save"}, current : BOOLEAN, clear : BOOLEAN]
      BY <2>2, <2>3 DEF TypeInv, OtherTypes
    <3>3. mutex' \in Holders \cup {Nobody}
      BY <2>2, Distinct DEF TypeInv, OtherTypes
    <3>4. TypeInv'
      BY <2>1, <3>1, <3>2, <3>3 DEF TypeInv, OtherTypes
    <3>5. Exclusion'
      BY <2>1, <2>2, Distinct DEF Exclusion, TypeInv, OtherTypes
    <3>6. QED
      BY <3>4, <3>5
  <2>5. Stop' /\ Chain'
    BY <2>1, <2>2 DEF Stop, Chain, TypeInv, RamType
  <2>6. QED
    BY <2>1, <2>4, <2>5, Frame
<1>3. CASE StorageSave
  <2>1. UNCHANGED <<worker, setup, task, migrating, stopped>>
    BY <1>3 DEF StorageSave, Others
  <2>2. /\ nvs' = nvs \/ nvs' = [nvs EXCEPT !.journal = Nobody] \/ nvs' = [nvs EXCEPT !.journal = nvs.profile.owner]
        /\ ram' \in {ram, [ram EXCEPT !.fault = TRUE]} /\ mutex' = Nobody
        /\ storage' = [storage EXCEPT !.pc = "idle", !.clear = FALSE]
    BY <1>3 DEF StorageSave, Effects, Flag
  <2>3. mutex = Worker /\ ~migrating /\ \A t \in Tasks : task[t].pc \notin Holding
    BY <1>3, Distinct DEF StorageSave, Exclusion
  <2>4. TypeInv' /\ Exclusion'
    <3>1. ram' \in RamType
      BY <2>2 DEF TypeInv, RamType
    <3>2. nvs' \in NvsType
      BY <2>2, Distinct DEF TypeInv, NvsType, Profiles
    <3>3. storage' \in [pc : {"idle", "lock", "save"}, current : BOOLEAN, clear : BOOLEAN]
      BY <2>2 DEF TypeInv, OtherTypes
    <3>4. TypeInv'
      BY <2>1, <2>2, <3>1, <3>2, <3>3 DEF TypeInv, OtherTypes
    <3>5. Exclusion'
      BY <2>1, <2>2, <2>3 DEF Exclusion, TypeInv, OtherTypes
    <3>6. QED
      BY <3>4, <3>5
  <2>5. Stop' /\ Chain' /\ Whole'
    BY <2>1, <2>2 DEF Stop, Chain, Whole, TypeInv, RamType, NvsType
  <2>6. Roles' /\ Copies' /\ Revival' /\ Progress'
    BY <2>1, <2>2, <2>3, Distinct DEF Roles, Copies, Copy, Revival, Safe, Progress, TypeInv, NvsType, Holding, Copying, Changing, Replacing
  <2>7. QED
    BY <2>4, <2>5, <2>6
<1>4. QED
  BY <1>1, <1>2, <1>3

LEMMA LoginStep == IInv /\ (MigrateLock \/ MigrateStore) => IInv'
<1> SUFFICES ASSUME IInv, MigrateLock \/ MigrateStore PROVE IInv'
  OBVIOUS
<1> USE DEF IInv
<1>1. CASE MigrateLock
  <2>1. UNCHANGED <<nvs, task, worker, storage, setup, stopped>>
    BY <1>1 DEF MigrateLock
  <2>2. \/ mutex = Nobody /\ migrating' = TRUE /\ mutex' = Login /\ UNCHANGED ram
        \/ UNCHANGED <<mutex, migrating>> /\ ram' = [ram EXCEPT !.fault = TRUE]
    BY <1>1 DEF MigrateLock, Flag
  <2>3. TypeInv'
    <3>1. ram' \in RamType
      BY <2>2 DEF TypeInv, RamType
    <3>2. QED
      BY <2>1, <2>2, <3>1, Distinct, ZenonT(40) DEF TypeInv, OtherTypes
  <2>4. Exclusion'
    BY <2>1, <2>2, Distinct DEF Exclusion, TypeInv, OtherTypes
  <2>5. Stop' /\ Chain'
    BY <2>1, <2>2 DEF Stop, Chain, TypeInv, RamType
  <2>6. QED
    BY <2>1, <2>3, <2>4, <2>5, Frame
<1>2. CASE MigrateStore
  <2>1. UNCHANGED <<task, worker, storage, stopped>>
    BY <1>2 DEF MigrateStore
  <2>2. /\ nvs' = nvs \/ nvs' = [nvs EXCEPT !.profile.version = 2]
        /\ ram' \in {ram, [ram EXCEPT !.fault = TRUE]} /\ mutex' = Nobody /\ migrating' = FALSE
        /\ setup' \in {setup, [setup EXCEPT !.profile.version = 2]}
    BY <1>2 DEF MigrateStore, Flag
  <2>3. mutex = Login /\ storage.pc # "save" /\ \A t \in Tasks : task[t].pc \notin Holding
    BY <1>2, Distinct DEF MigrateStore, Exclusion
  <2>4. TypeInv'
    <3>1. ram' \in RamType
      BY <2>2 DEF TypeInv, RamType
    <3>2. nvs' \in NvsType
      BY <2>2 DEF TypeInv, NvsType, Profiles
    <3>3. setup' \in [pc : {"load", "recover", "configure", "online", "offline", "stopped"},
                      current : BOOLEAN, profile : Profiles]
      BY <2>2 DEF TypeInv, OtherTypes, Profiles
    <3>4. QED
      BY <2>1, <2>2, <3>1, <3>2, <3>3 DEF TypeInv, OtherTypes
  <2>5. Exclusion'
    BY <2>1, <2>2, <2>3 DEF Exclusion
  <2>6. /\ nvs'.marker = nvs.marker /\ nvs'.token = nvs.token /\ nvs'.journal = nvs.journal
        /\ nvs'.profile.owner = nvs.profile.owner /\ nvs'.profile.disabled = nvs.profile.disabled
        /\ setup'.current = setup.current
    BY <2>2 DEF TypeInv, NvsType, Profiles, OtherTypes
  <2>7. Stop' /\ Chain' /\ Whole'
    BY <2>1, <2>2, <2>6 DEF Stop, Chain, Whole, TypeInv, RamType
  <2>8. Roles' /\ Copies' /\ Revival' /\ Progress'
    BY <2>1, <2>3, <2>6, Distinct DEF Roles, Copies, Copy, Revival, Safe, Progress, Holding, Copying, Changing, Replacing
  <2>9. QED
    BY <2>4, <2>5, <2>7, <2>8
<1>3. QED
  BY <1>1, <1>2

LEMMA SetupStep == IInv /\ (SetupLoad \/ Recover \/ Configure \/ Apply) => IInv'
<1> SUFFICES ASSUME IInv, SetupLoad \/ Recover \/ Configure \/ Apply PROVE IInv'
  OBVIOUS
<1> USE DEF IInv
<1> DEFINE SetupType == [pc : {"load", "recover", "configure", "online", "offline", "stopped"},
                         current : BOOLEAN, profile : Profiles]
<1>1. CASE SetupLoad
  <2>1. UNCHANGED <<nvs, mutex, task, worker, storage, migrating, stopped>>
    BY <1>1 DEF SetupLoad
  <2>2. PICK ok \in Reads :
           /\ setup' = [setup EXCEPT !.pc = IF ok THEN "recover" ELSE "stopped",
                                     !.profile = IF ok THEN nvs.profile ELSE NoProfile]
           /\ ram' = [ram EXCEPT !.fault = ~ok /\ (nvs.marker \/ nvs.profile.owner # Nobody)]
    BY <1>1 DEF SetupLoad
  <2>3. nvs.profile \in Profiles /\ NoProfile \in Profiles /\ nvs.marker \in BOOLEAN
    BY Distinct DEF TypeInv, NvsType, NoProfile, Profiles
  <2>4. ok \in BOOLEAN
    BY <2>3 DEF Reads, Readable
  <2>5. setup' \in SetupType /\ setup'.current = setup.current
    BY <2>2, <2>3 DEF TypeInv, OtherTypes
  <2>6. ram' \in RamType
    BY <2>2, <2>3, <2>4 DEF TypeInv, RamType
  <2>7. TypeInv' /\ Exclusion'
    BY <2>1, <2>5, <2>6 DEF TypeInv, OtherTypes, Exclusion
  <2>8. Stop' /\ Chain'
    BY <2>1, <2>2, <2>5 DEF Stop, Chain, TypeInv, RamType
  <2>9. QED
    BY <2>1, <2>7, <2>8, Frame
<1>2. CASE Recover
  <2>1. /\ UNCHANGED <<mutex, task, worker, storage, migrating, stopped>>
        /\ setup' = [setup EXCEPT !.pc = "configure"]
    BY <1>2 DEF Recover
  <2>2. \/ mutex = Nobody /\ nvs' = [nvs EXCEPT !.journal = Nobody] /\ UNCHANGED ram
        \/ nvs' = nvs /\ ram' \in {ram, [ram EXCEPT !.fault = TRUE]}
    BY <1>2 DEF Recover, Flag
  <2>3. setup' \in SetupType /\ setup'.current = setup.current
    BY <2>1 DEF TypeInv, OtherTypes
  <2>4. ram' \in RamType /\ nvs' \in NvsType
    BY <2>2, Distinct DEF TypeInv, RamType, NvsType
  <2>5. TypeInv' /\ Exclusion'
    BY <2>1, <2>3, <2>4 DEF TypeInv, OtherTypes, Exclusion
  <2>6. Stop' /\ Chain'
    BY <2>1, <2>2, <2>3 DEF Stop, Chain, TypeInv, RamType, NvsType
  <2>7. /\ nvs'.marker = nvs.marker /\ nvs'.token = nvs.token /\ nvs'.profile = nvs.profile
        /\ nvs'.journal \in {nvs.journal, Nobody}
    BY <2>2 DEF TypeInv, NvsType
  <2>8. Whole' /\ Roles' /\ Copies' /\ Revival' /\ Progress'
    BY <2>1, <2>7 DEF Whole, Roles, Copies, Copy, Revival, Safe, Progress
  <2>9. QED
    BY <2>5, <2>6, <2>8
<1>3. CASE Configure
  <2>1. UNCHANGED <<nvs, mutex, task, storage, migrating, stopped>>
    BY <1>3 DEF Configure
  <2>2. /\ ram' = [ram EXCEPT !.pending = IF ram.fault \/ ~setup.current THEN @
                                          ELSE IF setup.profile.disabled THEN "off" ELSE "auto"]
        /\ setup' = [setup EXCEPT !.pc = IF ram.provisioning THEN "offline" ELSE "online"]
        /\ worker' = [worker EXCEPT !.pc = IF ram.provisioning THEN "off" ELSE "init"]
    BY <1>3 DEF Configure
  <2>3. setup' \in SetupType /\ setup'.current = setup.current
    BY <2>2 DEF TypeInv, OtherTypes
  <2>4. ram' \in RamType
    BY <2>2 DEF TypeInv, RamType
  <2>5. worker' \in [pc : {"off", "init", "idle", "about", "claimed", "busy"}, owner : Someone]
    BY <2>2 DEF TypeInv, OtherTypes
  <2>6. TypeInv' /\ Exclusion'
    BY <2>1, <2>3, <2>4, <2>5 DEF TypeInv, OtherTypes, Exclusion
  <2>7. worker'.pc \in {"off", "init"}
    BY <2>2 DEF TypeInv, OtherTypes
  <2>8. /\ ram'.provisioning = ram.provisioning /\ ram'.disabled = ram.disabled
        /\ ~setup.current => ram'.pending = ram.pending
    BY <2>2 DEF TypeInv, RamType
  <2>9. Stop' /\ Chain'
    BY <2>1, <2>3, <2>7, <2>8 DEF Stop, Chain
  <2>10. QED
    BY <2>1, <2>6, <2>9, Frame
<1>4. CASE Apply
  <2>1. UNCHANGED <<nvs, mutex, worker, storage, setup, task, migrating, stopped>>
    BY <1>4 DEF Apply, Others
  <2>2. ram' = [ram EXCEPT !.pending = "none", !.ready = TRUE, !.inhibited = FALSE,
                           !.disabled = (ram.pending = "off")] /\ ram.pending # "none"
    BY <1>4 DEF Apply
  <2>3. ram' \in RamType
    BY <2>2 DEF TypeInv, RamType
  <2>4. TypeInv' /\ Exclusion'
    BY <2>1, <2>3 DEF TypeInv, OtherTypes, Exclusion
  <2>5. Stop' /\ Chain'
    BY <2>1, <2>2 DEF Stop, Chain, TypeInv, RamType
  <2>6. QED
    BY <2>1, <2>4, <2>5, Frame
<1>5. QED
  BY <1>1, <1>2, <1>3, <1>4

-----------------------------------------------------------------------------
(* The commands: what begins, what ends, and every step of change_config.   *)

\* An idle task is a good beginning and a good end.
LEMMA Idle == IdleTask \in TaskType /\ IdleTask.pc = "idle" /\ IdleTask.op = "off"
              /\ IdleTask.owner = Nobody /\ ~IdleTask.current /\ ~IdleTask.read
  BY Distinct DEF IdleTask, NoProfile, TaskType, UsbSteps, Profiles

LEMMA BootStep == IInv /\ BootRest => IInv'
<1> SUFFICES ASSUME IInv, BootRest PROVE IInv'
  OBVIOUS
<1> USE DEF IInv
<1>1. /\ mutex' = Nobody /\ ram' = BootRam /\ setup' = BootSetup
      /\ \A t \in Tasks : task'[t] = IdleTask
      /\ worker' = [pc |-> "off", owner |-> Nobody]
      /\ storage' = [pc |-> "idle", current |-> FALSE, clear |-> FALSE]
      /\ migrating' = FALSE /\ UNCHANGED <<nvs, stopped>>
  BY DEF BootRest
<1>2. task' \in [Tasks -> TaskType]
  BY Idle DEF BootRest
<1>3. BootRam \in RamType /\ ~BootRam.provisioning
  BY DEF BootRam, RamType
<1>4. BootSetup \in [pc : {"load", "recover", "configure", "online", "offline", "stopped"},
                    current : BOOLEAN, profile : Profiles]
  BY Distinct DEF BootSetup, NoProfile, Profiles
<1>5. TypeInv'
  BY <1>1, <1>2, <1>3, <1>4, Distinct DEF TypeInv, OtherTypes
<1>6. Exclusion' /\ Roles' /\ Copies'
  BY <1>1, Idle, Distinct
  DEF Exclusion, Roles, Copies, Copy, Holding, Copying, Changing, Replacing, WebSteps
<1>7. Stop' /\ Chain' /\ Progress' /\ Whole'
  BY <1>1, <1>3, Idle, Distinct DEF Stop, Chain, Progress, Whole, Replacing
<1>8. Revival'
  BY <1>1, Idle, Distinct DEF Revival, Safe
<1>9. QED
  BY <1>5, <1>6, <1>7, <1>8

LEMMA InitStep == Init => IInv
<1> SUFFICES ASSUME Init PROVE IInv
  OBVIOUS
<1>1. PICK p \in {NoProfile} \cup [owner : Present, disabled : BOOLEAN, version : {1, 2}] :
         nvs = [marker |-> FALSE, profile |-> p, token |-> p.owner, journal |-> Nobody]
  BY DEF Init
<1>2. p \in Profiles
  <2>1. NoProfile \in Profiles
    BY Distinct DEF NoProfile, Profiles
  <2>2. CASE p \in [owner : Present, disabled : BOOLEAN, version : {1, 2}]
    BY <2>2, Distinct DEF Profiles
  <2>3. QED
    BY <1>1, <2>1, <2>2
<1>3. nvs \in NvsType /\ Whole
  BY <1>1, <1>2, Distinct DEF NvsType, Profiles, Whole
<1>4. task \in [Tasks -> TaskType] /\ \A t \in Tasks : task[t] = IdleTask
  BY Idle DEF Init
<1>5. BootRam \in RamType /\ ~BootRam.provisioning
  BY DEF BootRam, RamType
<1>6. BootSetup \in [pc : {"load", "recover", "configure", "online", "offline", "stopped"},
                    current : BOOLEAN, profile : Profiles]
  BY Distinct DEF BootSetup, NoProfile, Profiles
<1>7. TypeInv
  BY <1>3, <1>4, <1>5, <1>6, Distinct DEF Init, TypeInv, OtherTypes
<1>8. Exclusion /\ Roles /\ Copies
  BY <1>4, Idle, Distinct
  DEF Init, Exclusion, Roles, Copies, Copy, Holding, Copying, Changing, Replacing, WebSteps
<1>9. Stop /\ Chain /\ Progress /\ Revival
  BY <1>4, <1>5, Idle, Distinct DEF Init, Stop, Chain, Progress, Revival, Replacing
<1>10. QED
  BY <1>3, <1>7, <1>8, <1>9 DEF IInv

LEMMA RequestStep ==
  ASSUME IInv, \/ \E op \in {"off", "auto"} : WebMode(op)
               \/ \E o \in Incoming : BeginProvision("provision", o)
               \/ BeginProvision("wifi", Nobody)
  PROVE  IInv'
<1> USE DEF IInv
<1>1. ASSUME NEW op \in {"off", "auto"}, WebMode(op) PROVE IInv'
  <2> DEFINE new == Begun(op, "acquire", Nobody)
  <2>1. /\ UNCHANGED <<nvs, mutex, worker, migrating>> /\ task[Web].pc = "idle"
        /\ op = "auto" => ~ram.provisioning
        /\ ram' = [ram EXCEPT !.inhibited = TRUE, !.disabled = TRUE, !.pending = "none"]
        /\ task' = [u \in Tasks |-> IF u = Web THEN new ELSE [task[u] EXCEPT !.current = FALSE]]
        /\ setup' = [setup EXCEPT !.current = FALSE]
        /\ storage' = [storage EXCEPT !.current = FALSE]
        /\ stopped' = (stopped /\ op = "off")
    BY <1>1 DEF WebMode, Inhibit, At
  <2>2. /\ new \in TaskType /\ new.pc = "acquire" /\ new.op = op /\ new.owner = Nobody
    BY Distinct DEF Begun, IdleTask, NoProfile, TaskType, UsbSteps, Profiles
  <2>3. task'[Web] = new /\ task'[Usb] = [task[Usb] EXCEPT !.current = FALSE]
    BY <2>1, Distinct
  <2> HIDE DEF new
  <2>4. task[Usb] \in TaskType
    BY Distinct DEF TypeInv
  <2>5. task' \in [Tasks -> TaskType]
    BY <2>1, <2>2, <2>4, Distinct DEF TaskType
  <2>6. /\ task'[Usb] \in TaskType /\ task'[Usb].pc = task[Usb].pc /\ task'[Usb].op = task[Usb].op
        /\ task'[Usb].owner = task[Usb].owner /\ task'[Usb].profile = task[Usb].profile
        /\ task'[Usb].read = task[Usb].read
    BY <2>3, <2>4 DEF TaskType
  <2>7. TypeInv'
    <3>1. ram' \in RamType
      BY <2>1 DEF TypeInv, RamType
    <3>2. QED
      BY <2>1, <2>5, <3>1 DEF TypeInv, OtherTypes
  <2>8. Exclusion' /\ Roles' /\ Copies'
    <3>1. storage'.pc = storage.pc /\ new.pc \notin Holding
      BY <2>1, <2>2 DEF TypeInv, OtherTypes, Holding, Copying, Changing, Replacing
    <3>2. Exclusion'
      BY <2>1, <2>3, <2>6, <3>1, Distinct DEF Exclusion
    <3>3. Roles'
      BY <2>1, <2>2, <2>3, <2>6 DEF Roles, WebSteps
    <3>4. Copies'
      BY <2>1, <2>2, <2>3, <2>6, <3>1, Distinct DEF Copies, Copy, Holding, Copying, Changing
    <3>5. QED
      BY <3>2, <3>3, <3>4
  <2>9. Stop' /\ Chain' /\ Progress' /\ Whole'
    BY <2>1, <2>2, <2>3, <2>6 DEF Stop, Chain, Progress, Whole, TypeInv, OtherTypes, RamType
  <2>10. Revival'
    BY <2>1, <2>2, <2>3, <2>6, <2>9 DEF Revival, Safe, Stop
  <2>11. QED
    BY <2>7, <2>8, <2>9, <2>10
<1>2. ASSUME NEW op \in {"provision", "wifi"}, NEW o \in Incoming \cup {Nobody},
             op = "provision" => o \in Incoming, op = "wifi" => o = Nobody, BeginProvision(op, o)
      PROVE  IInv'
  <2> DEFINE new == Begun(op, "load", o)
  <2>1. /\ UNCHANGED <<nvs, mutex, worker, migrating, stopped>> /\ task[Usb].pc = "idle"
        /\ ram' = [[ram EXCEPT !.provisioning = TRUE]
                    EXCEPT !.inhibited = TRUE, !.disabled = TRUE, !.pending = "none"]
        /\ task' = [u \in Tasks |-> IF u = Usb THEN new ELSE [task[u] EXCEPT !.current = FALSE]]
        /\ setup' = [setup EXCEPT !.current = FALSE]
        /\ storage' = [storage EXCEPT !.current = FALSE]
    BY <1>2 DEF BeginProvision, Inhibit, At
  <2>2. /\ new \in TaskType /\ new.pc = "load" /\ new.op = op /\ new.owner = o
    BY Distinct DEF Begun, IdleTask, NoProfile, TaskType, UsbSteps, Profiles
  <2>3. task'[Usb] = new /\ task'[Web] = [task[Web] EXCEPT !.current = FALSE]
    BY <2>1, Distinct
  <2> HIDE DEF new
  <2>4. task[Web] \in TaskType
    BY Distinct DEF TypeInv
  <2>5. task' \in [Tasks -> TaskType]
    BY <2>1, <2>2, <2>4, Distinct DEF TaskType
  <2>6. /\ task'[Web].pc = task[Web].pc /\ task'[Web].op = task[Web].op
        /\ task'[Web].profile = task[Web].profile /\ ~task'[Web].current
    BY <2>3, <2>4 DEF TaskType
  <2>7. TypeInv'
    <3>1. ram' \in RamType
      BY <2>1 DEF TypeInv, RamType
    <3>2. QED
      BY <2>1, <2>5, <3>1 DEF TypeInv, OtherTypes
  <2>8. Exclusion' /\ Roles' /\ Copies'
    BY <1>2, <2>1, <2>2, <2>3, <2>6, Distinct
    DEF Exclusion, Roles, Copies, Copy, Holding, Copying, Changing, Replacing, WebSteps, TypeInv, OtherTypes
  <2>9. Stop' /\ Chain' /\ Progress' /\ Whole'
    BY <2>1, <2>2, <2>3, <2>6 DEF Stop, Chain, Progress, Whole, TypeInv, OtherTypes, RamType, Replacing
  <2>10. Revival'
    BY <2>1, <2>2, <2>3, <2>6 DEF Revival, Safe
  <2>11. QED
    BY <2>7, <2>8, <2>9, <2>10
<1>3. QED
  BY <1>1, <1>2

\* A task t moves on to step s, or ends its command; no other moves.
Elsewhere(t) == task' \in [Tasks -> TaskType] /\ \A u \in Tasks \ {t} : task'[u] = task[u]
Ended(t)     == Elsewhere(t) /\ task'[t] = IdleTask
MovesTo(t, s) ==
    /\ Elsewhere(t) /\ task'[t].pc = s
    /\ task'[t].op = task[t].op /\ task'[t].owner = task[t].owner
    /\ task'[t].current = task[t].current
Keeps(t) == task'[t].profile = task[t].profile /\ task'[t].read = task[t].read

LEMMA Moved ==
  ASSUME TypeInv, NEW t \in Tasks, NEW s \in UsbSteps, Goto(t, s)
  PROVE  MovesTo(t, s) /\ Keeps(t)
<1>1. task[t] \in TaskType /\ [task[t] EXCEPT !.pc = s] \in TaskType
  BY DEF TypeInv, TaskType
<1>2. task' = [task EXCEPT ![t] = [task[t] EXCEPT !.pc = s]]
  BY DEF Goto, TypeInv
<1>3. task' \in [Tasks -> TaskType] /\ task'[t] = [task[t] EXCEPT !.pc = s]
      /\ \A u \in Tasks \ {t} : task'[u] = task[u]
  BY <1>1, <1>2 DEF TypeInv
<1>4. QED
  BY <1>1, <1>3 DEF MovesTo, Keeps, Elsewhere, TaskType

LEMMA Returned ==
  ASSUME TypeInv, NEW t \in Tasks, Return(t, FALSE)
  PROVE  Ended(t)
<1>1. task' = [task EXCEPT ![t] = IdleTask]
  BY DEF Return
<1>2. QED
  BY <1>1, Idle DEF Ended, Elsewhere, TypeInv

\* The flags that the end of a command may change.
Calm ==
    /\ ram' \in RamType /\ ram'.provisioning = ram.provisioning
    /\ ram'.disabled = ram.disabled /\ ram'.busy = ram.busy
    /\ ram.provisioning => ram'.pending # "auto"

LEMMA Faults ==
  ASSUME IInv, NEW f \in BOOLEAN, ram' \in {ram, [ram EXCEPT !.fault = TRUE], [ram EXCEPT !.fault = f]}
  PROVE  Calm
  BY DEF Calm, IInv, TypeInv, RamType, Stop

\* What a write may leave, whatever becomes of the task that made it.
Sound ==
    /\ nvs' \in NvsType /\ Whole'
    /\ nvs'.token = nvs.token \/ (ram.provisioning /\ worker.pc # "busy")
    /\ stopped \/ (task[Usb].pc = "wait" /\ task[Usb].read) =>
           nvs'.marker \/ nvs'.profile.disabled

LEMMA Unwritten == ASSUME IInv, nvs' = nvs PROVE Sound
  BY DEF IInv, Sound, Whole, Revival, Safe, TypeInv

\* A command ends, at whichever step: nothing depends on its task any more.
LEMMA Ending ==
  ASSUME IInv, NEW t \in Tasks, Ended(t), Rest, Calm,
         nvs' = nvs \/ (mutex = t /\ Sound),
         mutex' = mutex \/ (mutex = t /\ mutex' = Nobody)
  PROVE  IInv'
<1> USE DEF IInv
<1>1. Sound
  BY Unwritten
<1>2. /\ UNCHANGED <<worker, storage, migrating, setup, stopped>>
      /\ task' \in [Tasks -> TaskType] /\ task'[t] = IdleTask
      /\ \A u \in Tasks \ {t} : task'[u] = task[u]
  BY DEF Rest, Ended, Elsewhere
<1>3. TypeInv'
  BY <1>1, <1>2, Distinct DEF Sound, Calm, TypeInv, OtherTypes
<1>4. Exclusion'
  BY <1>2, Idle, Distinct DEF Exclusion, Holding, Copying, Changing, Replacing
<1>5. Roles'
  BY <1>2, Idle, Distinct DEF Roles, WebSteps, Replacing
<1>6. Copies'
  BY <1>2, Idle, Distinct DEF Copies, Copy, Exclusion, Holding, Copying, Changing
<1>7. Progress'
  BY <1>2, Idle, Distinct DEF Progress, Exclusion, Holding, Replacing
<1>8. Stop' /\ Chain' /\ Whole'
  BY <1>1, <1>2, Idle, Distinct DEF Sound, Calm, Stop, Chain, Replacing
<1>9. Revival'
  BY <1>1, <1>2, Idle, Distinct DEF Sound, Revival, Safe
<1>10. QED
  BY <1>3, <1>4, <1>5, <1>6, <1>7, <1>8, <1>9

\* A holder of the mutex takes its next step with the mutex still its own.
LEMMA Advance ==
  ASSUME IInv, NEW t \in Tasks, NEW s \in Holding, MovesTo(t, s), Rest, Sound,
         mutex = t, UNCHANGED <<mutex, ram>>, task[t].pc \in Holding,
         t = Web => s \in WebSteps, s \in Replacing => task[t].pc \in Replacing,
         Copy(t)', t = Usb => Progress'
  PROVE  IInv'
<1> USE DEF IInv
<1>1. /\ UNCHANGED <<worker, storage, migrating, setup, stopped>>
      /\ task' \in [Tasks -> TaskType]
      /\ \A u \in Tasks \ {t} : task'[u] = task[u]
      /\ task'[t].pc = s /\ task'[t].op = task[t].op /\ task'[t].owner = task[t].owner
      /\ task'[t].current = task[t].current
  BY DEF Rest, MovesTo, Elsewhere
<1>2. s # "idle" /\ s # "wait" /\ task[t].pc # "idle" /\ task[t].pc # "wait" /\ task[t].pc # "acquire"
  BY DEF Holding, Copying, Changing, Replacing
<1>3. TypeInv'
  BY <1>1 DEF Sound, TypeInv, OtherTypes
<1>4. Exclusion'
  BY <1>1, Distinct DEF Exclusion
<1>5. Roles'
  BY <1>1, <1>2, Distinct DEF Roles, Holding, Copying, Changing, Replacing
<1>6. Copies'
  BY <1>1, Distinct DEF Copies, Copy, Exclusion, Holding, Copying, Changing
<1>7. Progress'
  BY <1>1, Distinct DEF Progress, Exclusion, Holding, Replacing
<1>8. Stop' /\ Chain' /\ Whole'
  BY <1>1, <1>2, Distinct DEF Sound, Stop, Chain
<1>9. Revival'
  BY <1>1, <1>2, Distinct DEF Sound, Revival, Safe
<1>10. QED
  BY <1>3, <1>4, <1>5, <1>6, <1>7, <1>8, <1>9

\* The two outcomes of a write after which a holder goes on.
LEMMA Written ==
  ASSUME IInv, NEW t \in Tasks, NEW s \in UsbSteps, NEW new, Write(t, new, Step(t, s))
  PROVE  \/ nvs' = new /\ MovesTo(t, s) /\ Keeps(t) /\ UNCHANGED <<mutex, ram>>
         \/ nvs' \in {nvs, new} /\ Ended(t) /\ mutex' = Nobody /\ Calm
<1> USE DEF IInv
<1>1. CASE nvs' = new /\ Step(t, s) /\ UNCHANGED ram
  BY <1>1, Moved DEF Step
<1>2. CASE nvs' \in Effects(new) /\ GiveUp(t) /\ Flag("fault")
  <2>1. Ended(t) /\ mutex' = Nobody
    BY <1>2, Returned DEF GiveUp
  <2>2. Calm
    BY <1>2, Faults DEF Flag
  <2>3. QED
    BY <1>2, <2>1, <2>2 DEF Effects
<1>3. QED
  BY <1>1, <1>2 DEF Write

LEMMA ChangeStep == ASSUME IInv, NEW t \in Tasks, Change(t) PROVE IInv'
<1> USE DEF IInv
<1>0. /\ task[t] \in TaskType /\ nvs \in NvsType /\ nvs.profile \in Profiles
      /\ task[t].profile \in Profiles /\ task[t].op \in {"off", "auto", "provision", "wifi"}
  BY DEF TypeInv, NvsType, TaskType
<1>1. CASE Acquire(t)
  <2>1. UNCHANGED nvs /\ Rest /\ task[t].pc = "acquire" /\ mutex = Nobody
    BY <1>1 DEF Acquire, At
  <2>2. PICK ok \in Reads :
           \/ /\ task[t].current /\ ok /\ mutex' = t /\ UNCHANGED ram
              /\ task' = [task EXCEPT ![t].pc = "clear", ![t].profile = Mode(t, nvs.profile)]
           \/ Return(t, FALSE) /\ UNCHANGED mutex /\ ram' \in {ram, [ram EXCEPT !.fault = TRUE]}
    BY <1>1 DEF Acquire, Flag
  <2>3. CASE Return(t, FALSE) /\ UNCHANGED mutex /\ ram' \in {ram, [ram EXCEPT !.fault = TRUE]}
    BY <2>1, <2>3, Returned, Faults, Ending
  <2>4. CASE /\ task[t].current /\ mutex' = t /\ UNCHANGED ram
             /\ task' = [task EXCEPT ![t].pc = "clear", ![t].profile = Mode(t, nvs.profile)]
    <3> DEFINE copy == Mode(t, nvs.profile)
               new  == [task[t] EXCEPT !.pc = "clear", !.profile = copy]
    <3>1. /\ copy \in Profiles /\ copy.owner = nvs.profile.owner /\ copy.version = nvs.profile.version
          /\ copy.disabled = (task[t].op # "auto")
      BY <1>0 DEF Mode, Profiles
    <3> HIDE DEF copy
    <3>2. /\ new \in TaskType /\ new.pc = "clear" /\ new.profile = copy /\ new.op = task[t].op
          /\ new.owner = task[t].owner /\ new.current = task[t].current /\ new.read = task[t].read
      BY <1>0, <3>1 DEF TaskType, UsbSteps, Holding, Copying, Changing
    <3>3. task' = [task EXCEPT ![t] = new]
      BY <2>4 DEF copy, TypeInv
    <3> HIDE DEF new
    <3>4. /\ task' \in [Tasks -> TaskType] /\ task'[t] = new
          /\ \A u \in Tasks \ {t} : task'[u] = task[u]
      BY <3>2, <3>3 DEF TypeInv
    <3>5. UNCHANGED <<worker, storage, migrating, setup, stopped>>
      BY <2>1 DEF Rest
    <3>6. TypeInv' /\ Exclusion'
      BY <2>1, <2>4, <3>4, <3>5, Distinct DEF TypeInv, OtherTypes, Exclusion
    <3>7. Roles' /\ Copies'
      BY <2>1, <3>1, <3>2, <3>4, Distinct
      DEF Roles, WebSteps, Changing, Replacing, Copies, Copy, Copying
    <3>8. Stop' /\ Chain' /\ Progress' /\ Whole'
      BY <2>1, <2>4, <3>2, <3>4, <3>5, Distinct DEF Stop, Chain, Progress, Whole, Replacing
    <3>9. Revival'
      BY <2>1, <2>4, <3>2, <3>4, <3>5, Distinct DEF Revival, Safe
    <3>10. QED
      BY <3>6, <3>7, <3>8, <3>9
  <2>5. QED
    BY <2>2, <2>3, <2>4
<1>2. CASE Clear(t)
  <2> DEFINE new == [nvs EXCEPT !.journal = Nobody]
  <2>1. Write(t, new, Step(t, "save")) /\ Rest /\ task[t].pc = "clear"
    BY <1>2 DEF Clear, At
  <2>2. mutex = t
    BY <2>1 DEF Exclusion, Holding, Copying, Changing
  <2>3. nvs' \in {nvs, new} => Sound
    BY Unwritten, Distinct DEF Sound, Whole, Revival, Safe, TypeInv, NvsType
  <2>4. CASE nvs' = new /\ MovesTo(t, "save") /\ Keeps(t) /\ UNCHANGED <<mutex, ram>>
    <3>1. Copy(t)'
      BY <2>1, <2>4 DEF Copies, Copy, MovesTo, Keeps, Copying, Changing, TypeInv, NvsType
    <3>2. t = Usb => Progress'
      BY <2>4 DEF Progress, MovesTo, Replacing
    <3>3. QED
      BY <2>1, <2>2, <2>3, <2>4, <3>1, <3>2, Advance DEF Holding, Copying, Changing, WebSteps, Replacing
  <2>5. CASE nvs' \in {nvs, new} /\ Ended(t) /\ mutex' = Nobody /\ Calm
    BY <2>1, <2>2, <2>3, <2>5, Ending
  <2>6. "save" \in UsbSteps
    BY DEF UsbSteps, Holding, Copying, Changing
  <2>7. QED
    BY <2>1, <2>4, <2>5, <2>6, Written
<1>3. CASE Save(t)
  <2> DEFINE new == [nvs EXCEPT !.profile = task[t].profile]
  <2>1. Write(t, new, Step(t, "check")) /\ Rest /\ task[t].pc = "save"
    BY <1>3 DEF Save, Stored, At
  <2>2. mutex = t
    BY <2>1 DEF Exclusion, Holding, Copying, Changing
  <2>3. /\ task[t].profile.owner = nvs.profile.owner
        /\ task[t].profile.disabled = (task[t].op # "auto")
    BY <2>1 DEF Copies, Copy, Copying, Changing
  <2>4. task[t].op = "auto" => t = Web /\ ~Safe
    BY <2>1, Distinct DEF Safe, Roles
  <2>5. nvs' \in {nvs, new} => Sound
    BY <1>0, <2>3, <2>4, Unwritten DEF Sound, Whole, Revival, NvsType
  <2>6. CASE nvs' = new /\ MovesTo(t, "check") /\ Keeps(t) /\ UNCHANGED <<mutex, ram>>
    <3>1. Copy(t)'
      BY <1>0, <2>3, <2>6 DEF Copy, MovesTo, Keeps, Copying, Changing, NvsType
    <3>2. t = Usb => Progress'
      BY <2>6 DEF Progress, MovesTo, Replacing
    <3>3. QED
      BY <2>1, <2>2, <2>5, <2>6, <3>1, <3>2, Advance DEF Holding, Copying, Changing, WebSteps, Replacing
  <2>7. CASE nvs' \in {nvs, new} /\ Ended(t) /\ mutex' = Nobody /\ Calm
    BY <2>1, <2>2, <2>5, <2>7, Ending
  <2>8. "check" \in UsbSteps
    BY DEF UsbSteps, Holding, Copying, Changing
  <2>9. QED
    BY <2>1, <2>6, <2>7, <2>8, Written
<1>4. CASE Check(t)
  <2>1. /\ task[t].pc = "check" /\ UNCHANGED <<nvs, mutex, ram>> /\ Rest
        /\ IF task[t].current THEN Goto(t, "handover")
           ELSE task' = [task EXCEPT ![t].pc = "cover", ![t].profile.disabled = TRUE]
    BY <1>4 DEF Check, At
  <2>2. mutex = t /\ Sound
    BY <2>1, Unwritten DEF Exclusion, Holding, Copying, Changing
  <2>3. CASE task[t].current
    <3>1. MovesTo(t, "handover") /\ Keeps(t)
      BY <2>1, <2>3, Moved DEF UsbSteps, Holding, Copying, Changing
    <3>2. Copy(t)'
      BY <2>1, <3>1 DEF Copies, Copy, MovesTo, Keeps, Copying, Changing
    <3>3. t = Usb => Progress'
      BY <3>1 DEF Progress, MovesTo, Replacing
    <3>4. QED
      BY <2>1, <2>2, <3>1, <3>2, <3>3, Advance DEF Holding, Copying, Changing, WebSteps, Replacing
  <2>4. CASE ~task[t].current
    <3> DEFINE copy == [task[t].profile EXCEPT !.disabled = TRUE]
               new  == [task[t] EXCEPT !.pc = "cover", !.profile = copy]
    <3>1. /\ copy \in Profiles /\ copy.owner = task[t].profile.owner
          /\ copy.version = task[t].profile.version /\ copy.disabled
      BY <1>0 DEF Profiles
    <3>2. new = [task[t] EXCEPT !.pc = "cover", !.profile.disabled = TRUE]
      BY <1>0 DEF TaskType
    <3> HIDE DEF copy
    <3>3. /\ new \in TaskType /\ new.pc = "cover" /\ new.profile = copy /\ new.op = task[t].op
          /\ new.owner = task[t].owner /\ new.current = task[t].current
      BY <1>0, <3>1 DEF TaskType, UsbSteps, Holding, Copying, Changing
    <3>4. task' = [task EXCEPT ![t] = new]
      BY <2>1, <2>4, <3>2 DEF TypeInv
    <3> HIDE DEF new
    <3>5. MovesTo(t, "cover") /\ task'[t].profile = copy
      BY <3>3, <3>4 DEF MovesTo, Elsewhere, TypeInv
    <3>6. Copy(t)'
      BY <2>1, <3>1, <3>5 DEF Copies, Copy, MovesTo, Copying, Changing
    <3>7. t = Usb => Progress'
      BY <3>5 DEF Progress, MovesTo, Replacing
    <3>8. QED
      BY <2>1, <2>2, <3>5, <3>6, <3>7, Advance DEF Holding, Copying, Changing, WebSteps, Replacing
  <2>5. QED
    BY <2>3, <2>4
<1>5. CASE Cover(t)
  <2> DEFINE new == [nvs EXCEPT !.profile = task[t].profile]
  <2>1. Write(t, new, GiveUp(t)) /\ Rest /\ task[t].pc = "cover"
    BY <1>5 DEF Cover, Stored, At
  <2>2. mutex = t /\ task[t].profile.owner = nvs.profile.owner /\ task[t].profile.disabled
    BY <2>1 DEF Exclusion, Copies, Copy, Holding, Copying, Changing
  <2>3. nvs' \in {nvs, new} => Sound
    BY <1>0, <2>2, Unwritten DEF Sound, Whole, NvsType
  <2>4. /\ nvs' \in {nvs, new} /\ Return(t, FALSE) /\ mutex' = Nobody
        /\ ram' \in {ram, [ram EXCEPT !.fault = TRUE]}
    BY <2>1 DEF Write, GiveUp, Effects, Flag
  <2>5. QED
    BY <2>1, <2>2, <2>3, <2>4, Returned, Faults, Ending
<1>6. CASE LockTimeout(t)
  <2>1. /\ UNCHANGED <<nvs, mutex>> /\ Rest /\ Return(t, FALSE)
        /\ ram' = [ram EXCEPT !.fault = @ \/ ~At(t, "acquire")]
    BY <1>6 DEF LockTimeout
  <2>2. Calm
    BY <2>1 DEF Calm, TypeInv, RamType, Stop, At
  <2>3. QED
    BY <2>1, <2>2, Returned, Ending
<1>7. CASE HandOver(t)
  <2>1. /\ task[t].pc = "handover" /\ Return(t, task[t].current) /\ mutex' = Nobody
        /\ UNCHANGED nvs /\ Rest
        /\ ram' = [ram EXCEPT !.pending = IF ~task[t].current THEN @
                                          ELSE IF task[t].profile.disabled THEN "off" ELSE "auto"]
    BY <1>7 DEF HandOver, At
  <2>2. /\ mutex = t /\ nvs.profile = task[t].profile
        /\ task[t].profile.disabled = (task[t].op # "auto")
    BY <2>1 DEF Exclusion, Copies, Copy, Holding, Copying, Changing
  <2>3. task[t].op = "auto" => t = Web
    BY Distinct DEF Roles
  <2>4. Calm
    BY <2>1, <2>2, <2>3 DEF Calm, TypeInv, RamType, Stop
  <2>5. CASE ~(task[t].current /\ task[t].op \in {"provision", "wifi"})
    <3>1. Return(t, FALSE)
      BY <2>1, <2>5 DEF Return
    <3>2. QED
      BY <2>1, <2>2, <2>4, <3>1, Returned, Ending
  <2>6. CASE task[t].current /\ task[t].op \in {"provision", "wifi"}
    <3>1. Goto(t, "wait")
      BY <1>0, <2>1, <2>6 DEF Return, Goto, TypeInv
    <3>2. t = Usb
      BY <2>6, Distinct DEF Roles
    <3>3. MovesTo(Usb, "wait") /\ Keeps(Usb)
      BY <3>1, <3>2, Moved DEF UsbSteps
    <3>4. /\ UNCHANGED <<worker, storage, migrating, setup, stopped>>
          /\ task' \in [Tasks -> TaskType] /\ task'[Web] = task[Web] /\ task'[Usb].pc = "wait"
          /\ task'[Usb].op = task[Usb].op /\ task'[Usb].owner = task[Usb].owner
          /\ task'[Usb].read = task[Usb].read
      BY <2>1, <3>3, Distinct DEF Rest, MovesTo, Keeps, Elsewhere
    <3>5. TypeInv' /\ Exclusion'
      BY <2>1, <2>2, <2>4, <3>2, <3>4, Distinct
      DEF Calm, TypeInv, OtherTypes, Exclusion, Holding, Copying, Changing, Replacing
    <3>6. Roles' /\ Copies' /\ Progress' /\ Whole'
      BY <2>1, <2>2, <3>2, <3>4, Distinct
      DEF Roles, Replacing, Copies, Copy, Copying, Changing, Progress, Whole
    <3>7. ram.provisioning
      BY <2>1, <3>2 DEF Stop
    <3>8. Stop' /\ Chain'
      BY <2>1, <2>4, <3>4, <3>7 DEF Calm, Stop, Chain, Replacing
    <3>9. task[Web].pc \notin Holding
      BY <2>2, <3>2, Distinct DEF Exclusion
    <3>10. Safe'
      BY <2>1, <2>2, <2>6, <3>2, <3>4, <3>7, <3>9, Distinct
      DEF Safe, Stop, Roles, WebSteps, Holding, Copying, Changing
    <3>11. QED
      BY <3>5, <3>6, <3>8, <3>10 DEF Revival
  <2>7. QED
    BY <2>5, <2>6
<1>8. QED
  BY <1>1, <1>2, <1>3, <1>4, <1>5, <1>6, <1>7 DEF Change

-----------------------------------------------------------------------------
(* The steps of the USB task alone, and the invariant.                      *)

\* It goes on to a step at which it holds nothing.
LEMMA Onward ==
  ASSUME IInv, NEW s \in {"acquire", "wait", "validate", "exclude", "wifi"}, MovesTo(Usb, s),
         UNCHANGED <<nvs, mutex, ram, worker, storage, migrating, setup>>, stopped' \in BOOLEAN,
         stopped' => stopped \/ (task[Usb].pc = "wait" /\ task[Usb].read),
         task[Usb].pc # "idle", s = "wait" => ~task'[Usb].read,
         s \in {"validate", "exclude"} => task[Usb].op = "provision"
  PROVE  IInv'
<1> USE DEF IInv
<1>1. /\ task' \in [Tasks -> TaskType] /\ task'[Web] = task[Web]
      /\ task'[Usb].pc = s /\ task'[Usb].op = task[Usb].op /\ task'[Usb].owner = task[Usb].owner
  BY Distinct DEF MovesTo, Elsewhere
<1>2. s # "idle" /\ s \notin Holding
  BY DEF Holding, Copying, Changing, Replacing
<1>3. TypeInv' /\ Exclusion'
  BY <1>1, <1>2, Distinct DEF TypeInv, OtherTypes, Exclusion
<1>4. Roles' /\ Copies'
  BY <1>1, <1>2, Distinct DEF Roles, Copies, Copy, Holding, Copying, Changing
<1>5. Stop' /\ Chain' /\ Progress' /\ Whole'
  BY <1>1, <1>2, Distinct DEF Stop, Chain, Progress, Whole, Holding, Replacing
<1>6. Revival'
  BY <1>1, <1>2 DEF Revival, Safe
<1>7. QED
  BY <1>3, <1>4, <1>5, <1>6

\* It takes the mutex.
LEMMA Taken ==
  ASSUME IInv, NEW s \in {"mark", "forget"}, MovesTo(Usb, s), Rest, UNCHANGED <<nvs, ram>>,
         task[Usb].pc # "idle", mutex = Nobody, mutex' = Usb, Copy(Usb)',
         s = "mark" => task[Usb].op = "provision" /\ worker.pc # "busy"
  PROVE  IInv'
<1> USE DEF IInv
<1>1. /\ task' \in [Tasks -> TaskType] /\ task'[Web] = task[Web]
      /\ task'[Usb].pc = s /\ task'[Usb].op = task[Usb].op /\ task'[Usb].owner = task[Usb].owner
      /\ UNCHANGED <<worker, storage, migrating, setup, stopped>>
  BY Distinct DEF MovesTo, Elsewhere, Rest
<1>2. TypeInv' /\ Exclusion'
  BY <1>1, Distinct DEF TypeInv, OtherTypes, Exclusion
<1>3. Roles' /\ Copies'
  BY <1>1, Distinct DEF Roles, Copies, Copy, Replacing
<1>4. Stop' /\ Chain' /\ Progress' /\ Whole'
  BY <1>1, Distinct DEF Stop, Chain, Progress, Whole, Replacing
<1>5. Revival'
  BY <1>1 DEF Revival, Safe
<1>6. QED
  BY <1>2, <1>3, <1>4, <1>5

\* It has made its last write and waits for the restart.
LEMMA Done ==
  ASSUME IInv, MovesTo(Usb, "reboot"), Rest, Sound, UNCHANGED ram,
         task[Usb].pc # "idle", mutex = Usb, mutex' = Nobody
  PROVE  IInv'
<1> USE DEF IInv
<1>1. /\ task' \in [Tasks -> TaskType] /\ task'[Web] = task[Web]
      /\ task'[Usb].pc = "reboot" /\ task'[Usb].op = task[Usb].op
      /\ task'[Usb].owner = task[Usb].owner
      /\ UNCHANGED <<worker, storage, migrating, setup, stopped>>
  BY Distinct DEF MovesTo, Elsewhere, Rest
<1>2. task[Web].pc \notin Holding /\ storage.pc # "save" /\ ~migrating
  BY Distinct DEF Exclusion
<1>3. TypeInv' /\ Exclusion'
  BY <1>1, <1>2, Distinct
  DEF Sound, TypeInv, OtherTypes, Exclusion, Holding, Copying, Changing, Replacing
<1>4. Roles' /\ Copies'
  BY <1>1, <1>2, Distinct DEF Roles, Copies, Copy, Holding, Copying, Changing, Replacing
<1>5. Stop' /\ Chain' /\ Progress' /\ Whole'
  BY <1>1, Distinct DEF Sound, Stop, Chain, Progress, Replacing
<1>6. Revival'
  BY <1>1 DEF Sound, Revival, Safe
<1>7. QED
  BY <1>3, <1>4, <1>5, <1>6

\* The two outcomes of its last write.
LEMMA Finished ==
  ASSUME IInv, NEW new, Write(Usb, new, Leave(Usb, "reboot")), Rest,
         mutex = Usb, task[Usb].pc # "idle", nvs' \in {nvs, new} => Sound
  PROVE  IInv'
<1>1. CASE nvs' = new /\ Leave(Usb, "reboot") /\ UNCHANGED ram
  <2>1. MovesTo(Usb, "reboot")
    BY <1>1, Moved, Distinct DEF Leave, UsbSteps, IInv
  <2>2. QED
    BY <1>1, <2>1, Done DEF Leave
<1>2. CASE nvs' \in {nvs, new} /\ GiveUp(Usb) /\ Flag("fault")
  <2>1. Ended(Usb) /\ Calm /\ mutex' = Nobody
    BY <1>2, Returned, Faults, Distinct DEF GiveUp, Flag, IInv
  <2>2. QED
    BY <1>2, <2>1, Ending, Distinct
<1>3. QED
  BY <1>1, <1>2 DEF Write, Effects

\* One of the first four writes of a replacement.
LEMMA Replaced ==
  ASSUME IInv, NEW s \in Replacing, NEW new, Write(Usb, new, Step(Usb, s)), Rest,
         task[Usb].pc \in Replacing, nvs' \in {nvs, new} => Sound,
         nvs' = new /\ MovesTo(Usb, s) => Progress'
  PROVE  IInv'
<1>1. mutex = Usb /\ s \in UsbSteps /\ s \in Holding /\ task[Usb].pc \in Holding
  BY Distinct DEF IInv, Exclusion, UsbSteps, Holding
<1>2. CASE nvs' = new /\ MovesTo(Usb, s) /\ UNCHANGED <<mutex, ram>>
  <2>1. Copy(Usb)'
    BY <1>2 DEF MovesTo, Copy, Replacing, Copying, Changing
  <2>2. QED
    BY <1>1, <1>2, <2>1, Advance, Distinct
<1>3. CASE nvs' \in {nvs, new} /\ Ended(Usb) /\ mutex' = Nobody /\ Calm
  BY <1>1, <1>3, Ending, Distinct
<1>4. QED
  BY <1>1, <1>2, <1>3, Written, Distinct

LEMMA UsbPart == ASSUME IInv, UsbStep PROVE IInv'
<1> USE DEF IInv
<1>0. /\ task[Usb] \in TaskType /\ nvs \in NvsType /\ nvs.profile \in Profiles
      /\ task[Usb].owner \in Someone /\ Usb \in Tasks
  BY Distinct DEF TypeInv, NvsType, TaskType
<1>1. CASE Change(Usb)
  BY <1>0, <1>1, ChangeStep
<1>2. CASE LoadPrevious
  <2>1. task[Usb].pc = "load" /\ UNCHANGED <<nvs, mutex, ram>> /\ Rest
    BY <1>2 DEF LoadPrevious, At
  <2>2. PICK ok \in Reads :
           task' = [task EXCEPT ![Usb].pc = IF ok THEN "acquire" ELSE "wait", ![Usb].read = ok]
    BY <1>2 DEF LoadPrevious
  <2>3. ok \in BOOLEAN
    BY <1>0 DEF Reads, Readable, NvsType
  <2> DEFINE s == IF ok THEN "acquire" ELSE "wait"
             new == [task[Usb] EXCEPT !.pc = s, !.read = ok]
  <2>4. s \in {"acquire", "wait"} /\ (s = "wait" => ~ok)
    OBVIOUS
  <2>5. task' = [task EXCEPT ![Usb] = new]
    BY <2>2 DEF TypeInv
  <2> HIDE DEF s
  <2>6. /\ new \in TaskType /\ new.pc = s /\ new.read = ok /\ new.op = task[Usb].op
        /\ new.owner = task[Usb].owner /\ new.current = task[Usb].current
    BY <1>0, <2>3, <2>4 DEF TaskType, UsbSteps
  <2> HIDE DEF new
  <2>7. MovesTo(Usb, s) /\ task'[Usb].read = ok
    BY <1>0, <2>5, <2>6 DEF MovesTo, Elsewhere, TypeInv
  <2>8. QED
    BY <2>1, <2>4, <2>7, Onward DEF Rest, TypeInv, OtherTypes
<1>3. CASE Drain
  <2>1. task[Usb].pc = "wait" /\ UNCHANGED <<nvs, ram, worker, storage, migrating, setup>>
    BY <1>3 DEF Drain, At
  <2>2. CASE ram.busy
    <3>1. Return(Usb, FALSE) /\ UNCHANGED <<mutex, stopped>>
      BY <1>3, <2>2 DEF Drain
    <3>2. QED
      BY <1>0, <2>1, <3>1, Returned, Faults, Ending DEF Rest
  <2>3. CASE ~ram.busy /\ task[Usb].op = "wifi"
    <3>1. Goto(Usb, "wifi") /\ UNCHANGED mutex /\ stopped' = (stopped \/ task[Usb].read)
      BY <1>3, <2>3 DEF Drain, Step
    <3>2. MovesTo(Usb, "wifi")
      BY <1>0, <3>1, Moved DEF UsbSteps
    <3>3. QED
      BY <1>0, <2>1, <3>1, <3>2, Onward DEF TypeInv, OtherTypes, TaskType
  <2>4. CASE ~ram.busy /\ task[Usb].op # "wifi"
    <3>1. Goto(Usb, "validate") /\ UNCHANGED mutex /\ stopped' = (stopped \/ task[Usb].read)
      BY <1>3, <2>4 DEF Drain, Step
    <3>2. MovesTo(Usb, "validate")
      BY <1>0, <3>1, Moved DEF UsbSteps
    <3>3. task[Usb].op = "provision"
      BY <1>0, <2>1, <2>4 DEF Roles, TaskType
    <3>4. QED
      BY <1>0, <2>1, <3>1, <3>2, <3>3, Onward DEF TypeInv, OtherTypes, TaskType
  <2>5. QED
    BY <2>2, <2>3, <2>4
<1>4. CASE Validate
  <2>1. task[Usb].pc = "validate" /\ UNCHANGED <<nvs, mutex, ram>> /\ Rest
    BY <1>4 DEF Validate, At
  <2>2. CASE Goto(Usb, "exclude")
    <3>1. MovesTo(Usb, "exclude")
      BY <1>0, <2>2, Moved DEF UsbSteps
    <3>2. QED
      BY <2>1, <3>1, Onward DEF Rest, TypeInv, OtherTypes, Roles
  <2>3. CASE Return(Usb, FALSE)
    BY <1>0, <2>1, <2>3, Returned, Faults, Ending
  <2>4. QED
    BY <1>4, <2>2, <2>3 DEF Validate
<1>5. CASE Exclude
  <2>1. task[Usb].pc = "exclude" /\ mutex = Nobody /\ UNCHANGED <<nvs, ram>> /\ Rest
    BY <1>5 DEF Exclude, At
  <2>2. CASE Quiet
    <3>1. Goto(Usb, "mark") /\ mutex' = Usb
      BY <1>5, <2>2 DEF Exclude
    <3>2. MovesTo(Usb, "mark") /\ Copy(Usb)'
      BY <1>0, <3>1, Moved
      DEF UsbSteps, Holding, Copying, Changing, Replacing, Copy, MovesTo
    <3>3. task[Usb].op = "provision" /\ worker.pc # "busy"
      BY <2>1, <2>2 DEF Quiet, Roles, Chain
    <3>4. QED
      BY <2>1, <3>1, <3>2, <3>3, Taken
  <2>3. CASE ~Quiet
    BY <1>0, <1>5, <2>1, <2>3, Returned, Faults, Ending DEF Exclude
  <2>4. QED
    BY <2>2, <2>3
<1>6. CASE Mark
  <2> DEFINE new == [nvs EXCEPT !.marker = TRUE]
  <2>1. Write(Usb, new, Step(Usb, "empty")) /\ Rest /\ task[Usb].pc = "mark"
    BY <1>6 DEF Mark, At
  <2>2. new \in NvsType /\ new.marker /\ new.token = nvs.token
    BY <1>0 DEF NvsType
  <2>3. nvs' \in {nvs, new} => Sound
    BY <2>2, Unwritten DEF Sound, Whole
  <2>4. nvs' = new /\ MovesTo(Usb, "empty") => Progress'
    BY <2>2 DEF Progress, MovesTo
  <2>5. QED
    BY <2>1, <2>3, <2>4, Replaced DEF Replacing
<1>7. CASE Empty
  <2> DEFINE new == [nvs EXCEPT !.journal = Nobody]
  <2>1. Write(Usb, new, Step(Usb, "token")) /\ Rest /\ task[Usb].pc = "empty"
    BY <1>7 DEF Empty, At
  <2>2. nvs.marker
    BY <2>1 DEF Progress, Replacing
  <2>3. new \in NvsType /\ new.marker /\ new.token = nvs.token /\ new.journal = Nobody
    BY <1>0, <2>2, Distinct DEF NvsType
  <2>4. nvs' \in {nvs, new} => Sound
    BY <2>3, Unwritten DEF Sound, Whole
  <2>5. nvs' = new /\ MovesTo(Usb, "token") => Progress'
    BY <2>3 DEF Progress, MovesTo
  <2>6. QED
    BY <2>1, <2>4, <2>5, Replaced DEF Replacing
<1>8. CASE Token
  <2> DEFINE new == [nvs EXCEPT !.token = New]
  <2>1. Write(Usb, new, Step(Usb, "profile")) /\ Rest /\ task[Usb].pc = "token"
    BY <1>8 DEF Token, At
  <2>2. nvs.marker /\ nvs.journal = Nobody /\ ram.provisioning /\ worker.pc # "busy"
    BY <2>1 DEF Progress, Stop, Chain, Replacing
  <2>3. new \in NvsType /\ new.marker /\ new.token = task[Usb].owner /\ new.journal = Nobody
    BY <1>0, <2>2 DEF NvsType, New
  <2>4. nvs' \in {nvs, new} => Sound
    BY <2>2, <2>3, Unwritten DEF Sound, Whole
  <2>5. nvs' = new /\ MovesTo(Usb, "profile") => Progress'
    BY <2>3 DEF Progress, MovesTo
  <2>6. QED
    BY <2>1, <2>4, <2>5, Replaced DEF Replacing
<1>9. CASE Replace
  <2> DEFINE mine == [owner |-> New, disabled |-> TRUE, version |-> 2]
             new == [nvs EXCEPT !.profile = mine]
  <2>1. Write(Usb, new, Step(Usb, "complete")) /\ Rest /\ task[Usb].pc = "profile"
    BY <1>9 DEF Replace, At
  <2>2. nvs.marker /\ nvs.journal = Nobody /\ nvs.token = task[Usb].owner
    BY <2>1 DEF Progress, Replacing
  <2>3. mine \in Profiles /\ mine.owner = task[Usb].owner /\ mine.disabled
    BY <1>0 DEF Profiles, New
  <2> HIDE DEF mine
  <2>4. new \in NvsType /\ new.marker /\ new.token = nvs.token /\ new.journal = Nobody /\ new.profile = mine
    BY <1>0, <2>2, <2>3 DEF NvsType
  <2>5. nvs' \in {nvs, new} => Sound
    BY <2>4, Unwritten DEF Sound, Whole
  <2>6. nvs' = new /\ MovesTo(Usb, "complete") => Progress'
    BY <2>2, <2>3, <2>4 DEF Progress, MovesTo
  <2>7. Write(Usb, new, Step(Usb, "complete"))
    BY <2>1
  <2>8. QED
    BY <2>1, <2>5, <2>6, <2>7, Replaced DEF Replacing
<1>10. CASE Complete
  <2> DEFINE new == [nvs EXCEPT !.marker = FALSE]
  <2>1. Write(Usb, new, Leave(Usb, "reboot")) /\ Rest /\ task[Usb].pc = "complete"
    BY <1>10 DEF Complete, At
  <2>2. /\ nvs.journal = Nobody /\ nvs.token = task[Usb].owner
        /\ nvs.profile.owner = task[Usb].owner /\ nvs.profile.disabled
    BY <2>1 DEF Progress, Replacing
  <2>3. new \in NvsType /\ new.token = nvs.token /\ new.journal = nvs.journal /\ new.profile = nvs.profile
    BY <1>0 DEF NvsType
  <2>4. nvs' \in {nvs, new} => Sound
    BY <2>2, <2>3, Unwritten DEF Sound, Whole
  <2>5. mutex = Usb
    BY <1>0, <2>1 DEF Exclusion, Holding, Replacing
  <2>6. QED
    BY <2>1, <2>4, <2>5, Finished
<1>11. CASE Wifi
  <2>1. task[Usb].pc = "wifi" /\ mutex = Nobody /\ UNCHANGED <<nvs, ram>> /\ Rest
    BY <1>11 DEF Wifi, At
  <2>2. \/ /\ nvs.profile.disabled /\ mutex' = Usb
           /\ task' = [task EXCEPT ![Usb].pc = "forget", ![Usb].profile = nvs.profile]
        \/ Return(Usb, FALSE) /\ UNCHANGED mutex
    BY <1>11 DEF Wifi
  <2>3. CASE Return(Usb, FALSE) /\ UNCHANGED mutex
    BY <1>0, <2>1, <2>3, Returned, Faults, Ending
  <2>4. CASE /\ nvs.profile.disabled /\ mutex' = Usb
             /\ task' = [task EXCEPT ![Usb].pc = "forget", ![Usb].profile = nvs.profile]
    <3> DEFINE new == [task[Usb] EXCEPT !.pc = "forget", !.profile = nvs.profile]
    <3>1. task' = [task EXCEPT ![Usb] = new]
      BY <2>4 DEF TypeInv
    <3>2. /\ new \in TaskType /\ new.pc = "forget" /\ new.profile = nvs.profile
          /\ new.op = task[Usb].op /\ new.owner = task[Usb].owner
          /\ new.current = task[Usb].current
      BY <1>0 DEF TaskType, UsbSteps, Holding, Copying
    <3> HIDE DEF new
    <3>3. MovesTo(Usb, "forget") /\ task'[Usb].profile = nvs.profile
      BY <1>0, <3>1, <3>2 DEF MovesTo, Elsewhere, TypeInv
    <3>4. Copy(Usb)'
      BY <2>1, <2>4, <3>3 DEF Copy, MovesTo
    <3>5. QED
      BY <2>1, <2>4, <3>3, <3>4, Taken
  <2>5. QED
    BY <2>2, <2>3, <2>4
<1>12. CASE Forget
  <2> DEFINE new == [nvs EXCEPT !.journal = Nobody]
  <2>1. Write(Usb, new, Step(Usb, "store")) /\ Rest /\ task[Usb].pc = "forget"
    BY <1>12 DEF Forget, At
  <2>2. /\ new \in NvsType /\ new.marker = nvs.marker /\ new.token = nvs.token
        /\ new.profile = nvs.profile /\ new.journal = Nobody
    BY <1>0, Distinct DEF NvsType
  <2>3. nvs' \in {nvs, new} => Sound
    BY <2>2, Unwritten DEF Sound, Whole, Revival, Safe
  <2>4. mutex = Usb
    BY <1>0, <2>1 DEF Exclusion, Holding, Copying
  <2>5. CASE nvs' = new /\ MovesTo(Usb, "store") /\ Keeps(Usb) /\ UNCHANGED <<mutex, ram>>
    <3>1. Copy(Usb)'
      BY <1>0, <2>1, <2>2, <2>5 DEF Copies, Copy, MovesTo, Keeps, Copying
    <3>2. Progress'
      BY <2>5 DEF Progress, MovesTo, Replacing
    <3>3. QED
      BY <1>0, <2>1, <2>3, <2>4, <2>5, <3>1, <3>2, Advance, Distinct
      DEF Holding, Copying, Changing, Replacing
  <2>6. CASE nvs' \in {nvs, new} /\ Ended(Usb) /\ mutex' = Nobody /\ Calm
    BY <1>0, <2>1, <2>3, <2>4, <2>6, Ending
  <2>7. "store" \in UsbSteps
    BY DEF UsbSteps, Holding, Copying
  <2>8. QED
    BY <1>0, <2>1, <2>5, <2>6, <2>7, Written
<1>13. CASE StoreNew
  <2> DEFINE new == [nvs EXCEPT !.profile = task[Usb].profile]
  <2>1. Write(Usb, new, Leave(Usb, "reboot")) /\ Rest /\ task[Usb].pc = "store"
    BY <1>13 DEF StoreNew, Stored, At
  <2>2. /\ mutex = Usb /\ task[Usb].profile.owner = nvs.profile.owner
        /\ task[Usb].profile.disabled /\ task[Usb].profile \in Profiles
    BY <1>0, <2>1 DEF Exclusion, Holding, Copies, Copy, Copying, TaskType
  <2>3. nvs' \in {nvs, new} => Sound
    BY <1>0, <2>2, Unwritten DEF Sound, Whole, NvsType
  <2>4. QED
    BY <2>1, <2>2, <2>3, Finished
<1>14. CASE Restart
  BY <1>14, BootStep DEF Restart
<1>15. QED
  BY <1>1, <1>2, <1>3, <1>4, <1>5, <1>6, <1>7, <1>8, <1>9, <1>10, <1>11, <1>12, <1>13, <1>14
  DEF UsbStep

LEMMA Preserved == IInv /\ [Next]_vars => IInv'
<1> SUFFICES ASSUME IInv, [Next]_vars PROVE IInv'
  OBVIOUS
<1>1. CASE Requests
  BY <1>1, RequestStep DEF Requests
<1>2. CASE Change(Web) \/ UsbStep
  BY <1>2, ChangeStep, UsbPart, Distinct
<1>3. CASE UNCHANGED vars
  <2>1. UNCHANGED <<nvs, mutex, ram, task, worker, storage, migrating, setup, stopped>>
    BY <1>3 DEF vars
  <2>2. TypeInv' /\ Exclusion' /\ Stop' /\ Chain'
    BY <2>1 DEF IInv, TypeInv, OtherTypes, Exclusion, Stop, Chain
  <2>3. QED
    BY <2>1, <2>2, Frame DEF IInv
<1>4. QED
  BY <1>1, <1>2, <1>3, WorkerStep, StorageStep, LoginStep, SetupStep, BootStep
  DEF Next, PowerLoss

-----------------------------------------------------------------------------
(* What one step does to the installed records and to the request.          *)

OwnerKept == task'[Usb].owner \in {task[Usb].owner, Nobody}

Kept ==
    /\ nvs'.marker = nvs.marker /\ nvs'.profile.owner = nvs.profile.owner
    /\ nvs'.profile.version \in {nvs.profile.version, 2} /\ OwnerKept

Began == UNCHANGED nvs /\ task[Usb].pc = "idle" /\ task'[Usb].owner \in Incoming

Progressed ==
    /\ task[Usb].pc \in {"mark", "profile", "complete"} /\ OwnerKept
    /\ nvs'.profile.version \in {nvs.profile.version, 2}
    /\ nvs'.marker = (task[Usb].pc # "complete")
    /\ task[Usb].pc # "profile" => nvs'.profile = nvs.profile

LEMMA Outcome ==
  ASSUME TypeInv, NEW t \in Tasks, NEW s \in UsbSteps, NEW new,
         \/ Write(t, new, Step(t, s)) \/ Write(t, new, Leave(t, s)) \/ Write(t, new, GiveUp(t))
  PROVE  nvs' \in {nvs, new} /\ OwnerKept
<1>1. nvs' \in {nvs, new} /\ (Goto(t, s) \/ Return(t, FALSE))
  BY DEF Write, Effects, Step, Leave, GiveUp
<1>2. CASE Goto(t, s)
  BY <1>1, <1>2, Moved, Distinct DEF MovesTo, Elsewhere, OwnerKept
<1>3. CASE Return(t, FALSE)
  BY <1>1, <1>3, Returned, Idle, Distinct DEF Ended, Elsewhere, OwnerKept
<1>4. QED
  BY <1>1, <1>2, <1>3

LEMMA ChangeKeeps == ASSUME IInv, NEW t \in Tasks, Change(t) PROVE Kept
<1> USE DEF IInv
<1>0. /\ task[t] \in TaskType /\ task \in [Tasks -> TaskType] /\ nvs \in NvsType
      /\ nvs.profile \in Profiles /\ task[t].profile \in Profiles
  BY DEF TypeInv, NvsType, TaskType
<1>1. CASE UNCHANGED nvs
  <2>1. CASE Return(t, FALSE)
    BY <1>1, <2>1, Returned, Idle, Distinct DEF Ended, Elsewhere, OwnerKept, Kept
  <2>2. CASE ~Return(t, FALSE)
    <3>1. task'[Usb].owner = task[Usb].owner
      BY <1>0, <1>1, <2>2, Distinct
      DEF Change, Acquire, Clear, Save, Check, Cover, HandOver, LockTimeout, Write, Step, Leave,
          GiveUp, Goto, Return, TaskType
    <3>2. QED
      BY <1>1, <3>1 DEF Kept, OwnerKept
  <2>3. QED
    BY <2>1, <2>2
<1>2. CASE Clear(t)
  <2>1. nvs' \in {nvs, [nvs EXCEPT !.journal = Nobody]} /\ OwnerKept
    BY <1>2, Outcome DEF Clear, UsbSteps, Holding, Copying, Changing
  <2>2. QED
    BY <1>0, <2>1 DEF Kept, NvsType
<1>3. CASE Save(t) \/ Cover(t)
  <2>1. nvs' \in {nvs, [nvs EXCEPT !.profile = task[t].profile]} /\ OwnerKept
    BY <1>3, Outcome DEF Save, Cover, Stored, UsbSteps, Holding, Copying, Changing
  <2>2. task[t].profile.owner = nvs.profile.owner /\ task[t].profile.version = nvs.profile.version
    BY <1>3 DEF Save, Cover, At, Copies, Copy, Copying, Changing
  <2>3. QED
    BY <1>0, <2>1, <2>2 DEF Kept, NvsType
<1>4. QED
  BY <1>1, <1>2, <1>3 DEF Change, Acquire, Check, HandOver, LockTimeout

LEMMA UsbEffect == ASSUME IInv, UsbStep PROVE Kept \/ Progressed
<1> USE DEF IInv
<1>0. /\ task[Usb] \in TaskType /\ task \in [Tasks -> TaskType] /\ nvs \in NvsType
      /\ nvs.profile \in Profiles /\ task[Usb].profile \in Profiles /\ Usb \in Tasks
  BY Distinct DEF TypeInv, NvsType, TaskType
<1>1. CASE Change(Usb)
  BY <1>0, <1>1, ChangeKeeps
<1>2. CASE LoadPrevious \/ Drain \/ Validate \/ Exclude \/ Wifi \/ Restart
  <2>1. UNCHANGED nvs
    BY <1>2 DEF LoadPrevious, Drain, Validate, Exclude, Wifi, Restart, BootRest
  <2>2. CASE Restart
    BY <1>0, <2>1, <2>2, Idle DEF Restart, BootRest, Kept, OwnerKept
  <2>3. CASE Return(Usb, FALSE)
    BY <1>0, <2>1, <2>3, Idle DEF Return, Kept, OwnerKept
  <2>4. CASE ~Restart /\ ~Return(Usb, FALSE)
    <3>1. \/ \E s \in {"wifi", "validate", "exclude", "mark"} : Goto(Usb, s)
          \/ LoadPrevious
          \/ task' = [task EXCEPT ![Usb].pc = "forget", ![Usb].profile = nvs.profile]
      BY <1>2, <2>4 DEF Drain, Validate, Exclude, Wifi, Step
    <3>2. CASE LoadPrevious
      <4>1. PICK ok \in Reads :
               task' = [task EXCEPT ![Usb].pc = IF ok THEN "acquire" ELSE "wait", ![Usb].read = ok]
        BY <3>2 DEF LoadPrevious
      <4>2. task'[Usb].owner = task[Usb].owner
        BY <1>0, <4>1 DEF TaskType
      <4>3. QED
        BY <2>1, <4>2 DEF Kept, OwnerKept
    <3>3. CASE ~LoadPrevious
      <4>1. task'[Usb].owner = task[Usb].owner
        BY <1>0, <3>1, <3>3 DEF Goto, TaskType
      <4>2. QED
        BY <2>1, <4>1 DEF Kept, OwnerKept
    <3>4. QED
      BY <3>2, <3>3
  <2>5. QED
    BY <2>2, <2>3, <2>4
<1>3. CASE Empty \/ Token \/ Forget
  <2>1. OwnerKept /\ \/ nvs' = nvs \/ nvs' = [nvs EXCEPT !.journal = Nobody] \/ nvs' = [nvs EXCEPT !.token = New]
    BY <1>0, <1>3, Outcome DEF Empty, Token, Forget, UsbSteps, Holding, Copying, Replacing
  <2>2. QED
    BY <1>0, <2>1 DEF Kept, NvsType
<1>4. CASE StoreNew
  <2>1. nvs' \in {nvs, [nvs EXCEPT !.profile = task[Usb].profile]} /\ OwnerKept
    BY <1>0, <1>4, Outcome DEF StoreNew, Stored, UsbSteps
  <2>2. /\ task[Usb].profile.owner = nvs.profile.owner
        /\ task[Usb].profile.version = nvs.profile.version
    BY <1>0, <1>4 DEF StoreNew, At, Copies, Copy, Copying
  <2>3. QED
    BY <1>0, <2>1, <2>2 DEF Kept, NvsType
<1>5. CASE Mark
  <2>1. /\ nvs' \in {nvs, [nvs EXCEPT !.marker = TRUE]} /\ OwnerKept /\ task[Usb].pc = "mark"
    BY <1>0, <1>5, Outcome DEF Mark, At, UsbSteps, Holding, Replacing
  <2>2. QED
    BY <1>0, <2>1 DEF Kept, Progressed, NvsType
<1>6. CASE Replace
  <2> DEFINE mine == [owner |-> New, disabled |-> TRUE, version |-> 2]
  <2>1. nvs' \in {nvs, [nvs EXCEPT !.profile = mine]} /\ OwnerKept /\ task[Usb].pc = "profile"
    BY <1>0, <1>6, Outcome DEF Replace, At, UsbSteps, Holding, Replacing
  <2>2. nvs.marker
    BY <2>1 DEF Progress, Replacing
  <2>3. mine.version = 2
    OBVIOUS
  <2> HIDE DEF mine
  <2>4. nvs' = nvs \/ (nvs'.profile = mine /\ nvs'.marker = nvs.marker)
    BY <1>0, <2>1 DEF NvsType
  <2>5. QED
    BY <2>1, <2>2, <2>3, <2>4 DEF Kept, Progressed
<1>7. CASE Complete
  <2>1. /\ nvs' \in {nvs, [nvs EXCEPT !.marker = FALSE]} /\ OwnerKept /\ task[Usb].pc = "complete"
    BY <1>0, <1>7, Outcome DEF Complete, At, UsbSteps
  <2>2. QED
    BY <1>0, <2>1 DEF Kept, Progressed, NvsType
<1>8. QED
  BY <1>1, <1>2, <1>3, <1>4, <1>5, <1>6, <1>7 DEF UsbStep

LEMMA Effect == ASSUME IInv, [Next]_vars PROVE Kept \/ Began \/ Progressed
<1> USE DEF IInv
<1>0. task \in [Tasks -> TaskType] /\ nvs \in NvsType /\ nvs.profile \in Profiles /\ Usb \in Tasks
  BY Distinct DEF TypeInv, NvsType
<1>1. CASE Requests
  <2>1. UNCHANGED nvs
    BY <1>1 DEF Requests, WebMode, BeginProvision
  <2>2. CASE \E op \in {"off", "auto"} : WebMode(op)
    <3>1. task'[Usb].owner = task[Usb].owner
      BY <1>0, <2>2, Distinct DEF WebMode, Inhibit, TaskType
    <3>2. QED
      BY <2>1, <3>1 DEF Kept, OwnerKept
  <2>3. CASE \E o \in Incoming : BeginProvision("provision", o)
    <3>1. PICK o \in Incoming : BeginProvision("provision", o)
      BY <2>3
    <3>2. task'[Usb] = Begun("provision", "load", o) /\ task[Usb].pc = "idle"
      BY <1>0, <3>1 DEF BeginProvision, Inhibit, At
    <3>3. task'[Usb].owner = o
      BY <3>2 DEF Begun, IdleTask
    <3>4. QED
      BY <2>1, <3>2, <3>3 DEF Began
  <2>4. CASE BeginProvision("wifi", Nobody)
    <3>1. task'[Usb].owner = Nobody
      BY <1>0, <2>4 DEF BeginProvision, Inhibit, Begun, IdleTask
    <3>2. QED
      BY <2>1, <3>1 DEF Kept, OwnerKept
  <2>5. QED
    BY <1>1, <2>2, <2>3, <2>4 DEF Requests
<1>2. CASE Change(Web) \/ UsbStep
  BY <1>2, ChangeKeeps, UsbEffect, Distinct
<1>3. CASE Look \/ Claim \/ Recheck \/ Operate \/ Initialize \/ Decide \/ StorageLock \/ StorageSave \/ Apply
  <2>1. UNCHANGED task
    BY <1>3
    DEF Look, Claim, Recheck, Operate, Initialize, Decide, StorageLock, StorageSave, Apply, Others
  <2>2. nvs'.profile = nvs.profile /\ nvs'.marker = nvs.marker
    BY <1>0, <1>3
    DEF Look, Claim, Recheck, Operate, Initialize, Decide, StorageLock, StorageSave, Apply, Effects,
        NvsType
  <2>3. QED
    BY <2>1, <2>2 DEF Kept, OwnerKept
<1>4. CASE MigrateLock \/ MigrateStore
  <2>1. UNCHANGED task
    BY <1>4 DEF MigrateLock, MigrateStore
  <2>2. nvs' = nvs \/ nvs' = [nvs EXCEPT !.profile.version = 2]
    BY <1>4 DEF MigrateLock, MigrateStore
  <2>3. QED
    BY <1>0, <2>1, <2>2 DEF Kept, OwnerKept, NvsType, Profiles
<1>5. CASE SetupLoad \/ Recover \/ Configure \/ PowerLoss
  <2>1. nvs'.profile = nvs.profile /\ nvs'.marker = nvs.marker
    BY <1>0, <1>5 DEF SetupLoad, Recover, Configure, PowerLoss, BootRest, NvsType
  <2>2. OwnerKept
    BY <1>0, <1>5, Idle DEF SetupLoad, Recover, Configure, PowerLoss, BootRest, OwnerKept
  <2>3. QED
    BY <2>1, <2>2 DEF Kept
<1>6. CASE UNCHANGED vars
  BY <1>6 DEF vars, Kept, OwnerKept
<1>7. QED
  BY <1>1, <1>2, <1>3, <1>4, <1>5, <1>6 DEF Next

-----------------------------------------------------------------------------
(* The theorems.                                                            *)

\* IInv holds in every reachable state, for any sets of installations.
THEOREM Invariant == Spec => []IInv
  BY InitStep, Preserved, PTL DEF Spec

\* storage.cpp:71-98: profile, token and decision that a start would use are of
\* one installation, whatever is lost between the five writes.
THEOREM RecordsWhole == Spec => []WholeRecords
<1>1. IInv => WholeRecords
  BY DEF IInv, TypeInv, NvsType, Profiles, Whole, WholeRecords, Identity, Someone
<1>2. QED
  BY <1>1, Invariant, PTL

\* usb.cpp:76-85: what a replacement has stopped is DISABLED in flash, through
\* every failure and restart, until an AUTO command is accepted afterwards.
THEOREM RevivedNever == Spec => []NoRevival
<1>1. IInv => NoRevival
  BY DEF IInv, Revival, Safe, NoRevival
<1>2. QED
  BY <1>1, Invariant, PTL

\* app.cpp:58-66: no configuration in flight turns AUTO on while a replacement
\* is under way, or after it failed and before the restart.
THEOREM StoppedStays == Spec => []StaysStopped
<1>1. IInv => StaysStopped
  BY DEF IInv, Stop, StaysStopped
<1>2. QED
  BY <1>1, Invariant, PTL

\* storage.cpp:161-185: no command writes back a password record from before
\* the migration.
THEOREM MigrationKept == Spec => MigrationSticks
<1>1. IInv /\ [Next]_vars => [nvs.profile.version = 2 => nvs'.profile.version = 2]_vars
  <2> SUFFICES ASSUME IInv, [Next]_vars, nvs.profile.version = 2 PROVE nvs'.profile.version = 2
    OBVIOUS
  <2>1. QED
    BY Effect DEF Kept, Began, Progressed
<1>2. QED
  BY <1>1, Invariant, PTL DEF Spec, MigrationSticks

\* What IInv says the abstract variables are.
LEMMA Mapped == IInv => Identity = (IF nvs.marker THEN Nobody ELSE nvs.profile.owner)
  BY DEF IInv, Whole, Identity

\* The five writes, with failures and power losses anywhere between them, are
\* steps of the atomic replacement of Install or change nothing it sees.
THEOREM Implements == Spec => Installation!Init /\ [][Installation!Next]_(Installation!vars)
<1> USE DEF Installation!Init, Installation!Next, Installation!vars, Installation!Request,
            Installation!Ends, Installation!Withdraw, Installation!Commit, Installation!End
<1>1. Init => Installation!Init
  <2> SUFFICES ASSUME Init PROVE Installation!Init
    OBVIOUS
  <2>1. IInv
    BY InitStep
  <2>2. task[Usb].owner = Nobody
    BY Idle, Distinct DEF Init
  <2>3. Identity \in Owners \cup {Nobody}
    BY <2>1, Mapped DEF IInv, TypeInv, NvsType, Profiles, Someone
  <2>4. QED
    BY <2>2, <2>3
<1>2. IInv /\ IInv' /\ [Next]_vars => [Installation!Next]_(Installation!vars)
  <2> SUFFICES ASSUME IInv, IInv', [Next]_vars PROVE [Installation!Next]_(Installation!vars)
    OBVIOUS
  <2>1. /\ Identity = (IF nvs.marker THEN Nobody ELSE nvs.profile.owner)
        /\ Identity' = (IF nvs'.marker THEN Nobody ELSE nvs'.profile.owner)
    BY Mapped DEF IInv, Whole, Identity
  <2>2. task[Usb].pc = "idle" => task[Usb].owner = Nobody
    BY DEF IInv, Roles
  <2>3. CASE Kept
    <3>1. Identity' = Identity
      BY <2>1, <2>3 DEF Kept
    <3>2. QED
      BY <2>3, <3>1 DEF Kept, OwnerKept
  <2>4. CASE Began
    <3>1. Identity' = Identity
      BY <2>1, <2>4 DEF Began
    <3>2. task[Usb].owner = Nobody /\ task'[Usb].owner \in Owners
      BY <2>2, <2>4 DEF Began, Owners
    <3>3. QED
      BY <3>1, <3>2
  <2>5. CASE Progressed
    <3>1. task[Usb].owner # Nobody
      BY <2>5, Distinct DEF Progressed, IInv, Roles, Replacing
    <3>2. CASE task[Usb].pc # "complete"
      <4>1. Identity' = Nobody
        BY <2>1, <2>5, <3>2 DEF Progressed
      <4>2. QED
        BY <2>5, <3>1, <4>1 DEF Progressed, OwnerKept
    <3>3. CASE task[Usb].pc = "complete"
      <4>1. Identity = Nobody /\ Identity' = task[Usb].owner
        BY <2>1, <2>5, <3>3 DEF Progressed, IInv, Progress, Replacing
      <4>2. QED
        BY <2>5, <3>1, <4>1 DEF Progressed, OwnerKept
    <3>4. QED
      BY <3>2, <3>3
  <2>6. QED
    BY <2>3, <2>4, <2>5, Effect
<1>3. QED
  BY <1>1, <1>2, Invariant, PTL DEF Spec
=============================================================================
