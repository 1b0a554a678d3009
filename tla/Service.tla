------------------------------ MODULE Service ------------------------------
(***************************************************************************)
(* Services and the groups they are switched on or off in: a set in memory *)
(* and a json file per service that a restart loads again.                 *)
(*                                                                         *)
(*   service/service.h          Service                                    *)
(*   service/service_manager.h  GroupEnable, GroupDisable                  *)
(*   module_manager.h           InitModule                                 *)
(*   modules/module/botmanage/sv.h  the commands that switch services      *)
(*                                                                         *)
(* Names are unique in this program, so the range of services of a name in *)
(* ServiceManager holds one service.  SaveConfig truncates the file before *)
(* it writes it, and nobody looks at the state of the stream: the process  *)
(* may end between the two, the file may not open, and the write may fail. *)
(* The constructor of a module may throw before it registers a service: it *)
(* reads a config file, tables of the database or a page.                  *)
(***************************************************************************)
EXTENDS Integers

CONSTANTS
    Services,
    Groups,
    Handlers,   \* coroutines that handle a command of sv.h
    Manage,     \* Manage[s]: Service::manage_permission_
    Module,     \* Module[s]: the module that registers s
    Perms,      \* permissions of the users who send commands
    Faults,     \* "disk": a file may not open, or a write fail; "modules": a
                \* module's constructor may throw
    None,       \* nobody, nothing, no answer yet
    Absent,     \* no config file
    Torn        \* a config file that is empty or cut short

SUPERUSER == 7
ALWAYS_ON == 8

ASSUME ManageAssumption == \A s \in Services : Manage[s] \in 0 .. ALWAYS_ON
ASSUME PermsAssumption == Perms \subseteq 0 .. SUPERUSER
ASSUME FaultsAssumption == Faults \subseteq {"disk", "modules"}
ASSUME NoneAssumption ==
    None \notin Services /\ None \notin Handlers /\ None \notin BOOLEAN

Config == [enable_on_default : BOOLEAN, groups : SUBSET Groups]

ASSUME FileAssumption ==
    Absent \notin Config /\ Torn \notin Config /\ Absent # Torn

VARIABLES
    main,       \* "down", "loading" the modules, "up"
    toload,     \* services whose constructor has not run
    creating,   \* the service whose constructor is writing its first file
    loaded,     \* services that exist and are registered
    enable_on_default, groups,   \* the members of Service
    mutex,      \* Service::mutex_
    file,       \* file[s]: config_path_ of s
    pc, command,    \* a handler, and the service, group and switch it was sent
    failed,     \* history: services whose last save failed or was cut short
    threw,      \* history: modules that in this start threw, but not for a torn file
    answered    \* history: the status a command was last told to have set

memory == <<toload, creating, loaded, enable_on_default, groups>>
handlers == <<mutex, pc, command>>
vars == <<main, memory, handlers, file, failed, threw, answered>>

\* GroupStatus and CheckIsEnable
Status(config, g) == config.enable_on_default = (g \notin config.groups)

InMemory(s) == [enable_on_default |-> enable_on_default[s], groups |-> groups[s]]

Init ==
    /\ main = "down"
    /\ toload = {} /\ creating = None /\ loaded = {}
    /\ enable_on_default = [s \in Services |-> TRUE]
    /\ groups = [s \in Services |-> {}]
    /\ mutex = [s \in Services |-> None]
    /\ pc = [h \in Handlers |-> "idle"]
    /\ command = [h \in Handlers |-> None]
    /\ file = [s \in Services |-> Absent]
    /\ failed = {} /\ threw = {}
    /\ answered = [s \in Services |-> [g \in Groups |-> None]]

-----------------------------------------------------------------------------
(***************************************************************************)
(* Start of the program: the modules construct their services              *)
(***************************************************************************)

Start ==
    /\ main = "down"
    /\ main' = "loading" /\ toload' = Services /\ threw' = {}
    /\ UNCHANGED <<creating, loaded, enable_on_default, groups, handlers, file,
                   failed, answered>>

\* The constructor of s ends, and RegisterService follows.
Construct(s, config) ==
    /\ toload' = toload \ {s} /\ loaded' = loaded \cup {s}
    /\ enable_on_default' = [enable_on_default EXCEPT ![s] = config.enable_on_default]
    /\ groups' = [groups EXCEPT ![s] = config.groups]

Loading(s) == main = "loading" /\ creating = None /\ s \in toload

\* LoadConfig of a service that cannot be switched returns at once.  The default
\* is an argument of the constructor and may change with the program's version.
LoadAlwaysOn(s) ==
    /\ Loading(s) /\ Manage[s] = ALWAYS_ON
    /\ \E eod \in BOOLEAN :
         Construct(s, [enable_on_default |-> eod, groups |-> {}])
    /\ UNCHANGED <<main, creating, handlers, file, failed, threw, answered>>

\* LoadConfig without a file: the stream creates it empty ...
LoadAbsent(s) ==
    /\ Loading(s) /\ Manage[s] # ALWAYS_ON /\ file[s] = Absent
    /\ creating' = s
    /\ file' = [file EXCEPT ![s] = Torn]
    /\ UNCHANGED <<main, toload, loaded, enable_on_default, groups, handlers,
                   failed, threw, answered>>

\* ... or cannot open it, unnoticed: the service has its default.
LoadUnsaved(s) ==
    /\ Loading(s) /\ Manage[s] # ALWAYS_ON /\ file[s] = Absent /\ "disk" \in Faults
    /\ \E eod \in BOOLEAN :
         Construct(s, [enable_on_default |-> eod, groups |-> {}])
    /\ failed' = failed \cup {s}
    /\ UNCHANGED <<main, creating, handlers, file, threw, answered>>

\* The save of s writes a config, or fails unnoticed.
Save(s, config) ==
    \/ /\ file' = [file EXCEPT ![s] = config]
       /\ failed' = failed \ {s}
    \/ /\ "disk" \in Faults
       /\ failed' = failed \cup {s}
       /\ UNCHANGED file

\* An empty file that was created gets the default config.
LoadDefault(s) ==
    /\ creating = s /\ creating' = None
    /\ \E eod \in BOOLEAN : LET config == [enable_on_default |-> eod, groups |-> {}]
                            IN  Construct(s, config) /\ Save(s, config)
    /\ UNCHANGED <<main, handlers, threw, answered>>

\* Mutant: the default of the constructor wins over that of the file.
LoadFile_OwnDefault(s) ==
    /\ Loading(s) /\ Manage[s] # ALWAYS_ON /\ file[s] \in Config
    /\ \E eod \in BOOLEAN : Construct(s, [file[s] EXCEPT !.enable_on_default = eod])
    /\ UNCHANGED <<main, creating, handlers, file, failed, threw, answered>>

\* LoadConfig with a file: the default is that of the file.
LoadFile(s) ==
    /\ Loading(s) /\ Manage[s] # ALWAYS_ON /\ file[s] \in Config
    /\ Construct(s, file[s])
    /\ UNCHANGED <<main, creating, handlers, file, failed, threw, answered>>

\* Mutant: the exception reaches the caller of InitModule.
Abandon_All(m) == toload' = {}

\* A module that throws registers no further service: InitModule logs it.
Abandon(m) == toload' = {t \in toload : Module[t] # m}

\* LoadConfig throws a parse error.
LoadTorn(s) ==
    /\ Loading(s) /\ Manage[s] # ALWAYS_ON /\ file[s] = Torn
    /\ Abandon(Module[s])
    /\ UNCHANGED <<main, creating, loaded, enable_on_default, groups, handlers,
                   file, failed, threw, answered>>

\* A file that does not open reads as an empty one.
LoadUnread(s) ==
    /\ Loading(s) /\ Manage[s] # ALWAYS_ON /\ file[s] \in Config /\ "disk" \in Faults
    /\ Abandon(Module[s])
    /\ threw' = threw \cup {Module[s]}
    /\ UNCHANGED <<main, creating, loaded, enable_on_default, groups, handlers,
                   file, failed, answered>>

\* The constructor of the module of s throws before any of its services is
\* constructed.
ModuleThrows(s) ==
    /\ Loading(s) /\ "modules" \in Faults
    /\ \A t \in Services : Module[t] = Module[s] => t \in toload
    /\ Abandon(Module[s])
    /\ threw' = threw \cup {Module[s]}
    /\ UNCHANGED <<main, creating, loaded, enable_on_default, groups, handlers,
                   file, failed, answered>>

\* main() starts the server when every module has been initialised.
Serve ==
    /\ main = "loading" /\ toload = {} /\ creating = None
    /\ main' = "up"
    /\ UNCHANGED <<memory, handlers, file, failed, threw, answered>>

-----------------------------------------------------------------------------
(***************************************************************************)
(* A command that switches a service on or off in its group                *)
(***************************************************************************)

MayManage(p, s) == p >= Manage[s]

\* HandleEnableSv, HandleDisableSv up to the lock; a service that is not
\* registered and a permission that is too low are answered by a refusal.
Command(h) ==
    /\ main = "up" /\ pc[h] = "idle"
    /\ \E s \in loaded, g \in Groups, on \in BOOLEAN, p \in Perms :
         /\ MayManage(p, s)
         /\ command' = [command EXCEPT ![h] = [service |-> s, group |-> g, on |-> on]]
    /\ pc' = [pc EXCEPT ![h] = "waiting"]
    /\ UNCHANGED <<main, memory, mutex, file, failed, threw, answered>>

\* GroupEnable and GroupDisable save after every erase, but only after an
\* insertion that changed the set.
Saves(s, g, on) == on = enable_on_default[s] \/ g \notin groups[s]

\* Take the lock and change the set: groups_ holds the exceptions to the default.
Switch(h) ==
    /\ pc[h] = "waiting"
    /\ LET s == command[h].service
           g == command[h].group
           on == command[h].on
       IN  /\ mutex[s] = None
           /\ mutex' = [mutex EXCEPT ![s] = h]
           /\ groups' = [groups EXCEPT ![s] =
                 IF on = enable_on_default[s] THEN @ \ {g} ELSE @ \cup {g}]
           /\ pc' = [pc EXCEPT ![h] =
                       IF Saves(s, g, on) THEN "modified" ELSE "saved"]
    /\ UNCHANGED <<main, toload, creating, loaded, enable_on_default, command,
                   file, failed, threw, answered>>

\* Mutant: the lock does not cover SaveConfig.
Truncate_Unlocked(h) ==
    /\ pc[h] = "modified"
    /\ pc' = [pc EXCEPT ![h] = "truncated"]
    /\ mutex' = [mutex EXCEPT ![command[h].service] = None]
    /\ file' = [file EXCEPT ![command[h].service] = Torn]
    /\ UNCHANGED <<main, memory, command, failed, threw, answered>>

\* SaveConfig opens the stream, which truncates the file ...
Truncate(h) ==
    /\ pc[h] = "modified"
    /\ pc' = [pc EXCEPT ![h] = "truncated"]
    /\ file' = [file EXCEPT ![command[h].service] = Torn]
    /\ UNCHANGED <<main, memory, mutex, command, failed, threw, answered>>

\* ... or it does not open, unnoticed, and the file stays as it was ...
OpenFails(h) ==
    /\ pc[h] = "modified" /\ "disk" \in Faults
    /\ pc' = [pc EXCEPT ![h] = "saved"]
    /\ failed' = failed \cup {command[h].service}
    /\ UNCHANGED <<main, memory, mutex, command, file, threw, answered>>

\* ... and writes the set to an open one.
Write(h) ==
    /\ pc[h] = "truncated"
    /\ pc' = [pc EXCEPT ![h] = "saved"]
    /\ Save(command[h].service, InMemory(command[h].service))
    /\ UNCHANGED <<main, memory, mutex, command, threw, answered>>

\* The lock is released and the command answered.
Unlock(h) ==
    /\ pc[h] = "saved"
    /\ pc' = [pc EXCEPT ![h] = "idle"]
    /\ command' = [command EXCEPT ![h] = None]
    /\ mutex' = [mutex EXCEPT ![command[h].service] = None]
    /\ answered' = [answered EXCEPT ![command[h].service][command[h].group] =
                      command[h].on]
    /\ UNCHANGED <<main, memory, file, failed, threw>>

-----------------------------------------------------------------------------
\* The handlers that are inside a lock.
InLock(h) == pc[h] \in {"modified", "truncated", "saved"}

\* Services whose save the end of the process cuts short.
CutShort ==
    {s \in Services : \/ creating = s
                      \/ \E h \in Handlers : pc[h] = "truncated" /\ command[h].service = s}

\* The process ends at any time and loses all but the files.  A command that was
\* cut short promises nothing, and neither does what only memory knew because its
\* save had failed.
Crash ==
    /\ main # "down" /\ main' = "down"
    /\ toload' = {} /\ creating' = None /\ loaded' = {}
    /\ enable_on_default' = [s \in Services |-> TRUE]
    /\ groups' = [s \in Services |-> {}]
    /\ mutex' = [s \in Services |-> None]
    /\ pc' = [h \in Handlers |-> "idle"]
    /\ command' = [h \in Handlers |-> None]
    /\ failed' = failed \cup CutShort
    /\ answered' = [s \in Services |-> [g \in Groups |->
           IF \/ s \in failed'
              \/ \E h \in Handlers : /\ InLock(h) /\ command[h].service = s
                                     /\ command[h].group = g
             THEN None ELSE answered[s][g]]]
    /\ UNCHANGED <<file, threw>>

Load(s) ==
    \/ LoadAlwaysOn(s) \/ LoadAbsent(s) \/ LoadUnsaved(s) \/ LoadDefault(s)
    \/ LoadFile(s) \/ LoadTorn(s) \/ LoadUnread(s) \/ ModuleThrows(s)
Handle(h) ==
    \/ Command(h) \/ Switch(h) \/ Truncate(h) \/ OpenFails(h) \/ Write(h)
    \/ Unlock(h)

Next ==
    \/ Start \/ Serve \/ Crash
    \/ \E s \in Services : Load(s)
    \/ \E h \in Handlers : Handle(h)

Spec == Init /\ [][Next]_vars

-----------------------------------------------------------------------------
(***************************************************************************)
(* Properties                                                              *)
(***************************************************************************)
CommandType == [service : Services, group : Groups, on : BOOLEAN]

\* Every variable has its type.
TypeOK ==
    /\ main \in {"down", "loading", "up"}
    /\ toload \subseteq Services /\ loaded \subseteq Services
    /\ creating \in Services \cup {None}
    /\ enable_on_default \in [Services -> BOOLEAN]
    /\ groups \in [Services -> SUBSET Groups]
    /\ mutex \in [Services -> Handlers \cup {None}]
    /\ file \in [Services -> Config \cup {Absent, Torn}]
    /\ pc \in [Handlers -> {"idle", "waiting", "modified", "truncated", "saved"}]
    /\ command \in [Handlers -> CommandType \cup {None}]
    /\ \A h \in Handlers : pc[h] # "idle" => command[h] \in CommandType
    /\ failed \subseteq Services
    /\ threw \subseteq {Module[s] : s \in Services}
    /\ answered \in [Services -> [Groups -> BOOLEAN \cup {None}]]

Quiet(s) == mutex[s] = None

\* A switch that was answered is in the file, where it outlives the process,
\* unless the last save of the service failed or was cut short (GroupEnable and
\* GroupDisable save under the lock, before they answer).
Durable ==
    \A s \in Services, g \in Groups :
        Quiet(s) /\ s \notin failed /\ answered[s][g] # None =>
            file[s] \in Config /\ Status(file[s], g) = answered[s][g]

\* A service that is loaded has the status its commands were answered, however
\* often the program, or a version of it with other defaults, has been restarted:
\* what was answered is lost by a restart after a save that failed, and by
\* nothing else.
Remembered ==
    \A s \in loaded, g \in Groups :
        Quiet(s) /\ answered[s][g] # None =>
            Status(InMemory(s), g) = answered[s][g]

\* A service is missing from a running program only if its module threw in this
\* start, for itself or for a file that did not open, or has a service whose last
\* save failed or was cut short: InitModule contains the exception.
MissingOnlyByFault ==
    main = "up" => \A s \in Services \ loaded :
        Module[s] \in threw \/ \E t \in failed : Module[t] = Module[s]

\* No user switches a service that is always on: its level is above that of
\* every user, and no file is made for it.
AlwaysOnUntouched ==
    \A s \in Services : Manage[s] = ALWAYS_ON => file[s] = Absent /\ groups[s] = {}
=============================================================================
