--------------------------- MODULE ServiceProofs ---------------------------
(***************************************************************************)
(* Proofs about Service, for every set of services, groups and handlers,   *)
(* every assignment of modules and permissions, and with or without faults *)
(* of the disk and of the modules.  IInv is the inductive invariant: it    *)
(* follows the contents of a file through the steps of a save.             *)
(***************************************************************************)
EXTENDS Service, TLAPS

\* Who runs when: handlers only while the program is up, constructors only
\* while it loads.
RunInv ==
    /\ main # "up" => \A h \in Handlers : pc[h] = "idle"
    /\ main # "loading" => creating = None /\ toload = {}
    /\ main = "down" => loaded = {}
    /\ \A s \in toload : s \notin loaded
    /\ creating # None => creating \in toload
    /\ \A h \in Handlers : pc[h] # "idle" =>
          command[h].service \in loaded /\ Manage[command[h].service] # ALWAYS_ON

\* The mutex of a service belongs to the one handler that is inside.
LockInv ==
    /\ \A h \in Handlers : InLock(h) => mutex[command[h].service] = h
    /\ \A s \in Services : mutex[s] # None =>
          InLock(mutex[s]) /\ command[mutex[s]].service = s

\* What the switch of a handler inside the lock has done to the set.
SwitchInv ==
    \A h \in Handlers : InLock(h) =>
        Status(InMemory(command[h].service), command[h].group) = command[h].on

\* A file is torn while it is being saved, and after a save that failed.
TornInv ==
    /\ creating # None => file[creating] = Torn
    /\ \A h \in Handlers : pc[h] = "truncated" => file[command[h].service] = Torn
    /\ \A s \in Services : file[s] = Torn =>
          \/ s \in failed \/ s = creating
          \/ mutex[s] # None /\ pc[mutex[s]] = "truncated"

\* Apart from g, the file of s holds what is in memory.
FileAgrees(s, g) ==
    /\ file[s] \in Config
    /\ file[s].enable_on_default = enable_on_default[s]
    /\ \A k \in Groups \ {g} : k \in file[s].groups <=> k \in groups[s]

\* The file of a loaded service holds its set, up to the group a handler has
\* switched and not yet saved.
FileFollows(s) ==
    /\ Quiet(s) \/ pc[mutex[s]] = "saved" => file[s] = InMemory(s)
    /\ ~Quiet(s) /\ pc[mutex[s]] = "modified" =>
          FileAgrees(s, command[mutex[s]].group)

FileInv ==
    \A s \in loaded : s \notin failed /\ Manage[s] # ALWAYS_ON => FileFollows(s)

Switching(s, g) ==
    \E h \in Handlers : InLock(h) /\ command[h].service = s /\ command[h].group = g

\* Every answer is remembered, in memory or, for a service that is not loaded,
\* in its file.
AnswerKept(s, g) ==
    /\ s \in loaded /\ ~Switching(s, g) =>
          answered[s][g] = Status(InMemory(s), g)
    /\ s \notin loaded =>
          /\ s \notin failed
          /\ file[s] \in Config /\ answered[s][g] = Status(file[s], g)

AnswerInv ==
    \A s \in Services, g \in Groups : answered[s][g] # None => AnswerKept(s, g)

AlwaysOnInv ==
    \A s \in Services : Manage[s] = ALWAYS_ON =>
        file[s] = Absent /\ groups[s] = {} /\ \A g \in Groups : answered[s][g] = None

\* A service stays out of a running program after an exception of its module,
\* which a torn file of the module causes, too.
MissingInv ==
    main # "down" => \A s \in Services \ (loaded \cup toload) :
        \/ Module[s] \in threw
        \/ \E t \in failed \ (loaded \cup toload) : Module[t] = Module[s]

IInv ==
    /\ TypeOK /\ RunInv /\ LockInv /\ SwitchInv /\ TornInv /\ FileInv
    /\ AnswerInv /\ AlwaysOnInv /\ MissingInv

LEMMA InitIInv == Init => IInv
<1> SUFFICES ASSUME Init PROVE IInv OBVIOUS
<1> USE NoneAssumption, FileAssumption DEF Init
<1>1. TypeOK BY DEF TypeOK
<1>2. RunInv /\ LockInv BY DEF RunInv, LockInv, InLock
<1>3. SwitchInv /\ TornInv BY DEF SwitchInv, TornInv, InLock
<1>4. FileInv /\ AnswerInv BY DEF FileInv, AnswerInv, TypeOK
<1>5. AlwaysOnInv /\ MissingInv BY DEF AlwaysOnInv, MissingInv
<1> QED BY <1>1, <1>2, <1>3, <1>4, <1>5 DEF IInv

LEMMA NewConfig ==
    \A eod \in BOOLEAN : [enable_on_default |-> eod, groups |-> {}] \in Config
BY DEF Config

LEMMA ConfigInMemory == TypeOK => \A s \in Services : InMemory(s) \in Config
BY DEF TypeOK, InMemory, Config

\* The constructor of s puts its config into memory, and touches no other service.
LEMMA Constructed ==
    ASSUME TypeOK, NEW s \in Services, NEW config \in Config, Construct(s, config)
    PROVE  /\ toload' \subseteq Services /\ loaded' \subseteq Services
           /\ enable_on_default' \in [Services -> BOOLEAN]
           /\ groups' \in [Services -> SUBSET Groups]
           /\ InMemory(s)' = config
           /\ \A t \in Services \ {s} : InMemory(t)' = InMemory(t)
<1>1. config.enable_on_default \in BOOLEAN /\ config.groups \in SUBSET Groups
  BY DEF Config
<1>2. config = [enable_on_default |-> config.enable_on_default,
                groups |-> config.groups]
  BY DEF Config
<1> QED BY <1>1, <1>2 DEF TypeOK, Construct, InMemory

\* A save writes the config, or leaves the file and a mark that it failed.
LEMMA Saved ==
    ASSUME TypeOK, NEW s \in Services, NEW config \in Config, Save(s, config)
    PROVE  /\ file' \in [Services -> Config \cup {Absent, Torn}]
           /\ failed' \subseteq Services
           /\ \/ file'[s] = config /\ failed' = failed \ {s}
              \/ file' = file /\ failed' = failed \cup {s}
           /\ \A t \in Services \ {s} : file'[t] = file[t]
           /\ config # Torn /\ config # Absent
BY FileAssumption DEF TypeOK, Save

\* While services are loaded, nobody is inside a lock.
LEMMA LoadingQuiet ==
    TypeOK /\ RunInv /\ LockInv =>
        /\ main # "up" => \A s \in Services : mutex[s] = None
        /\ creating # None => main = "loading"
BY NoneAssumption DEF TypeOK, RunInv, LockInv, InLock

\* LoadDefault in one piece.
LEMMA DefaultLoaded ==
    ASSUME TypeOK, RunInv, NEW s \in Services, LoadDefault(s)
    PROVE  \E config \in Config :
              /\ config # Torn /\ config # Absent
              /\ InMemory(s)' = config
              /\ \A t \in Services \ {s} : InMemory(t)' = InMemory(t)
              /\ \A t \in Services \ {s} : file'[t] = file[t]
              /\ \/ file'[s] = config /\ failed' = failed \ {s}
                 \/ file' = file /\ failed' = failed \cup {s}
              /\ creating = s /\ creating' = None /\ s \notin loaded
              /\ toload' = toload \ {s} /\ loaded' = loaded \cup {s}
              /\ UNCHANGED <<main, handlers, threw, answered>>
<1> DEFINE New(eod) == [enable_on_default |-> eod, groups |-> {}]
<1>1. PICK eod \in BOOLEAN : Construct(s, New(eod)) /\ Save(s, New(eod))
  BY DEF LoadDefault
<1>2. New(eod) \in Config BY NewConfig
<1>3. s \notin loaded BY NoneAssumption DEF LoadDefault, RunInv
<1>4. toload' = toload \ {s} /\ loaded' = loaded \cup {s} BY <1>1 DEF Construct
<1>5. creating = s /\ creating' = None /\ UNCHANGED <<main, handlers, threw, answered>>
  BY DEF LoadDefault
<1> HIDE DEF New
<1>6. InMemory(s)' = New(eod) /\ \A t \in Services \ {s} : InMemory(t)' = InMemory(t)
  BY <1>1, <1>2, Constructed
<1>7. /\ New(eod) # Torn /\ New(eod) # Absent
      /\ \A t \in Services \ {s} : file'[t] = file[t]
      /\ \/ file'[s] = New(eod) /\ failed' = failed \ {s}
         \/ file' = file /\ failed' = failed \cup {s}
  BY <1>1, <1>2, Saved
<1> QED BY <1>2, <1>3, <1>4, <1>5, <1>6, <1>7

\* Every step keeps the types.
LEMMA TypeStep == IInv /\ [Next]_vars => TypeOK'
<1> SUFFICES ASSUME IInv, [Next]_vars PROVE TypeOK' OBVIOUS
<1> USE NoneAssumption DEF RunInv, TypeOK, CommandType, memory, handlers
<1>0. TypeOK /\ RunInv BY DEF IInv
<1>1. CASE UNCHANGED vars BY <1>0, <1>1 DEF vars
<1>2. CASE Start BY <1>2, <1>0 DEF Start
<1>3. CASE Serve BY <1>3, <1>0 DEF Serve
<1>4. CASE Crash BY <1>4, <1>0 DEF Crash, CutShort
<1>5. ASSUME NEW s \in Services, Load(s) PROVE TypeOK'
  <2>1. CASE LoadAlwaysOn(s) BY <2>1, <1>0 DEF LoadAlwaysOn, Loading, Construct
  <2>2. CASE LoadAbsent(s) BY <2>2, <1>0 DEF LoadAbsent, Loading
  <2>3. CASE LoadDefault(s)
    <3> DEFINE New(eod) == [enable_on_default |-> eod, groups |-> {}]
    <3>1. PICK eod \in BOOLEAN : Construct(s, New(eod)) /\ Save(s, New(eod))
      BY <2>3 DEF LoadDefault
    <3>2. New(eod) \in Config BY NewConfig
    <3> HIDE DEF New
    <3> QED BY <2>3, <1>0, <3>1, <3>2, Constructed, Saved DEF LoadDefault
  <2>4. CASE LoadFile(s)
    <3>1. file[s] \in Config /\ Construct(s, file[s]) BY <2>4 DEF LoadFile
    <3> QED BY <2>4, <1>0, <3>1, Constructed DEF LoadFile
  <2>5. CASE LoadTorn(s) BY <2>5, <1>0 DEF LoadTorn, Loading, Abandon
  <2>6. CASE LoadUnsaved(s) BY <2>6, <1>0 DEF LoadUnsaved, Loading, Construct
  <2>7. CASE LoadUnread(s) BY <2>7, <1>0 DEF LoadUnread, Loading, Abandon
  <2>8. CASE ModuleThrows(s) BY <2>8, <1>0 DEF ModuleThrows, Loading, Abandon
  <2> QED BY <1>5, <2>1, <2>2, <2>3, <2>4, <2>5, <2>6, <2>7, <2>8 DEF Load
<1>6. ASSUME NEW h \in Handlers, Handle(h) PROVE TypeOK'
  <2>1. CASE Command(h) BY <2>1, <1>0 DEF Command, MayManage
  <2>2. CASE Switch(h) BY <2>2, <1>0 DEF Switch, Saves
  <2>3. CASE Truncate(h) BY <2>3, <1>0 DEF Truncate
  <2>4. CASE Write(h)
    <3>1. command[h].service \in Services BY <2>4, <1>0 DEF Write
    <3>2. InMemory(command[h].service) \in Config BY <1>0, <3>1, ConfigInMemory
    <3> QED BY <2>4, <1>0, <3>1, <3>2, Saved DEF Write
  <2>5. CASE Unlock(h) BY <2>5, <1>0 DEF Unlock
  <2>6. CASE OpenFails(h) BY <2>6, <1>0 DEF OpenFails
  <2> QED BY <1>6, <2>1, <2>2, <2>3, <2>4, <2>5, <2>6 DEF Handle
<1> QED BY <1>1, <1>2, <1>3, <1>4, <1>5, <1>6 DEF Next

\* Handlers and constructors never overlap.
LEMMA RunStep == IInv /\ [Next]_vars => RunInv'
<1> SUFFICES ASSUME IInv, [Next]_vars PROVE RunInv' OBVIOUS
<1> USE NoneAssumption DEF RunInv, TypeOK, CommandType, memory, handlers
<1>0. TypeOK /\ RunInv BY DEF IInv
<1>1. CASE UNCHANGED vars BY <1>0, <1>1 DEF vars
<1>2. CASE Start BY <1>2, <1>0 DEF Start
<1>3. CASE Serve BY <1>3, <1>0 DEF Serve
<1>4. CASE Crash BY <1>4, <1>0 DEF Crash, CutShort
<1>5. ASSUME NEW s \in Services, Load(s) PROVE RunInv'
  <2>1. CASE LoadAlwaysOn(s) BY <2>1, <1>0 DEF LoadAlwaysOn, Loading, Construct
  <2>2. CASE LoadAbsent(s) BY <2>2, <1>0 DEF LoadAbsent, Loading
  <2>3. CASE LoadDefault(s) BY <2>3, <1>0 DEF LoadDefault, Construct, Save
  <2>4. CASE LoadFile(s) BY <2>4, <1>0 DEF LoadFile, Loading, Construct
  <2>5. CASE LoadTorn(s) BY <2>5, <1>0 DEF LoadTorn, Loading, Abandon
  <2>6. CASE LoadUnsaved(s) BY <2>6, <1>0 DEF LoadUnsaved, Loading, Construct
  <2>7. CASE LoadUnread(s) BY <2>7, <1>0 DEF LoadUnread, Loading, Abandon
  <2>8. CASE ModuleThrows(s) BY <2>8, <1>0 DEF ModuleThrows, Loading, Abandon
  <2> QED BY <1>5, <2>1, <2>2, <2>3, <2>4, <2>5, <2>6, <2>7, <2>8 DEF Load
<1>6. ASSUME NEW h \in Handlers, Handle(h) PROVE RunInv'
  <2>1. CASE Command(h)
    <3>1. \A p \in Perms, t \in Services : MayManage(p, t) => Manage[t] # ALWAYS_ON
      BY PermsAssumption, ManageAssumption DEF MayManage, ALWAYS_ON, SUPERUSER
    <3> QED BY <2>1, <1>0, <3>1 DEF Command
  <2>2. CASE Switch(h) BY <2>2, <1>0 DEF Switch, Saves
  <2>3. CASE Truncate(h) BY <2>3, <1>0 DEF Truncate
  <2>4. CASE Write(h) BY <2>4, <1>0 DEF Write, Save
  <2>5. CASE Unlock(h) BY <2>5, <1>0 DEF Unlock
  <2>6. CASE OpenFails(h) BY <2>6, <1>0 DEF OpenFails
  <2> QED BY <1>6, <2>1, <2>2, <2>3, <2>4, <2>5, <2>6 DEF Handle
<1> QED BY <1>1, <1>2, <1>3, <1>4, <1>5, <1>6 DEF Next

\* A mutex is taken when it is free and released by its holder.
LEMMA LockStep == IInv /\ [Next]_vars => LockInv'
<1> SUFFICES ASSUME IInv, [Next]_vars PROVE LockInv' OBVIOUS
<1> USE NoneAssumption DEF RunInv, LockInv, InLock, TypeOK, CommandType, memory, handlers
<1>0. TypeOK /\ RunInv /\ LockInv BY DEF IInv
<1>1. CASE UNCHANGED vars BY <1>0, <1>1 DEF vars
<1>2. CASE Start BY <1>2, <1>0 DEF Start
<1>3. CASE Serve BY <1>3, <1>0 DEF Serve
<1>4. CASE Crash BY <1>4, <1>0 DEF Crash, CutShort
<1>5. ASSUME NEW s \in Services, Load(s) PROVE LockInv'
  <2>1. CASE LoadAlwaysOn(s) BY <2>1, <1>0 DEF LoadAlwaysOn, Loading, Construct
  <2>2. CASE LoadAbsent(s) BY <2>2, <1>0 DEF LoadAbsent, Loading
  <2>3. CASE LoadDefault(s) BY <2>3, <1>0 DEF LoadDefault, Construct, Save
  <2>4. CASE LoadFile(s) BY <2>4, <1>0 DEF LoadFile, Loading, Construct
  <2>5. CASE LoadTorn(s) BY <2>5, <1>0 DEF LoadTorn, Loading, Abandon
  <2>6. CASE LoadUnsaved(s) BY <2>6, <1>0 DEF LoadUnsaved, Loading, Construct
  <2>7. CASE LoadUnread(s) BY <2>7, <1>0 DEF LoadUnread, Loading, Abandon
  <2>8. CASE ModuleThrows(s) BY <2>8, <1>0 DEF ModuleThrows, Loading, Abandon
  <2> QED BY <1>5, <2>1, <2>2, <2>3, <2>4, <2>5, <2>6, <2>7, <2>8 DEF Load
<1>6. ASSUME NEW h \in Handlers, Handle(h) PROVE LockInv'
  <2>1. CASE Command(h) BY <2>1, <1>0 DEF Command, MayManage
  <2>2. CASE Switch(h) BY <2>2, <1>0 DEF Switch, Saves
  <2>3. CASE Truncate(h) BY <2>3, <1>0 DEF Truncate
  <2>4. CASE Write(h) BY <2>4, <1>0 DEF Write, Save
  <2>5. CASE Unlock(h) BY <2>5, <1>0 DEF Unlock
  <2>6. CASE OpenFails(h) BY <2>6, <1>0 DEF OpenFails
  <2> QED BY <1>6, <2>1, <2>2, <2>3, <2>4, <2>5, <2>6 DEF Handle
<1> QED BY <1>1, <1>2, <1>3, <1>4, <1>5, <1>6 DEF Next

\* A handler inside the lock has made the switch.
LEMMA SwitchStep == IInv /\ [Next]_vars => SwitchInv'
<1> SUFFICES ASSUME IInv, [Next]_vars PROVE SwitchInv' OBVIOUS
<1> USE NoneAssumption DEF RunInv, LockInv, SwitchInv, InLock, Status, InMemory, TypeOK, CommandType, memory, handlers
<1>0. TypeOK /\ RunInv /\ LockInv /\ SwitchInv BY DEF IInv
<1>1. CASE UNCHANGED vars BY <1>0, <1>1 DEF vars
<1>2. CASE Start BY <1>2, <1>0 DEF Start
<1>3. CASE Serve BY <1>3, <1>0 DEF Serve
<1>4. CASE Crash BY <1>4, <1>0 DEF Crash, CutShort
<1>5. ASSUME NEW s \in Services, Load(s) PROVE SwitchInv'
  <2>1. CASE LoadAlwaysOn(s) BY <2>1, <1>0 DEF LoadAlwaysOn, Loading, Construct
  <2>2. CASE LoadAbsent(s) BY <2>2, <1>0 DEF LoadAbsent, Loading
  <2>3. CASE LoadDefault(s) BY <2>3, <1>0 DEF LoadDefault, Construct, Save
  <2>4. CASE LoadFile(s) BY <2>4, <1>0 DEF LoadFile, Loading, Construct
  <2>5. CASE LoadTorn(s) BY <2>5, <1>0 DEF LoadTorn, Loading, Abandon
  <2>6. CASE LoadUnsaved(s) BY <2>6, <1>0 DEF LoadUnsaved, Loading, Construct
  <2>7. CASE LoadUnread(s) BY <2>7, <1>0 DEF LoadUnread, Loading, Abandon
  <2>8. CASE ModuleThrows(s) BY <2>8, <1>0 DEF ModuleThrows, Loading, Abandon
  <2> QED BY <1>5, <2>1, <2>2, <2>3, <2>4, <2>5, <2>6, <2>7, <2>8 DEF Load
<1>6. ASSUME NEW h \in Handlers, Handle(h) PROVE SwitchInv'
  <2>1. CASE Command(h) BY <2>1, <1>0 DEF Command, MayManage
  <2>2. CASE Switch(h) BY <2>2, <1>0 DEF Switch, Saves
  <2>3. CASE Truncate(h) BY <2>3, <1>0 DEF Truncate
  <2>4. CASE Write(h) BY <2>4, <1>0 DEF Write, Save
  <2>5. CASE Unlock(h) BY <2>5, <1>0 DEF Unlock
  <2>6. CASE OpenFails(h) BY <2>6, <1>0 DEF OpenFails
  <2> QED BY <1>6, <2>1, <2>2, <2>3, <2>4, <2>5, <2>6 DEF Handle
<1> QED BY <1>1, <1>2, <1>3, <1>4, <1>5, <1>6 DEF Next

\* A file is torn by the save that is under way, or by one that failed.
LEMMA TornStep == IInv /\ [Next]_vars => TornInv'
<1> SUFFICES ASSUME IInv, [Next]_vars PROVE TornInv' OBVIOUS
<1> USE NoneAssumption DEF RunInv, LockInv, TornInv, InLock, TypeOK, CommandType, memory, handlers
<1>0. TypeOK /\ RunInv /\ LockInv /\ TornInv BY DEF IInv
<1>1. CASE UNCHANGED vars BY <1>0, <1>1 DEF vars
<1>2. CASE Start BY <1>2, <1>0 DEF Start
<1>3. CASE Serve BY <1>3, <1>0 DEF Serve
<1>4. CASE Crash BY <1>4, <1>0 DEF Crash, CutShort
<1>5. ASSUME NEW s \in Services, Load(s) PROVE TornInv'
  <2>1. CASE LoadAlwaysOn(s) BY <2>1, <1>0 DEF LoadAlwaysOn, Loading, Construct
  <2>2. CASE LoadAbsent(s) BY <2>2, <1>0, FileAssumption DEF LoadAbsent, Loading
  <2>3. CASE LoadDefault(s) BY <2>3, <1>0, DefaultLoaded, LoadingQuiet
  <2>4. CASE LoadFile(s) BY <2>4, <1>0 DEF LoadFile, Loading, Construct
  <2>5. CASE LoadTorn(s) BY <2>5, <1>0 DEF LoadTorn, Loading, Abandon
  <2>6. CASE LoadUnsaved(s) BY <2>6, <1>0 DEF LoadUnsaved, Loading, Construct
  <2>7. CASE LoadUnread(s) BY <2>7, <1>0 DEF LoadUnread, Loading, Abandon
  <2>8. CASE ModuleThrows(s) BY <2>8, <1>0 DEF ModuleThrows, Loading, Abandon
  <2> QED BY <1>5, <2>1, <2>2, <2>3, <2>4, <2>5, <2>6, <2>7, <2>8 DEF Load
<1>6. ASSUME NEW h \in Handlers, Handle(h) PROVE TornInv'
  <2>1. CASE Command(h) BY <2>1, <1>0 DEF Command, MayManage
  <2>2. CASE Switch(h) BY <2>2, <1>0 DEF Switch, Saves
  <2>3. CASE Truncate(h) BY <2>3, <1>0 DEF Truncate
  <2>4. CASE Write(h)
    <3>1. command[h].service \in Services BY <2>4, <1>0 DEF Write
    <3>2. InMemory(command[h].service) \in Config BY <1>0, <3>1, ConfigInMemory
    <3> DEFINE s == command[h].service
    <3>3. creating = None /\ UNCHANGED <<creating, mutex, command>>
      BY <2>4, <1>0 DEF Write
    <3>4. mutex[s] = h /\ pc[h] = "truncated" /\ file[s] = Torn BY <2>4, <1>0 DEF Write
    <3>5. \A k \in Handlers : pc'[k] = "truncated" <=> pc[k] = "truncated" /\ k # h
      BY <2>4, <1>0 DEF Write
    <3>6. /\ \A t \in Services \ {s} : file'[t] = file[t]
          /\ \/ file'[s] # Torn /\ failed' = failed \ {s}
             \/ file' = file /\ failed' = failed \cup {s}
      BY <2>4, <1>0, <3>1, <3>2, Saved DEF Write
    <3>7. \A k \in Handlers : pc'[k] = "truncated" => command[k].service # s
      BY <1>0, <3>4, <3>5
    <3>9. \A k \in Handlers : pc'[k] = "truncated" => file'[command'[k].service] = Torn
      <4> SUFFICES ASSUME NEW k \in Handlers, pc'[k] = "truncated"
                   PROVE  file'[command[k].service] = Torn
        BY <3>3
      <4>1. command[k].service # s /\ pc[k] = "truncated" BY <3>5, <3>7
      <4>2. command[k].service \in Services BY <1>0, <4>1
      <4>3. file[command[k].service] = Torn BY <1>0, <4>1
      <4> QED BY <3>6, <4>1, <4>2, <4>3
    <3>10. ASSUME NEW t \in Services, file'[t] = Torn
           PROVE  \/ t \in failed' \/ t = creating'
                  \/ mutex'[t] # None /\ pc'[mutex'[t]] = "truncated"
      <4>1. CASE t = s BY <3>6, <3>10, <4>1
      <4>2. CASE t # s
        <5>1. file[t] = Torn BY <3>6, <3>10, <4>2
        <5>2. mutex[t] # h BY <1>0, <2>4, <4>2 DEF Write
        <5>3. t \in failed \/ (mutex[t] # None /\ pc[mutex[t]] = "truncated")
          <6>1. \/ t \in failed \/ t = creating
                \/ mutex[t] # None /\ pc[mutex[t]] = "truncated"
            BY <1>0, <5>1
          <6>2. t # creating BY <3>3
          <6> QED BY <6>1, <6>2
        <5>4. mutex[t] # None => mutex[t] \in Handlers BY <1>0
        <5> QED BY <3>3, <3>5, <3>6, <4>2, <5>2, <5>3, <5>4
      <4> QED BY <4>1, <4>2
    <3> QED BY <3>3, <3>9, <3>10
  <2>5. CASE Unlock(h) BY <2>5, <1>0 DEF Unlock
  <2>6. CASE OpenFails(h) BY <2>6, <1>0 DEF OpenFails
  <2> QED BY <1>6, <2>1, <2>2, <2>3, <2>4, <2>5, <2>6 DEF Handle
<1> QED BY <1>1, <1>2, <1>3, <1>4, <1>5, <1>6 DEF Next

\* The file follows the set through a save.
LEMMA FileStep == IInv /\ [Next]_vars => FileInv'
<1> SUFFICES ASSUME IInv, [Next]_vars,
                    NEW t \in loaded', t \notin failed', Manage[t] # ALWAYS_ON
             PROVE  FileFollows(t)'
  BY DEF FileInv
<1> USE NoneAssumption DEF TypeOK, CommandType, memory, handlers, RunInv, LockInv,
                           InLock, Quiet, FileInv
<1>0. TypeOK /\ RunInv /\ LockInv /\ TornInv /\ FileInv BY DEF IInv
<1>1. CASE UNCHANGED vars
  BY <1>0, <1>1 DEF vars, FileFollows, FileAgrees, InMemory
<1>2. CASE Start \/ Serve
  BY <1>0, <1>2 DEF Start, Serve, FileFollows, FileAgrees, InMemory
<1>3. CASE Crash BY <1>3 DEF Crash
<1>4. ASSUME NEW s \in Services, Load(s) PROVE FileFollows(t)'
  <2> SUFFICES file'[t] = InMemory(t)' /\ Quiet(t)'
    BY DEF FileFollows
  <2>1. t \in loaded /\ t \notin failed /\ mutex[t] = None => file[t] = InMemory(t)
    BY <1>0 DEF FileFollows
  <2>2. CASE LoadAlwaysOn(s)
    <3>1. t # s /\ t \in loaded BY <2>2 DEF LoadAlwaysOn, Construct
    <3>2. InMemory(t)' = InMemory(t) /\ UNCHANGED <<file, failed, mutex>>
      BY <1>0, <2>2, <3>1 DEF LoadAlwaysOn, Construct, InMemory
    <3>3. mutex[t] = None BY <1>0, <2>2, <3>1, LoadingQuiet DEF LoadAlwaysOn, Loading
    <3> QED BY <2>1, <3>1, <3>2, <3>3
  <2>3. CASE LoadAbsent(s)
    <3>1. t \in loaded /\ t # s BY <1>0, <2>3 DEF LoadAbsent, Loading
    <3>2. InMemory(t)' = InMemory(t) /\ file'[t] = file[t] /\ UNCHANGED <<failed, mutex>>
      BY <1>0, <2>3, <3>1 DEF LoadAbsent, InMemory
    <3>3. mutex[t] = None BY <1>0, <2>3, <3>1, LoadingQuiet DEF LoadAbsent, Loading
    <3> QED BY <2>1, <3>1, <3>2, <3>3
  <2>4. CASE LoadDefault(s)
    <3>1. mutex'[t] = None BY <1>0, <2>4, LoadingQuiet, DefaultLoaded
    <3>2. CASE t = s BY <1>0, <2>4, <3>1, <3>2, DefaultLoaded
    <3>3. CASE t # s
      <4>1. t \in loaded /\ file'[t] = file[t] /\ InMemory(t)' = InMemory(t) /\ t \notin failed
        BY <1>0, <2>4, <3>3, DefaultLoaded
      <4> QED BY <1>0, <2>1, <2>4, <3>1, <3>3, <4>1, DefaultLoaded
    <3> QED BY <3>2, <3>3
  <2>5. CASE LoadFile(s)
    <3>1. file[s] \in Config /\ Construct(s, file[s]) BY <2>5 DEF LoadFile
    <3>2. InMemory(s)' = file[s] /\ \A r \in Services \ {s} : InMemory(r)' = InMemory(r)
      BY <1>0, <3>1, Constructed
    <3>3. UNCHANGED <<file, failed, mutex>> /\ mutex[t] = None /\ t \in loaded \cup {s}
      BY <1>0, <2>5, LoadingQuiet DEF LoadFile, Loading, Construct
    <3> QED BY <1>0, <2>1, <3>2, <3>3
  <2>6. CASE LoadTorn(s) \/ LoadUnread(s) \/ ModuleThrows(s)
    <3>1. UNCHANGED <<file, failed, mutex>> /\ mutex[t] = None /\ t \in loaded
      BY <1>0, <2>6, LoadingQuiet DEF LoadTorn, LoadUnread, ModuleThrows, Loading
    <3>2. InMemory(t)' = InMemory(t)
      BY <2>6 DEF LoadTorn, LoadUnread, ModuleThrows, InMemory
    <3> QED BY <2>1, <3>1, <3>2
  <2>7. CASE LoadUnsaved(s)
    <3>1. t # s /\ t \in loaded /\ t \notin failed
      BY <1>0, <2>7 DEF LoadUnsaved, Construct
    <3>2. InMemory(t)' = InMemory(t) /\ UNCHANGED <<file, mutex>>
      BY <1>0, <2>7, <3>1 DEF LoadUnsaved, Construct, InMemory
    <3>3. mutex[t] = None BY <1>0, <2>7, <3>1, LoadingQuiet DEF LoadUnsaved, Loading
    <3> QED BY <2>1, <3>1, <3>2, <3>3
  <2> QED BY <1>4, <2>2, <2>3, <2>4, <2>5, <2>6, <2>7 DEF Load
<1>5. ASSUME NEW h \in Handlers, Handle(h) PROVE FileFollows(t)'
  <2>1. t \in loaded /\ t \in Services /\ UNCHANGED loaded
    BY <1>0, <1>5 DEF Handle, Command, Switch, Truncate, OpenFails, Write, Unlock
  <2>2. t \notin failed => FileFollows(t) BY <1>0, <2>1
  <2>3. CASE Command(h)
    <3>1. pc[h] = "idle" => mutex[t] # h BY <1>0, <2>1
    <3>2. InMemory(t)' = InMemory(t) BY <2>3 DEF Command, InMemory
    <3> QED BY <1>0, <2>1, <2>2, <2>3, <3>1, <3>2
        DEF Command, FileFollows, FileAgrees
  <2>4. CASE Switch(h)
    <3> DEFINE s == command[h].service
               g == command[h].group
    <3>1. s \in Services /\ g \in Groups /\ mutex[s] = None BY <1>0, <2>4 DEF Switch
    <3>2. mutex[t] # h BY <1>0, <2>1, <2>4 DEF Switch
    <3>3. UNCHANGED <<file, failed, command, enable_on_default>> BY <2>4 DEF Switch
    <3>4. CASE t # s
      <4>1. InMemory(t)' = InMemory(t) /\ mutex'[t] = mutex[t]
        BY <1>0, <2>1, <2>4, <3>1, <3>4 DEF Switch, InMemory
      <4>2. pc'[mutex[t]] = pc[mutex[t]]
        BY <1>0, <2>1, <2>4, <3>2 DEF Switch
      <4>3. groups'[t] = groups[t] BY <1>0, <2>1, <2>4, <3>1, <3>4 DEF Switch
      <4> QED BY <2>2, <3>3, <4>1, <4>2, <4>3 DEF FileFollows, FileAgrees
    <3>5. CASE t = s
      <4>1. file[s] = InMemory(s) BY <2>2, <3>1, <3>3, <3>5 DEF FileFollows
      <4>2. mutex'[s] = h /\ ~Quiet(s)' BY <1>0, <2>4, <3>1 DEF Switch
      <4>3. \A k \in Groups \ {g} : k \in groups'[s] <=> k \in groups[s]
        BY <1>0, <2>4, <3>1 DEF Switch
      <4>4. CASE Saves(s, g, command[h].on)
        <5>1. pc'[h] = "modified" BY <1>0, <2>4, <4>4 DEF Switch
        <5>2. FileAgrees(s, g)'
          <6>1. file[s] \in Config BY <1>0, <3>1, <4>1, ConfigInMemory
          <6>2. /\ file[s].enable_on_default = enable_on_default[s]
                /\ file[s].groups = groups[s]
            BY <4>1 DEF InMemory
          <6> QED BY <3>3, <4>3, <6>1, <6>2 DEF FileAgrees
        <5> QED BY <3>3, <3>5, <4>2, <5>1, <5>2 DEF FileFollows
      <4>5. CASE ~Saves(s, g, command[h].on)
        <5>1. pc'[h] = "saved" BY <1>0, <2>4, <4>5 DEF Switch
        <5>2. groups'[s] = groups[s]
          <6>1. command[h].on # enable_on_default[s] /\ g \in groups[s]
            BY <4>5 DEF Saves
          <6>2. groups'[s] = groups[s] \cup {g} BY <1>0, <2>4, <3>1, <6>1 DEF Switch
          <6> QED BY <6>1, <6>2
        <5>3. InMemory(s)' = InMemory(s) BY <3>3, <5>2 DEF InMemory
        <5> QED BY <3>3, <3>5, <4>1, <4>2, <5>1, <5>3 DEF FileFollows
      <4> QED BY <4>4, <4>5
    <3> QED BY <3>4, <3>5
  <2>5. CASE Truncate(h)
    <3>1. command[h].service \in Services BY <1>0, <2>5 DEF Truncate
    <3>2. UNCHANGED <<failed, command, mutex, groups, enable_on_default>>
      BY <2>5 DEF Truncate
    <3>3. CASE mutex[t] = h
      BY <1>0, <2>5, <3>2, <3>3 DEF Truncate, FileFollows
    <3>4. CASE mutex[t] # h
      <4>1. t # command[h].service BY <1>0, <2>5, <3>4 DEF Truncate
      <4>2. file'[t] = file[t] /\ pc'[mutex[t]] = pc[mutex[t]]
        BY <1>0, <2>1, <2>5, <3>1, <3>4, <4>1 DEF Truncate
      <4>3. InMemory(t)' = InMemory(t) BY <3>2 DEF InMemory
      <4> QED BY <2>2, <3>2, <4>2, <4>3 DEF FileFollows, FileAgrees
    <3> QED BY <3>3, <3>4
  <2>6. CASE Write(h)
    <3> DEFINE s == command[h].service
    <3>1. s \in Services BY <1>0, <2>6 DEF Write
    <3>2. UNCHANGED <<command, mutex, groups, enable_on_default>>
      BY <2>6 DEF Write
    <3>3. \A r \in Services : InMemory(r)' = InMemory(r) BY <3>2 DEF InMemory
    <3>4. InMemory(s) \in Config /\ Save(s, InMemory(s))
      BY <1>0, <2>6, <3>1, ConfigInMemory DEF Write
    <3>5. CASE mutex[t] = h
      <4>1. t = s BY <1>0, <2>1, <3>5
      <4>2. file'[s] = InMemory(s) BY <1>0, <3>1, <3>4, <4>1 DEF Save
      <4>3. pc'[h] = "saved" BY <1>0, <2>6 DEF Write
      <4> QED BY <3>1, <3>2, <3>3, <3>5, <4>1, <4>2, <4>3 DEF FileFollows
    <3>6. CASE mutex[t] # h
      <4>1. t # s BY <1>0, <2>6, <3>6 DEF Write
      <4>2. file'[t] = file[t] /\ t \notin failed BY <1>0, <2>1, <3>1, <3>4, <4>1 DEF Save
      <4>3. pc'[mutex[t]] = pc[mutex[t]] BY <1>0, <2>1, <2>6, <3>6 DEF Write
      <4> QED BY <2>1, <2>2, <3>2, <3>3, <4>2, <4>3 DEF FileFollows, FileAgrees
    <3> QED BY <3>5, <3>6
  <2>7. CASE Unlock(h)
    <3> DEFINE s == command[h].service
    <3>1. s \in Services /\ mutex[s] = h /\ pc[h] = "saved" BY <1>0, <2>7 DEF Unlock
    <3>2. UNCHANGED <<file, failed, groups, enable_on_default>> BY <2>7 DEF Unlock
    <3>3. InMemory(t)' = InMemory(t) BY <3>2 DEF InMemory
    <3>4. CASE t = s
      <4>1. mutex'[t] = None BY <1>0, <2>7, <3>1, <3>4 DEF Unlock
      <4>2. file[t] = InMemory(t) BY <2>2, <3>1, <3>2, <3>4 DEF FileFollows
      <4> QED BY <3>2, <3>3, <4>1, <4>2 DEF FileFollows
    <3>5. CASE t # s
      <4>1. mutex'[t] = mutex[t] /\ mutex[t] # h
        BY <1>0, <2>1, <2>7, <3>1, <3>5 DEF Unlock
      <4>2. pc'[mutex[t]] = pc[mutex[t]] /\ command'[mutex[t]] = command[mutex[t]]
        BY <1>0, <2>1, <2>7, <4>1 DEF Unlock
      <4> QED BY <2>2, <3>2, <3>3, <4>1, <4>2 DEF FileFollows, FileAgrees
    <3> QED BY <3>4, <3>5
  <2>8. CASE OpenFails(h)
    <3>1. command[h].service \in Services BY <1>0, <2>8 DEF OpenFails
    <3>2. UNCHANGED <<file, command, mutex, groups, enable_on_default>>
      BY <2>8 DEF OpenFails
    <3>3. t # command[h].service /\ t \notin failed BY <2>8 DEF OpenFails
    <3>4. mutex[t] # h BY <1>0, <2>1, <3>3
    <3>5. pc'[mutex[t]] = pc[mutex[t]] BY <1>0, <2>1, <2>8, <3>4 DEF OpenFails
    <3>6. InMemory(t)' = InMemory(t) BY <3>2 DEF InMemory
    <3> QED BY <2>2, <3>2, <3>3, <3>5, <3>6 DEF FileFollows, FileAgrees
  <2> QED BY <1>5, <2>3, <2>4, <2>5, <2>6, <2>7, <2>8 DEF Handle
<1> QED BY <1>1, <1>2, <1>3, <1>4, <1>5 DEF Next

\* No answer is forgotten.
LEMMA AnswerStep == IInv /\ [Next]_vars => AnswerInv'
<1> SUFFICES ASSUME IInv, [Next]_vars,
                    NEW t \in Services, NEW g \in Groups, answered'[t][g] # None
             PROVE  AnswerKept(t, g)'
  BY DEF AnswerInv
<1> USE NoneAssumption DEF TypeOK, CommandType, memory, handlers, RunInv, LockInv,
                           InLock
<1>0. /\ TypeOK /\ RunInv /\ LockInv /\ SwitchInv /\ TornInv /\ FileInv
      /\ AnswerInv /\ AlwaysOnInv
  BY DEF IInv
<1>1. answered[t][g] # None => AnswerKept(t, g) BY <1>0 DEF AnswerInv
<1>2. answered[t][g] # None => Manage[t] # ALWAYS_ON BY <1>0 DEF AlwaysOnInv
<1>3. CASE UNCHANGED vars
  BY <1>1, <1>3 DEF vars, AnswerKept, Switching, InMemory
<1>4. CASE Start \/ Serve
  BY <1>1, <1>4 DEF Start, Serve, AnswerKept, Switching, InMemory
<1>5. CASE Crash
  <2>1. loaded' = {} /\ file' = file BY <1>5 DEF Crash
  <2>3. /\ answered'[t][g] = answered[t][g] /\ ~Switching(t, g)
        /\ t \notin failed'
    BY <1>5 DEF Crash, Switching
  <2>2. SUFFICES file[t] \in Config /\ answered'[t][g] = Status(file[t], g)
    BY <2>1, <2>3 DEF AnswerKept
  <2>4. t \notin failed /\ \A h \in Handlers :
           ~(pc[h] = "truncated" /\ command[h].service = t)
    BY <1>5, <2>3 DEF Crash, CutShort
  <2>5. CASE t \notin loaded BY <1>1, <2>3, <2>4, <2>5 DEF AnswerKept
  <2>6. CASE t \in loaded
    <3>1. FileFollows(t) BY <1>0, <1>2, <2>3, <2>4, <2>6 DEF FileInv
    <3>2. answered[t][g] = Status(InMemory(t), g)
      BY <1>1, <2>3, <2>6 DEF AnswerKept
    <3>3. CASE mutex[t] = None \/ pc[mutex[t]] = "saved"
      <4>1. file[t] = InMemory(t) BY <3>1, <3>3 DEF FileFollows, Quiet
      <4> QED BY <1>0, <2>3, <3>2, <4>1, ConfigInMemory
    <3>4. CASE mutex[t] # None /\ pc[mutex[t]] = "modified"
      <4>1. FileAgrees(t, command[mutex[t]].group)
        BY <3>1, <3>4 DEF FileFollows, Quiet
      <4>2. command[mutex[t]].group # g
        BY <1>0, <2>3, <3>4 DEF Switching
      <4>3. /\ file[t] \in Config
            /\ file[t].enable_on_default = enable_on_default[t]
            /\ g \in file[t].groups <=> g \in groups[t]
        BY <4>1, <4>2 DEF FileAgrees
      <4>4. Status(file[t], g) = Status(InMemory(t), g)
        BY <4>3 DEF Status, InMemory
      <4> QED BY <2>3, <3>2, <4>3, <4>4
    <3> QED BY <1>0, <2>4, <3>3, <3>4
  <2> QED BY <2>5, <2>6
<1>6. ASSUME NEW s \in Services, Load(s) PROVE AnswerKept(t, g)'
  <2>1. UNCHANGED <<answered, pc, command>>
    BY <1>6 DEF Load, LoadAlwaysOn, LoadAbsent, LoadUnsaved, LoadDefault, LoadFile,
                LoadTorn, LoadUnread, ModuleThrows
  <2>2. Switching(t, g)' <=> Switching(t, g) BY <2>1 DEF Switching
  <2>3. AnswerKept(t, g) /\ answered[t][g] # None BY <1>1, <2>1
  <2>4. CASE LoadAlwaysOn(s)
    <3>1. t # s BY <1>2, <2>3, <2>4 DEF LoadAlwaysOn
    <3>2. UNCHANGED <<file, failed>> /\ (t \in loaded' <=> t \in loaded)
      BY <2>4, <3>1 DEF LoadAlwaysOn, Construct
    <3>3. InMemory(t)' = InMemory(t)
      BY <1>0, <2>4, <3>1 DEF LoadAlwaysOn, Construct, InMemory
    <3> QED BY <2>1, <2>2, <2>3, <3>2, <3>3 DEF AnswerKept
  <2>5. CASE LoadAbsent(s)
    <3>1. s \notin loaded BY <1>0, <2>5 DEF LoadAbsent, Loading
    <3>2. t # s BY <2>3, <2>5, <3>1, FileAssumption DEF AnswerKept, LoadAbsent
    <3>3. UNCHANGED <<failed, loaded>> /\ file'[t] = file[t] /\ InMemory(t)' = InMemory(t)
      BY <1>0, <2>5, <3>2 DEF LoadAbsent, InMemory
    <3> QED BY <2>1, <2>2, <2>3, <3>3 DEF AnswerKept
  <2>6. CASE LoadDefault(s)
    <3>1. s \notin loaded /\ file[s] = Torn
      BY <1>0, <2>6 DEF LoadDefault, TornInv
    <3>2. t # s BY <2>3, <3>1, FileAssumption DEF AnswerKept
    <3>3. /\ file'[t] = file[t] /\ InMemory(t)' = InMemory(t)
          /\ t \in failed' <=> t \in failed
          /\ t \in loaded' <=> t \in loaded
      BY <1>0, <2>6, <3>2, DefaultLoaded
    <3> QED BY <2>1, <2>2, <2>3, <3>3 DEF AnswerKept
  <2>7. CASE LoadFile(s)
    <3>1. file[s] \in Config /\ Construct(s, file[s]) /\ UNCHANGED <<file, failed>>
      BY <2>7 DEF LoadFile
    <3>2. s \notin loaded BY <1>0, <2>7 DEF LoadFile, Loading
    <3>3. InMemory(s)' = file[s] /\ \A r \in Services \ {s} : InMemory(r)' = InMemory(r)
      BY <1>0, <3>1, Constructed
    <3>4. loaded' = loaded \cup {s} BY <3>1 DEF Construct
    <3> QED BY <2>1, <2>2, <2>3, <3>1, <3>2, <3>3, <3>4 DEF AnswerKept
  <2>8. CASE LoadTorn(s) \/ LoadUnread(s) \/ ModuleThrows(s)
    <3>1. UNCHANGED <<file, failed, loaded>> /\ InMemory(t)' = InMemory(t)
      BY <2>8 DEF LoadTorn, LoadUnread, ModuleThrows, InMemory
    <3> QED BY <2>1, <2>2, <2>3, <3>1 DEF AnswerKept
  <2>9. CASE LoadUnsaved(s)
    <3>1. s \notin loaded BY <1>0, <2>9 DEF LoadUnsaved, Loading
    <3>2. t # s BY <2>3, <2>9, <3>1, FileAssumption DEF AnswerKept, LoadUnsaved
    <3>3. /\ file' = file /\ InMemory(t)' = InMemory(t)
          /\ t \in failed' <=> t \in failed
          /\ t \in loaded' <=> t \in loaded
      BY <1>0, <2>9, <3>2 DEF LoadUnsaved, Construct, InMemory
    <3> QED BY <2>1, <2>2, <2>3, <3>3 DEF AnswerKept
  <2> QED BY <1>6, <2>4, <2>5, <2>6, <2>7, <2>8, <2>9 DEF Load
<1>7. ASSUME NEW h \in Handlers, Handle(h) PROVE AnswerKept(t, g)'
  <2>2. CASE Command(h)
    <3>1. UNCHANGED <<answered, file, failed, loaded>> /\ InMemory(t)' = InMemory(t)
      BY <2>2 DEF Command, InMemory
    <3>2. Switching(t, g)' <=> Switching(t, g)
      <4>1. ~InLock(h) /\ ~InLock(h)' BY <1>0, <2>2 DEF Command
      <4>2. \A k \in Handlers \ {h} : pc'[k] = pc[k] /\ command'[k] = command[k]
        BY <1>0, <2>2 DEF Command
      <4> QED BY <4>1, <4>2 DEF Switching
    <3> QED BY <1>1, <3>1, <3>2 DEF AnswerKept
  <2>3. CASE Switch(h)
    <3> DEFINE s == command[h].service
               k == command[h].group
    <3>1. s \in loaded /\ s \in Services /\ k \in Groups BY <1>0, <2>3 DEF Switch
    <3>2. UNCHANGED <<answered, file, failed, loaded, enable_on_default, command>>
      BY <2>3 DEF Switch
    <3>3. InLock(h)' /\ \A j \in Handlers \ {h} : pc'[j] = pc[j]
      BY <1>0, <2>3 DEF Switch
    <3>4. Switching(t, g) => Switching(t, g)'
      BY <2>3, <3>2, <3>3 DEF Switching, Switch
    <3>5. CASE t = s /\ g = k
      <4>1. Switching(t, g)' BY <3>2, <3>3, <3>5 DEF Switching
      <4> QED BY <3>1, <3>2, <3>5, <4>1 DEF AnswerKept
    <3>6. CASE ~(t = s /\ g = k)
      <4>1. g \in groups'[t] <=> g \in groups[t]
        BY <1>0, <2>3, <3>1, <3>6 DEF Switch
      <4>2. Status(InMemory(t), g)' = Status(InMemory(t), g)
        BY <3>2, <4>1 DEF Status, InMemory
      <4> QED BY <1>1, <3>2, <3>4, <4>2 DEF AnswerKept
    <3> QED BY <3>5, <3>6
  <2>4. CASE Truncate(h) \/ OpenFails(h) \/ Write(h)
    <3>1. /\ UNCHANGED <<answered, loaded, command>> /\ InMemory(t)' = InMemory(t)
          /\ command[h].service \in loaded
      BY <1>0, <2>4 DEF Truncate, OpenFails, Write, InMemory
    <3>2. Switching(t, g)' <=> Switching(t, g)
      BY <1>0, <2>4, <3>1 DEF Switching, Truncate, OpenFails, Write
    <3>3. t \notin loaded => file'[t] = file[t] /\ (t \in failed' <=> t \in failed)
      BY <1>0, <2>4, <3>1 DEF Truncate, OpenFails, Write, Save
    <3> QED BY <1>1, <3>1, <3>2, <3>3 DEF AnswerKept
  <2>5. CASE Unlock(h)
    <3> DEFINE s == command[h].service
               k == command[h].group
    <3>1. s \in loaded /\ s \in Services /\ k \in Groups BY <1>0, <2>5 DEF Unlock
    <3>2. UNCHANGED <<file, failed, loaded>> /\ InMemory(t)' = InMemory(t)
      BY <2>5 DEF Unlock, InMemory
    <3>3. CASE t = s /\ g = k
      <4>1. answered'[t][g] = command[h].on
        BY <1>0, <2>5, <3>1, <3>3 DEF Unlock
      <4>2. Status(InMemory(t), g) = command[h].on
        BY <1>0, <2>5, <3>3 DEF Unlock, SwitchInv
      <4> QED BY <3>1, <3>2, <3>3, <4>1, <4>2 DEF AnswerKept
    <3>4. CASE ~(t = s /\ g = k)
      <4>1. answered'[t][g] = answered[t][g]
        BY <1>0, <2>5, <3>1, <3>4 DEF Unlock
      <4>2. Switching(t, g) => Switching(t, g)'
        BY <1>0, <2>5, <3>4 DEF Unlock, Switching
      <4> QED BY <1>1, <3>2, <4>1, <4>2 DEF AnswerKept
    <3> QED BY <3>3, <3>4
  <2> QED BY <1>7, <2>2, <2>3, <2>4, <2>5 DEF Handle
<1> QED BY <1>3, <1>4, <1>5, <1>6, <1>7 DEF Next

\* Nothing reaches a service that is always on.
LEMMA AlwaysOnStep == IInv /\ [Next]_vars => AlwaysOnInv'
<1> SUFFICES ASSUME IInv, [Next]_vars PROVE AlwaysOnInv' OBVIOUS
<1> USE NoneAssumption DEF RunInv, LockInv, AlwaysOnInv, InLock, TypeOK, CommandType, memory, handlers
<1>0. TypeOK /\ RunInv /\ LockInv /\ TornInv /\ AlwaysOnInv BY DEF IInv
<1>1. CASE UNCHANGED vars BY <1>0, <1>1 DEF vars
<1>2. CASE Start BY <1>2, <1>0 DEF Start
<1>3. CASE Serve BY <1>3, <1>0 DEF Serve
<1>4. CASE Crash BY <1>4, <1>0 DEF Crash, CutShort
<1>5. ASSUME NEW s \in Services, Load(s) PROVE AlwaysOnInv'
  <2>1. CASE LoadAlwaysOn(s) BY <2>1, <1>0 DEF LoadAlwaysOn, Loading, Construct
  <2>2. CASE LoadAbsent(s) BY <2>2, <1>0 DEF LoadAbsent, Loading
  <2>3. CASE LoadDefault(s)
    <3>1. Manage[s] # ALWAYS_ON
      BY <1>0, <2>3, FileAssumption DEF LoadDefault, TornInv
    <3>2. /\ \A r \in Services \ {s} : file'[r] = file[r] /\ InMemory(r)' = InMemory(r)
          /\ UNCHANGED answered
      BY <1>0, <2>3, DefaultLoaded
    <3>3. \A r \in Services \ {s} : groups'[r] = groups[r] BY <3>2 DEF InMemory
    <3> QED BY <1>0, <3>1, <3>2, <3>3
  <2>4. CASE LoadFile(s) BY <2>4, <1>0 DEF LoadFile, Loading, Construct
  <2>5. CASE LoadTorn(s) BY <2>5, <1>0 DEF LoadTorn, Loading, Abandon
  <2>6. CASE LoadUnsaved(s) BY <2>6, <1>0 DEF LoadUnsaved, Loading, Construct
  <2>7. CASE LoadUnread(s) BY <2>7, <1>0 DEF LoadUnread, Loading, Abandon
  <2>8. CASE ModuleThrows(s) BY <2>8, <1>0 DEF ModuleThrows, Loading, Abandon
  <2> QED BY <1>5, <2>1, <2>2, <2>3, <2>4, <2>5, <2>6, <2>7, <2>8 DEF Load
<1>6. ASSUME NEW h \in Handlers, Handle(h) PROVE AlwaysOnInv'
  <2>1. CASE Command(h) BY <2>1, <1>0 DEF Command, MayManage
  <2>2. CASE Switch(h) BY <2>2, <1>0 DEF Switch, Saves
  <2>3. CASE Truncate(h) BY <2>3, <1>0 DEF Truncate
  <2>4. CASE Write(h) BY <2>4, <1>0 DEF Write, Save
  <2>5. CASE Unlock(h) BY <2>5, <1>0 DEF Unlock
  <2>6. CASE OpenFails(h) BY <2>6, <1>0 DEF OpenFails
  <2> QED BY <1>6, <2>1, <2>2, <2>3, <2>4, <2>5, <2>6 DEF Handle
<1> QED BY <1>1, <1>2, <1>3, <1>4, <1>5, <1>6 DEF Next

\* An exception takes the module's later services with it, and no other.
LEMMA MissingStep == IInv /\ [Next]_vars => MissingInv'
<1> SUFFICES ASSUME IInv, [Next]_vars PROVE MissingInv' OBVIOUS
<1> USE NoneAssumption DEF RunInv, LockInv, TornInv, MissingInv, InLock, TypeOK, CommandType, memory, handlers
<1>0. TypeOK /\ RunInv /\ LockInv /\ TornInv /\ MissingInv BY DEF IInv
<1>1. CASE UNCHANGED vars BY <1>0, <1>1 DEF vars
<1>2. CASE Start BY <1>2, <1>0 DEF Start
<1>3. CASE Serve BY <1>3, <1>0 DEF Serve
<1>4. CASE Crash BY <1>4, <1>0 DEF Crash, CutShort
<1>5. ASSUME NEW s \in Services, Load(s) PROVE MissingInv'
  <2>1. CASE LoadAlwaysOn(s) BY <2>1, <1>0 DEF LoadAlwaysOn, Loading, Construct
  <2>2. CASE LoadAbsent(s) BY <2>2, <1>0 DEF LoadAbsent, Loading
  <2>3. CASE LoadDefault(s) BY <2>3, <1>0 DEF LoadDefault, Construct, Save
  <2>4. CASE LoadFile(s) BY <2>4, <1>0 DEF LoadFile, Loading, Construct
  <2>5. CASE LoadTorn(s) BY <2>5, <1>0 DEF LoadTorn, Loading, Abandon
  <2>6. CASE LoadUnsaved(s) BY <2>6, <1>0 DEF LoadUnsaved, Loading, Construct
  <2>7. CASE LoadUnread(s) BY <2>7, <1>0 DEF LoadUnread, Loading, Abandon
  <2>8. CASE ModuleThrows(s) BY <2>8, <1>0 DEF ModuleThrows, Loading, Abandon
  <2> QED BY <1>5, <2>1, <2>2, <2>3, <2>4, <2>5, <2>6, <2>7, <2>8 DEF Load
<1>6. ASSUME NEW h \in Handlers, Handle(h) PROVE MissingInv'
  <2>1. CASE Command(h) BY <2>1, <1>0 DEF Command, MayManage
  <2>2. CASE Switch(h) BY <2>2, <1>0 DEF Switch, Saves
  <2>3. CASE Truncate(h) BY <2>3, <1>0 DEF Truncate
  <2>4. CASE Write(h) BY <2>4, <1>0 DEF Write, Save
  <2>5. CASE Unlock(h) BY <2>5, <1>0 DEF Unlock
  <2>6. CASE OpenFails(h) BY <2>6, <1>0 DEF OpenFails
  <2> QED BY <1>6, <2>1, <2>2, <2>3, <2>4, <2>5, <2>6 DEF Handle
<1> QED BY <1>1, <1>2, <1>3, <1>4, <1>5, <1>6 DEF Next

THEOREM Invariance == Spec => []IInv
<1>1. IInv /\ [Next]_vars => IInv'
  BY TypeStep, RunStep, LockStep, SwitchStep, TornStep, FileStep, AnswerStep,
     AlwaysOnStep, MissingStep DEF IInv
<1> QED BY <1>1, InitIInv, PTL DEF Spec

\* Every variable of Service keeps its type.
THEOREM TypeCorrect == Spec => []TypeOK
<1>1. IInv => TypeOK BY DEF IInv
<1> QED BY <1>1, Invariance, PTL

\* A switch that was answered is in the file, unless the last save of the
\* service failed or was cut short (service.h saves under the lock).
THEOREM DurableHolds == Spec => []Durable
<1>1. ASSUME IInv, NEW s \in Services, NEW g \in Groups,
             Quiet(s), s \notin failed, answered[s][g] # None
      PROVE  file[s] \in Config /\ Status(file[s], g) = answered[s][g]
  <2>1. CASE s \notin loaded BY <1>1, <2>1 DEF IInv, AnswerInv, AnswerKept
  <2>2. CASE s \in loaded
    <3>1. Manage[s] # ALWAYS_ON BY <1>1 DEF IInv, AlwaysOnInv
    <3>2. file[s] = InMemory(s) BY <1>1, <2>2, <3>1 DEF IInv, FileInv, FileFollows
    <3>3. ~Switching(s, g)
      BY <1>1, NoneAssumption DEF IInv, LockInv, Switching, Quiet
    <3>4. InMemory(s) \in Config
      BY <1>1 DEF IInv, TypeOK, InMemory, Config
    <3> QED BY <1>1, <2>2, <3>2, <3>3, <3>4 DEF IInv, AnswerInv, AnswerKept
  <2> QED BY <2>1, <2>2
<1>2. IInv => Durable BY <1>1 DEF Durable
<1> QED BY <1>2, Invariance, PTL

\* A loaded service has the status its commands were answered, after any number
\* of restarts and changes of its default (LoadConfig reads the default back),
\* unless the program ended after a save of the service that failed: SaveConfig
\* does not look at its stream.
THEOREM RememberedHolds == Spec => []Remembered
<1>1. ASSUME IInv, NEW s \in loaded, NEW g \in Groups,
             Quiet(s), answered[s][g] # None
      PROVE  Status(InMemory(s), g) = answered[s][g]
  <2>1. s \in Services BY <1>1 DEF IInv, TypeOK
  <2>2. ~Switching(s, g)
    BY <1>1, NoneAssumption DEF IInv, LockInv, Switching, Quiet
  <2> QED BY <1>1, <2>1, <2>2 DEF IInv, AnswerInv, AnswerKept
<1>2. IInv => Remembered BY <1>1 DEF Remembered
<1> QED BY <1>2, Invariance, PTL

\* A running program misses a service only by an exception of its own module in
\* this start (InitModule catches it), which its constructor threw or a file of
\* the module that a failed save has torn.
THEOREM MissingOnlyByFaultHolds == Spec => []MissingOnlyByFault
<1>1. IInv => MissingOnlyByFault
  BY DEF IInv, RunInv, MissingInv, MissingOnlyByFault
<1> QED BY <1>1, Invariance, PTL

\* No user switches a service that is always on (permission.h: its level is above
\* SUPERUSER), whatever commands are sent.
THEOREM AlwaysOnUntouchedHolds == Spec => []AlwaysOnUntouched
<1>1. IInv => AlwaysOnUntouched BY DEF IInv, AlwaysOnInv, AlwaysOnUntouched
<1> QED BY <1>1, Invariance, PTL
=============================================================================
