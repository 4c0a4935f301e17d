--------------------------- MODULE McpClientsProofs ---------------------------
(***************************************************************************)
(* Proofs about McpClients, for every set of definitions and any number of *)
(* commands and instances: no server process is left to nobody, and one    *)
(* shown as disconnected has stopped.                                      *)
(***************************************************************************)
EXTENDS McpClients, TLAPS

Working == {"start", "open", "keep", "shake", "kill", "killed"}

\* A command holds an instance while it works on it, and only then.
HoldsWhileWorking == \A c \in Commands : call[c].inst # 0 <=> call[c].at \in Working

\* The lock of a child is held by a disconnect that has taken the child.
LockedIsEmpty ==
    /\ \A i \in Instances : lock[i] # NoCommand => process[i] = NoCommand
    /\ \A c \in Commands : At(c, "killed") => lock[call[c].inst] = c

McpInv == McpTypeOK /\ HoldsWhileWorking /\ LockedIsEmpty /\ DisconnectedIsStopped /\ NoOrphanProcess

\* No command has the number that stands for none.
LEMMA NoCommandIsNone == NoCommand \notin Commands
  BY McpAssumption DEF NoCommand, Commands, Boot

\* Nothing runs before the start at boot.
LEMMA McpInitInv == McpInit => McpInv
<1> SUFFICES ASSUME McpInit PROVE McpInv
  OBVIOUS
<1>1. Boot \in Commands /\ Len(<<>>) = 0 /\ <<>> \in Seq(Defs)
  BY McpAssumption DEF Boot, Commands
<1>2. \A c \in Commands : call[c].inst = 0 /\ call[c].at \in {"load", "unused"} /\ call[c] \in Call
  BY McpAssumption DEF McpInit, Call
<1>3. call \in [Commands -> Call]
  BY <1>2 DEF McpInit
<1>4. McpTypeOK
  <2>1. entry \in Seq(Defs) /\ Len(entry) = 0 /\ registry = 0
    BY <1>1 DEF McpInit
  <2>2. /\ mcpStatus \in [Instances -> Statuses]
        /\ process \in [Instances -> Commands \cup {NoCommand}]
        /\ lock \in [Instances -> Commands \cup {NoCommand}]
    BY DEF McpInit, Statuses
  <2>3. 0 \in 0..0 /\ 0 \in 0..MaxEdits /\ 0 <= MaxInstances
    BY McpAssumption
  <2>4. \A c \in Commands : call[c].inst <= 0
    BY <1>2
  <2> QED
    BY <1>3, <2>1, <2>2, <2>3, <2>4 DEF McpInit, McpTypeOK
<1>5. HoldsWhileWorking
  BY <1>2 DEF HoldsWhileWorking, Working
<1>6. LockedIsEmpty /\ DisconnectedIsStopped /\ NoOrphanProcess
  BY <1>2 DEF McpInit, LockedIsEmpty, DisconnectedIsStopped, NoOrphanProcess, At
<1> QED
  BY <1>4, <1>5, <1>6 DEF McpInv

----------------------------------------------------------------------------
(* Steps that leave instances and children alone.                          *)

\* A command goes on, and may take a handle: what was kept is kept.
LEMMA TakesHandle ==
    ASSUME McpInv, McpTypeOK', NEW c \in Commands, NEW r \in Call,
           call' = [call EXCEPT ![c] = r],
           call[c].inst = 0, r.inst # 0 <=> r.at \in Working, r.at \notin {"keep", "shake", "killed"},
           registry \in {0, registry', r.inst},
           UNCHANGED <<mcpStatus, process, lock, alive>>
    PROVE  McpInv'
<1>1. call'[c] = r /\ \A d \in Commands : d # c => call'[d] = call[d]
  BY DEF McpInv, McpTypeOK
<1>2. call[c].at \notin Working
  BY DEF McpInv, HoldsWhileWorking
<1>3. HoldsWhileWorking'
  BY <1>1 DEF McpInv, HoldsWhileWorking
<1>4. LockedIsEmpty'
  BY <1>1 DEF McpInv, LockedIsEmpty, At
<1>5. DisconnectedIsStopped'
  <2> SUFFICES ASSUME NEW i \in Instances, mcpStatus[i] = "disconnected", process[i] # NoCommand
               PROVE  \E d \in Commands : call'[d].inst = i /\ call'[d].at = "shake"
    BY DEF DisconnectedIsStopped, At
  <2>1. PICK d \in Commands : call[d].inst = i /\ call[d].at = "shake"
    BY DEF McpInv, DisconnectedIsStopped, At
  <2>2. d # c
    BY <2>1, <1>2 DEF Working
  <2> QED
    BY <1>1, <2>1, <2>2
<1>6. NoOrphanProcess'
  <2> SUFFICES ASSUME NEW p \in alive
               PROVE  \/ call'[p].at = "keep"
                      \/ \E i \in Instances : /\ process[i] = p
                                              /\ i = registry' \/ \E d \in Commands : call'[d].inst = i
    BY DEF NoOrphanProcess, At
  <2>1. p \in Commands
    BY DEF McpInv, McpTypeOK
  <2>2. CASE call[p].at = "keep"
    BY <1>1, <1>2, <2>1, <2>2 DEF Working
  <2>3. CASE call[p].at # "keep"
    <3>1. PICK i \in Instances : /\ process[i] = p
                                 /\ i = registry \/ \E d \in Commands : call[d].inst = i
      BY <2>3 DEF McpInv, NoOrphanProcess, At
    <3>2. i # 0
      BY McpAssumption DEF Instances
    <3> QED
      BY <1>1, <3>1, <3>2
  <2> QED
    BY <2>2, <2>3
<1> QED
  BY <1>3, <1>4, <1>5, <1>6 DEF McpInv

\* Nothing that the invariant speaks of changes but the file and the panel.
LEMMA QuietStep ==
    ASSUME McpInv, McpTypeOK', UNCHANGED serverVars
    PROVE  McpInv'
  BY DEF McpInv, serverVars, HoldsWhileWorking, LockedIsEmpty, DisconnectedIsStopped,
         NoOrphanProcess, At

\* A new command is typed, and holds nothing.
LEMMA SendStep ==
    ASSUME McpInv, NEW kind \in {"connect", "disconnect", "reload", "list"}, NEW stage \in {"load", "get"},
           SendCommand(kind, stage), UNCHANGED <<edits, file, registry, entry, mcpStatus, process, lock, writer, alive>>,
           row' \in Statuses \cup {"closed", "absent"}, busy' \in BOOLEAN
    PROVE  McpInv'
<1>1. PICK c \in Commands :
        /\ At(c, "unused")
        /\ call' = [call EXCEPT ![c] = [kind |-> kind, at |-> stage, inst |-> 0, cfg |-> NoDef]]
  BY DEF SendCommand, Turns
<1> DEFINE r == [kind |-> kind, at |-> stage, inst |-> 0, cfg |-> NoDef]
<1>2. r \in Call /\ r.inst = 0 /\ r.at = stage
  BY McpAssumption DEF Call
<1>3. call' = [call EXCEPT ![c] = r]
  BY <1>1
<1>4. call[c].inst = 0
  BY <1>1 DEF McpInv, HoldsWhileWorking, Working, At
<1> HIDE DEF r
<1>5. McpTypeOK'
  <2>1. \A d \in Commands : call'[d].inst <= Len(entry) /\ call'[d] \in Call
    BY <1>2, <1>3 DEF McpInv, McpTypeOK
  <2> QED
    BY <1>2, <1>3, <2>1 DEF McpInv, McpTypeOK
<1> QED
  BY <1>2, <1>3, <1>4, <1>5, TakesHandle DEF Working

\* A command goes on: the others stay as they are.
LEMMA OneCall ==
    ASSUME McpTypeOK, NEW c \in Commands, NEW r \in Call, call' = [call EXCEPT ![c] = r],
           Len(entry) <= Len(entry'), entry' \in Seq(Defs), r.inst <= Len(entry')
    PROVE  /\ call' \in [Commands -> Call] /\ \A d \in Commands : call'[d].inst <= Len(entry')
           /\ call'[c] = r /\ \A d \in Commands : d # c => call'[d] = call[d]
<1>1. /\ call' \in [Commands -> Call]
      /\ call'[c] = r /\ \A d \in Commands : d # c => call'[d] = call[d]
  BY DEF McpTypeOK
<1>2. ASSUME NEW d \in Commands, d # c PROVE call'[d].inst <= Len(entry')
  <2>1. call[d].inst <= Len(entry) /\ call[d].inst \in Nat /\ Len(entry) \in Nat /\ Len(entry') \in Nat
    BY McpAssumption DEF McpTypeOK, Call
  <2> QED
    BY <1>1, <1>2, <2>1
<1> QED
  BY <1>1, <1>2

\* Where the steps that a command takes without a child go.
LEMMA GoesOn ==
    ASSUME McpInv, NEW c \in Commands, call[c].inst = 0,
           NEW at \in {"sync", "auto", "show", "load", "start", "kill", "done"},
           NEW kind \in {"boot", "connect", "disconnect", "reload", "list", "refresh"},
           NEW inst \in 0..Len(entry), NEW cfg \in Defs \cup {NoDef},
           inst # 0 <=> at \in Working,
           Turns(c, kind, at, inst, cfg),
           registry \in {0, registry', inst}, registry' \in 0..Len(entry'),
           Len(entry) <= Len(entry'), entry' \in Seq(Defs), Len(entry') <= MaxInstances,
           writer' \in Commands \cup {NoCommand},
           row' \in Statuses \cup {"closed", "absent"}, busy' \in BOOLEAN,
           UNCHANGED <<edits, file, mcpStatus, process, lock, alive>>
    PROVE  McpInv'
<1> DEFINE r == [kind |-> kind, at |-> at, inst |-> inst, cfg |-> cfg]
<1>1. r.inst = inst /\ r.at = at /\ call' = [call EXCEPT ![c] = r]
  BY DEF Turns
<1>2. r \in Call /\ inst <= Len(entry')
  <2>1. Len(entry) \in Nat /\ Len(entry') \in Nat /\ Len(entry) <= MaxInstances
    BY DEF McpInv, McpTypeOK
  <2> QED
    BY <2>1, McpAssumption DEF Call
<1> HIDE DEF r
<1>3. McpTypeOK'
  BY <1>1, <1>2, OneCall DEF McpInv, McpTypeOK
<1> QED
  BY <1>1, <1>2, <1>3, TakesHandle

\* What a command is before it goes on.
LEMMA CallShape ==
    ASSUME McpInv, NEW c \in Commands
    PROVE  /\ call[c] = [kind |-> call[c].kind, at |-> call[c].at, inst |-> call[c].inst, cfg |-> call[c].cfg]
           /\ call[c].kind \in {"boot", "connect", "disconnect", "reload", "list", "refresh"}
           /\ call[c].cfg \in Defs \cup {NoDef}
           /\ call[c].inst \in 0..Len(entry) /\ Len(entry) \in Nat /\ registry \in 0..Len(entry)
           /\ call[c].at \notin Working => call[c].inst = 0
           /\ call[c].at \in Working => call[c].inst \in Instances
<1>1. call[c] \in Call /\ call[c].inst <= Len(entry) /\ Len(entry) \in Nat /\ registry \in 0..Len(entry)
  BY DEF McpInv, McpTypeOK
<1>2. call[c].inst # 0 <=> call[c].at \in Working
  BY DEF McpInv, HoldsWhileWorking
<1> QED
  BY <1>1, <1>2, McpAssumption DEF Call, Instances

\* A step of a command that only reads the registry.
LEMMA ReadsRegistry ==
    ASSUME McpInv, NEW c \in Commands, call[c].at \notin Working,
           NEW at \in {"sync", "auto", "show", "load", "start", "kill", "done"},
           NEW kind \in {"boot", "connect", "disconnect", "reload", "list", "refresh"},
           NEW inst \in {0, registry}, NEW cfg \in Defs \cup {NoDef},
           inst # 0 <=> at \in Working,
           Turns(c, kind, at, inst, cfg),
           row' \in Statuses \cup {"closed", "absent"}, busy' \in BOOLEAN,
           UNCHANGED <<edits, file, registry, entry, mcpStatus, process, lock, writer, alive>>
    PROVE  McpInv'
<1>1. /\ inst \in 0..Len(entry) /\ Len(entry) <= Len(entry) /\ call[c].inst = 0
      /\ registry' \in 0..Len(entry') /\ entry' \in Seq(Defs) /\ Len(entry') <= MaxInstances
      /\ writer' \in Commands \cup {NoCommand}
  BY CallShape DEF McpInv, McpTypeOK
<1> QED
  BY <1>1, GoesOn

LEMMA LoadStep ==
    ASSUME McpInv, NEW c \in Commands, Load(c)
    PROVE  McpInv'
<1>1. Turns(c, call[c].kind, "sync", 0, file) /\ "sync" \notin Working /\ call[c].at \notin Working
  BY DEF Load, At, Working
<1>2. /\ file \in Defs \cup {NoDef}
      /\ row' \in Statuses \cup {"closed", "absent"} /\ busy' \in BOOLEAN
      /\ UNCHANGED <<edits, file, registry, entry, mcpStatus, process, lock, writer, alive>>
  BY DEF Load, McpInv, McpTypeOK
<1>3. call[c].kind \in {"boot", "connect", "disconnect", "reload", "list", "refresh"}
  BY CallShape
<1> QED
  BY <1>1, <1>2, <1>3, ReadsRegistry

\* A command that works on nothing is over.
LEMMA FinishStep ==
    ASSUME McpInv, NEW c \in Commands, call[c].at \notin Working, Finish(c),
           row' \in Statuses \cup {"closed", "absent"},
           UNCHANGED <<edits, file, registry, entry, mcpStatus, process, lock, writer, alive>>
    PROVE  McpInv'
<1>1. Turns(c, "list", "done", 0, NoDef) /\ "done" \notin Working /\ busy' \in BOOLEAN
  BY DEF Finish, Working, McpInv, McpTypeOK
<1> QED
  BY <1>1, ReadsRegistry

LEMMA ShowStep ==
    ASSUME McpInv, NEW c \in Commands, Show(c)
    PROVE  McpInv'
<1>1. registry # 0 => registry \in Instances
  <2>1. Len(entry) \in Nat /\ Len(entry) <= MaxInstances /\ registry \in 0..Len(entry)
    BY CallShape DEF McpInv, McpTypeOK
  <2> QED
    BY <2>1, McpAssumption DEF Instances
<1>2. row' \in Statuses \cup {"closed", "absent"}
  BY <1>1 DEF Show, McpInv, McpTypeOK
<1>3. call[c].at \notin Working
  BY DEF Show, At, Working
<1> QED
  BY <1>2, <1>3, FinishStep DEF Show

\* A handle is taken of the registered instance.
LEMMA HandleStep ==
    ASSUME McpInv, NEW c \in Commands, call[c].at \notin Working, registry # 0,
           NEW at \in {"start", "kill"}, To(c, at, registry), UNCHANGED busy,
           UNCHANGED <<edits, file, registry, entry, mcpStatus, process, lock, writer, alive, row>>
    PROVE  McpInv'
<1>1. Turns(c, call[c].kind, at, registry, call[c].cfg) /\ at \in Working
  BY DEF To, Working
<1>2. /\ row' \in Statuses \cup {"closed", "absent"} /\ busy' \in BOOLEAN
      /\ UNCHANGED <<edits, file, registry, entry, mcpStatus, process, lock, writer, alive>>
  BY DEF McpInv, McpTypeOK
<1>3. /\ call[c].kind \in {"boot", "connect", "disconnect", "reload", "list", "refresh"}
      /\ call[c].cfg \in Defs \cup {NoDef}
  BY CallShape
<1>4. at \in {"sync", "auto", "show", "load", "start", "kill", "done"} /\ registry \in {0, registry}
  OBVIOUS
<1> QED
  BY <1>1, <1>2, <1>3, <1>4, ReadsRegistry

LEMMA GetStep ==
    ASSUME McpInv, NEW c \in Commands, Get(c) \/ AutoStart(c)
    PROVE  McpInv'
<1>1. call[c].at \notin Working
  BY DEF Get, AutoStart, At, Working
<1>2. CASE Finish(c)
  BY <1>1, <1>2, FinishStep DEF Get, AutoStart, McpInv, McpTypeOK
<1>3. CASE \E at \in {"start", "kill"} : registry # 0 /\ To(c, at, registry) /\ UNCHANGED busy
  BY <1>1, <1>3, HandleStep DEF Get, AutoStart
<1>4. Finish(c) \/ \E at \in {"start", "kill"} : registry # 0 /\ To(c, at, registry) /\ UNCHANGED busy
  <2>1. CASE Get(c)
    BY <2>1 DEF Get
  <2>2. CASE AutoStart(c)
    BY <2>2 DEF AutoStart
  <2> QED
    BY <2>1, <2>2
<1> QED
  BY <1>2, <1>3, <1>4

\* What is put into the registry.
LEMMA InsertShape ==
    ASSUME McpInv, NEW def \in Defs \cup {NoDef}, Insert(def)
    PROVE  /\ registry' \in 0..Len(entry') /\ entry' \in Seq(Defs)
           /\ Len(entry) <= Len(entry') /\ Len(entry') <= MaxInstances
<1>1. entry \in Seq(Defs) /\ Len(entry) \in Nat /\ Len(entry) <= MaxInstances
  BY DEF McpInv, McpTypeOK
<1>2. CASE def = NoDef
  BY <1>1, <1>2 DEF Insert
<1>3. CASE def # NoDef
  <2>1. entry' \in Seq(Defs) /\ Len(entry') = Len(entry) + 1 /\ registry' = Len(entry) + 1
    BY <1>1, <1>3 DEF Insert
  <2> QED
    BY <1>1, <1>3, <2>1, McpAssumption DEF Insert
<1> QED
  BY <1>2, <1>3

\* What a command turns into when the registry is as the file said.
LEMMA SyncedShape ==
    ASSUME McpInv, NEW c \in Commands, Synced(c)
    PROVE  \E kind \in {"boot", "connect", "disconnect", "reload", "list", "refresh"},
              at \in {"auto", "load", "show"}, cfg \in Defs \cup {NoDef} : Turns(c, kind, at, 0, cfg)
  BY CallShape DEF Synced, To

LEMMA SyncStep ==
    ASSUME McpInv, NEW c \in Commands, Sync(c)
    PROVE  McpInv'
<1>1. call[c].inst = 0 /\ call[c].cfg \in Defs \cup {NoDef}
  BY CallShape DEF Sync, At, Working
<1>2. PICK kind \in {"boot", "connect", "disconnect", "reload", "list", "refresh"},
           at \in {"auto", "load", "show"}, cfg \in Defs \cup {NoDef} : Turns(c, kind, at, 0, cfg)
  BY SyncedShape DEF Sync
<1>3. /\ registry' \in 0..Len(entry') /\ entry' \in Seq(Defs)
      /\ Len(entry) <= Len(entry') /\ Len(entry') <= MaxInstances
      /\ registry \in {0, registry', 0}
  <2>1. CASE registry = 0
    BY <1>1, <2>1, InsertShape DEF Sync
  <2>2. CASE registry # 0
    BY <2>2, CallShape DEF Sync, McpInv, McpTypeOK
  <2> QED
    BY <2>1, <2>2
<1>4. /\ writer' \in Commands \cup {NoCommand} /\ 0 \in 0..Len(entry) /\ at \notin Working
      /\ row' \in Statuses \cup {"closed", "absent"} /\ busy' \in BOOLEAN
  BY CallShape DEF Sync, McpInv, McpTypeOK, Working
<1> QED
  BY <1>1, <1>2, <1>3, <1>4, GoesOn DEF Sync

LEMMA SyncRemovesStep ==
    ASSUME McpInv, NEW c \in Commands, SyncRemoves(c)
    PROVE  McpInv'
<1>1. Turns(c, call[c].kind, "kill", registry, call[c].cfg) /\ call[c].inst = 0
  BY CallShape DEF SyncRemoves, To, At, Working
<1>2. /\ registry' \in 0..Len(entry') /\ entry' \in Seq(Defs)
      /\ Len(entry) <= Len(entry') /\ Len(entry') <= MaxInstances
      /\ registry \in 0..Len(entry) /\ registry # 0 /\ "kill" \in Working
      /\ writer' \in Commands \cup {NoCommand}
      /\ row' \in Statuses \cup {"closed", "absent"} /\ busy' \in BOOLEAN
  BY CallShape DEF SyncRemoves, McpInv, McpTypeOK, Working
<1>3. /\ call[c].kind \in {"boot", "connect", "disconnect", "reload", "list", "refresh"}
      /\ call[c].cfg \in Defs \cup {NoDef} /\ registry \in 0..Len(entry)
      /\ registry # 0 <=> "kill" \in Working
  BY <1>2, CallShape
<1>4. UNCHANGED <<edits, file, mcpStatus, process, lock, alive>>
  BY DEF SyncRemoves
<1> QED
  BY <1>1, <1>2, <1>3, <1>4, GoesOn

----------------------------------------------------------------------------
(* Steps on an instance.                                                   *)

\* A command goes on with its instance.
LEMMA Continues ==
    ASSUME McpInv, NEW c \in Commands, call[c].at \in Working,
           NEW at \in Working, To(c, at, call[c].inst), UNCHANGED <<edits, file, registry, entry, writer, row, busy>>
    PROVE  /\ call' \in [Commands -> Call] /\ \A d \in Commands : call'[d].inst <= Len(entry')
           /\ HoldsWhileWorking'
           /\ call'[c].at = at
           /\ \A d \in Commands : call'[d].inst = call[d].inst /\ (d # c => call'[d] = call[d])
<1> DEFINE r == [kind |-> call[c].kind, at |-> at, inst |-> call[c].inst, cfg |-> call[c].cfg]
<1>1. /\ call' = [call EXCEPT ![c] = r]
      /\ r.inst = call[c].inst /\ r.at = at
  BY DEF To, Turns
<1>2. r \in Call /\ r.inst <= Len(entry') /\ r.inst # 0 /\ r.at \in Working
  <2>1. call[c] \in Call /\ call[c].inst <= Len(entry)
    BY DEF McpInv, McpTypeOK
  <2>2. at \in {"start", "open", "keep", "shake", "kill", "killed"}
    BY DEF Working
  <2>3. call[c].inst # 0
    BY DEF McpInv, HoldsWhileWorking
  <2> QED
    BY <2>1, <2>2, <2>3 DEF Call
<1> HIDE DEF r
<1>3. /\ call' \in [Commands -> Call] /\ \A d \in Commands : call'[d].inst <= Len(entry')
      /\ call'[c] = r /\ \A d \in Commands : d # c => call'[d] = call[d]
  <2>1. McpTypeOK /\ Len(entry) <= Len(entry') /\ entry' \in Seq(Defs)
    BY CallShape DEF McpInv, McpTypeOK
  <2> QED
    BY <1>1, <1>2, <2>1, OneCall
<1>4. HoldsWhileWorking'
  BY <1>2, <1>3 DEF McpInv, HoldsWhileWorking
<1> QED
  BY <1>1, <1>3, <1>4

LEMMA StartStep ==
    ASSUME McpInv, NEW c \in Commands, Start(c)
    PROVE  McpInv'
<1> DEFINE i == call[c].inst
<1>1. call[c].at = "start" /\ "start" \in Working /\ "open" \in Working
  BY DEF Start, At, Working
<1>2. i \in Instances
  BY <1>1, CallShape
<1>3. /\ call' \in [Commands -> Call] /\ \A d \in Commands : call'[d].inst <= Len(entry')
      /\ HoldsWhileWorking'
      /\ call'[c].at = "open"
      /\ \A d \in Commands : call'[d].inst = call[d].inst /\ (d # c => call'[d] = call[d])
  BY <1>1, Continues DEF Start
<1>4. /\ mcpStatus' \in [Instances -> Statuses] /\ mcpStatus'[i] = "connecting"
      /\ \A j \in Instances : j # i => mcpStatus'[j] = mcpStatus[j]
  BY <1>2 DEF Start, McpInv, McpTypeOK, Statuses
<1>5. UNCHANGED <<edits, file, registry, entry, process, lock, writer, alive, row, busy>>
  BY DEF Start
<1> HIDE DEF i
<1>6. McpTypeOK'
  BY <1>3, <1>4, <1>5 DEF McpInv, McpTypeOK
<1>7. LockedIsEmpty'
  BY <1>3, <1>5 DEF McpInv, LockedIsEmpty, At
<1>8. DisconnectedIsStopped'
  BY <1>1, <1>3, <1>4, <1>5 DEF McpInv, DisconnectedIsStopped, At
<1>9. NoOrphanProcess'
  BY <1>1, <1>3, <1>5 DEF McpInv, McpTypeOK, NoOrphanProcess, At
<1> QED
  BY <1>3, <1>6, <1>7, <1>8, <1>9 DEF McpInv

LEMMA SpawnStep ==
    ASSUME McpInv, NEW c \in Commands, Spawn(c)
    PROVE  McpInv'
<1>1. call[c].at = "open" /\ "open" \in Working /\ "keep" \in Working
  BY DEF Spawn, At, Working
<1>2. /\ call' \in [Commands -> Call] /\ \A d \in Commands : call'[d].inst <= Len(entry')
      /\ HoldsWhileWorking'
      /\ call'[c].at = "keep"
      /\ \A d \in Commands : call'[d].inst = call[d].inst /\ (d # c => call'[d] = call[d])
  BY <1>1, Continues DEF Spawn
<1>3. /\ UNCHANGED <<edits, file, registry, entry, mcpStatus, process, lock, writer, row, busy>>
      /\ alive' = alive \cup {c}
  BY DEF Spawn
<1>4. McpTypeOK'
  BY <1>2, <1>3 DEF McpInv, McpTypeOK
<1>5. LockedIsEmpty'
  BY <1>2, <1>3 DEF McpInv, LockedIsEmpty, At
<1>6. DisconnectedIsStopped'
  BY <1>1, <1>2, <1>3 DEF McpInv, DisconnectedIsStopped, At
<1>7. NoOrphanProcess'
  BY <1>1, <1>2, <1>3 DEF McpInv, McpTypeOK, NoOrphanProcess, At
<1> QED
  BY <1>2, <1>4, <1>5, <1>6, <1>7 DEF McpInv

LEMMA KeepStep ==
    ASSUME McpInv, NEW c \in Commands, Keep(c)
    PROVE  McpInv'
<1> DEFINE i == call[c].inst
<1>1. call[c].at = "keep" /\ "keep" \in Working /\ "shake" \in Working
  BY DEF Keep, At, Working
<1>2. i \in Instances
  BY <1>1, CallShape
<1>3. /\ call' \in [Commands -> Call] /\ \A d \in Commands : call'[d].inst <= Len(entry')
      /\ HoldsWhileWorking'
      /\ call'[c].at = "shake"
      /\ \A d \in Commands : call'[d].inst = call[d].inst /\ (d # c => call'[d] = call[d])
  BY <1>1, Continues DEF Keep
<1>4. /\ process' \in [Instances -> Commands \cup {NoCommand}] /\ process'[i] = c
      /\ \A j \in Instances : j # i => process'[j] = process[j]
  BY <1>2 DEF Keep, McpInv, McpTypeOK
<1>5. /\ UNCHANGED <<edits, file, registry, entry, mcpStatus, lock, writer, row, busy>>
      /\ lock[i] = NoCommand
      /\ alive' \subseteq alive \ {process[i]}
  BY DEF Keep, Running
<1> HIDE DEF i
<1>6. McpTypeOK'
  BY <1>3, <1>4, <1>5 DEF McpInv, McpTypeOK
<1>7. LockedIsEmpty'
  BY <1>1, <1>3, <1>4, <1>5 DEF McpInv, LockedIsEmpty, At
<1>8. DisconnectedIsStopped'
  <2> SUFFICES ASSUME NEW j \in Instances, mcpStatus[j] = "disconnected", process'[j] # NoCommand
               PROVE  \E d \in Commands : call'[d].inst = j /\ call'[d].at = "shake"
    BY <1>5 DEF DisconnectedIsStopped, At
  <2>1. CASE j = i
    BY <1>3, <2>1 DEF i
  <2>2. CASE j # i
    BY <1>1, <1>3, <1>4, <2>2 DEF McpInv, DisconnectedIsStopped, At
  <2> QED
    BY <2>1, <2>2
<1>9. NoOrphanProcess'
  <2> SUFFICES ASSUME NEW p \in alive'
               PROVE  \/ call'[p].at = "keep"
                      \/ \E j \in Instances : /\ process'[j] = p
                                              /\ j = registry' \/ \E d \in Commands : call'[d].inst = j
    BY DEF NoOrphanProcess, At
  <2>1. p \in alive /\ p # process[i] /\ p \in Commands
    BY <1>5 DEF McpInv, McpTypeOK
  <2>2. CASE p = c
    BY <1>2, <1>3, <1>4, <2>2 DEF i
  <2>3. CASE p # c
    BY <1>3, <1>4, <1>5, <2>1, <2>3 DEF McpInv, NoOrphanProcess, At
  <2> QED
    BY <2>2, <2>3
<1> QED
  BY <1>3, <1>6, <1>7, <1>8, <1>9 DEF McpInv

LEMMA TakeChildStep ==
    ASSUME McpInv, NEW c \in Commands, TakeChild(c)
    PROVE  McpInv'
<1> DEFINE i == call[c].inst
<1>1. call[c].at = "kill" /\ "kill" \in Working /\ "killed" \in Working
  BY DEF TakeChild, At, Working
<1>2. i \in Instances
  BY <1>1, CallShape
<1>3. /\ call' \in [Commands -> Call] /\ \A d \in Commands : call'[d].inst <= Len(entry')
      /\ HoldsWhileWorking'
      /\ call'[c].at = "killed"
      /\ \A d \in Commands : call'[d].inst = call[d].inst /\ (d # c => call'[d] = call[d])
  BY <1>1, Continues DEF TakeChild
<1>4. /\ process' \in [Instances -> Commands \cup {NoCommand}] /\ process'[i] = NoCommand
      /\ lock' \in [Instances -> Commands \cup {NoCommand}] /\ lock'[i] = c
      /\ \A j \in Instances : j # i => process'[j] = process[j] /\ lock'[j] = lock[j]
  BY <1>2 DEF TakeChild, McpInv, McpTypeOK
<1>5. /\ UNCHANGED <<edits, file, registry, entry, mcpStatus, writer, row, busy>>
      /\ lock[i] = NoCommand
      /\ alive' = alive \ {process[i]}
  BY DEF TakeChild
<1>10. \A d \in Commands : call[d].inst = i => ~At(d, "killed")
  BY <1>5, NoCommandIsNone DEF McpInv, LockedIsEmpty
<1>6. McpTypeOK'
  BY <1>3, <1>4, <1>5 DEF McpInv, McpTypeOK
<1>7. LockedIsEmpty'
  <2>1. ASSUME NEW d \in Commands, At(d, "killed")' PROVE lock'[call'[d].inst] = d
    <3>1. CASE d = c
      BY <1>3, <1>4, <3>1
    <3>2. CASE d # c
      <4>1. At(d, "killed") /\ call'[d].inst = call[d].inst
        BY <1>3, <2>1, <3>2 DEF At
      <4>2. call[d].inst \in Instances /\ call[d].inst # i
        BY <1>10, <4>1, CallShape DEF At, Working
      <4> QED
        BY <1>4, <4>1, <4>2 DEF McpInv, LockedIsEmpty
    <3> QED
      BY <3>1, <3>2
  <2> QED
    BY <1>4, <2>1 DEF McpInv, LockedIsEmpty
<1> HIDE DEF i
<1>8. DisconnectedIsStopped'
  BY <1>1, <1>3, <1>4, <1>5 DEF McpInv, DisconnectedIsStopped, At
<1>9. NoOrphanProcess'
  <2> SUFFICES ASSUME NEW p \in alive'
               PROVE  \/ call'[p].at = "keep"
                      \/ \E j \in Instances : /\ process'[j] = p
                                              /\ j = registry' \/ \E d \in Commands : call'[d].inst = j
    BY DEF NoOrphanProcess, At
  <2>1. p \in alive /\ p # process[i] /\ p \in Commands
    BY <1>5 DEF McpInv, McpTypeOK
  <2> QED
    BY <1>1, <1>3, <1>4, <1>5, <2>1 DEF McpInv, NoOrphanProcess, At
<1> QED
  BY <1>3, <1>6, <1>7, <1>8, <1>9 DEF McpInv

\* A command gives its instance back.
LEMMA GivesBack ==
    ASSUME McpInv, NEW c \in Commands, NEW at \in {"load", "done", "auto", "show"},
           NEW kind \in {"boot", "connect", "disconnect", "reload", "list", "refresh"},
           NEW cfg \in Defs \cup {NoDef}, Turns(c, kind, at, 0, cfg),
           Len(entry) <= Len(entry'), entry' \in Seq(Defs)
    PROVE  /\ call' \in [Commands -> Call] /\ \A d \in Commands : call'[d].inst <= Len(entry')
           /\ HoldsWhileWorking'
           /\ call'[c].at = at /\ \A d \in Commands : d # c => call'[d] = call[d]
<1> DEFINE r == [kind |-> kind, at |-> at, inst |-> 0, cfg |-> cfg]
<1>1. call' = [call EXCEPT ![c] = r] /\ r.inst = 0 /\ r.at = at /\ at \notin Working
  BY DEF Turns, Working
<1>2. r \in Call /\ r.inst <= Len(entry')
  BY <1>1, McpAssumption DEF Call
<1> HIDE DEF r
<1>3. /\ call' \in [Commands -> Call] /\ \A d \in Commands : call'[d].inst <= Len(entry')
      /\ call'[c] = r /\ \A d \in Commands : d # c => call'[d] = call[d]
  BY <1>1, <1>2, OneCall DEF McpInv
<1>4. HoldsWhileWorking'
  BY <1>1, <1>3 DEF McpInv, HoldsWhileWorking
<1> QED
  BY <1>1, <1>3, <1>4

\* What still runs when children may be dropped is still kept: it was not dropped.
LEMMA DropsTheRest ==
    ASSUME McpInv, call' \in [Commands -> Call], Running(alive), UNCHANGED process,
           \A p \in Commands : At(p, "keep") => At(p, "keep")'
    PROVE  alive' \subseteq Commands /\ NoOrphanProcess'
<1>1. alive' \subseteq alive /\ alive \subseteq Commands
  BY DEF Running, McpInv, McpTypeOK
<1> SUFFICES ASSUME NEW p \in alive', ~At(p, "keep")'
             PROVE  \E i \in Instances : /\ process'[i] = p
                                         /\ i = registry' \/ \E d \in Commands : call'[d].inst = i
  BY <1>1 DEF NoOrphanProcess
<1>2. PICK i \in Instances : process[i] = p
  BY <1>1 DEF McpInv, NoOrphanProcess
<1>3. p \notin {process'[j] : j \in Instances \ ({registry'} \cup {call'[d].inst : d \in Commands})}
  BY DEF Running, Dropped
<1>4. i \in {registry'} \cup {call'[d].inst : d \in Commands}
  BY <1>2, <1>3
<1> QED
  BY <1>2, <1>4

\* A connect that ends has told how, so its instance is not shown as disconnected.
LEMMA ConnectEndsStep ==
    ASSUME McpInv, NEW c \in Commands, ConnectSucceeds(c) \/ ConnectErrs(c)
    PROVE  McpInv'
<1> DEFINE i == call[c].inst
<1>1. call[c].at \in {"open", "shake"} /\ call[c].at \in Working
  BY DEF ConnectSucceeds, ConnectErrs, At, Working
<1>2. i \in Instances
  BY <1>1, CallShape
<1>3. /\ UNCHANGED <<edits, file, registry, entry, process, lock, writer, row>>
      /\ Running(alive) /\ busy' \in BOOLEAN
  BY DEF ConnectSucceeds, ConnectErrs, Finish, McpInv, McpTypeOK
<1>4. PICK s \in {"connected", "error"} : mcpStatus' = [mcpStatus EXCEPT ![i] = s]
  BY DEF ConnectSucceeds, ConnectErrs
<1>5. /\ mcpStatus' \in [Instances -> Statuses] /\ mcpStatus'[i] # "disconnected"
      /\ \A j \in Instances : j # i => mcpStatus'[j] = mcpStatus[j]
  BY <1>2, <1>4 DEF McpInv, McpTypeOK, Statuses
<1>6. Turns(c, "list", "done", 0, NoDef) \/ Turns(c, "refresh", "load", 0, NoDef)
  <2>1. CASE ConnectSucceeds(c)
    BY <2>1 DEF ConnectSucceeds, Finish
  <2>2. CASE ConnectErrs(c)
    BY <2>2 DEF ConnectErrs, Finish
  <2> QED
    BY <2>1, <2>2
<1>7. /\ call' \in [Commands -> Call] /\ \A d \in Commands : call'[d].inst <= Len(entry')
      /\ HoldsWhileWorking'
      /\ call'[c].at \in {"done", "load"} /\ \A d \in Commands : d # c => call'[d] = call[d]
  <2>1. Len(entry) <= Len(entry') /\ entry' \in Seq(Defs)
    BY <1>3, CallShape DEF McpInv, McpTypeOK
  <2>2. CASE Turns(c, "list", "done", 0, NoDef)
    BY <2>1, <2>2, GivesBack
  <2>3. CASE Turns(c, "refresh", "load", 0, NoDef)
    BY <2>1, <2>3, GivesBack
  <2> QED
    BY <1>6, <2>2, <2>3
<1>8. alive' \subseteq Commands /\ NoOrphanProcess'
  <2>1. \A p \in Commands : At(p, "keep") => At(p, "keep")'
    BY <1>1, <1>7 DEF At
  <2> QED
    BY <1>3, <1>7, <2>1, DropsTheRest
<1>9. McpTypeOK'
  BY <1>3, <1>5, <1>7, <1>8 DEF McpInv, McpTypeOK
<1>10. LockedIsEmpty'
  BY <1>3, <1>7 DEF McpInv, LockedIsEmpty, At
<1>11. DisconnectedIsStopped'
  BY <1>3, <1>5, <1>7 DEF McpInv, DisconnectedIsStopped, At
<1> QED
  BY <1>7, <1>8, <1>9, <1>10, <1>11 DEF McpInv

\* The instance a disconnect ends with keeps no child.
LEMMA DisconnectedStep ==
    ASSUME McpInv, NEW c \in Commands, Disconnected(c)
    PROVE  McpInv'
<1> DEFINE i == call[c].inst
<1>1. call[c].at = "killed" /\ call[c].at \in Working
  BY DEF Disconnected, At, Working
<1>2. i \in Instances /\ lock[i] = c /\ process[i] = NoCommand
  BY <1>1, CallShape, NoCommandIsNone DEF McpInv, LockedIsEmpty, At
<1>3. UNCHANGED <<edits, file, process, row, busy>> /\ Running(alive)
  BY DEF Disconnected
<1>4. /\ mcpStatus' \in [Instances -> Statuses] /\ lock' \in [Instances -> Commands \cup {NoCommand}]
      /\ lock'[i] = NoCommand
      /\ \A j \in Instances : j # i => mcpStatus'[j] = mcpStatus[j] /\ lock'[j] = lock[j]
  BY <1>2 DEF Disconnected, McpInv, McpTypeOK, Statuses
<1>5. \E kind \in {"boot", "connect", "disconnect", "reload", "list", "refresh"},
         at \in {"auto", "load", "show"}, cfg \in Defs \cup {NoDef} : Turns(c, kind, at, 0, cfg)
  BY SyncedShape DEF Disconnected
<1>6. /\ registry' \in 0..Len(entry') /\ entry' \in Seq(Defs)
      /\ Len(entry) <= Len(entry') /\ Len(entry') <= MaxInstances
      /\ writer' \in Commands \cup {NoCommand}
  <2>1. CASE call[c].kind = "disconnect"
    BY <2>1, CallShape DEF Disconnected, McpInv, McpTypeOK
  <2>2. CASE call[c].kind # "disconnect"
    BY <2>2, CallShape, InsertShape DEF Disconnected
  <2> QED
    BY <2>1, <2>2
<1>7. /\ call' \in [Commands -> Call] /\ \A d \in Commands : call'[d].inst <= Len(entry')
      /\ HoldsWhileWorking'
      /\ call'[c].at \in {"auto", "load", "show"} /\ \A d \in Commands : d # c => call'[d] = call[d]
  BY <1>5, <1>6, GivesBack
<1>8. alive' \subseteq Commands /\ NoOrphanProcess'
  <2>1. \A p \in Commands : At(p, "keep") => At(p, "keep")'
    BY <1>1, <1>7 DEF At
  <2> QED
    BY <1>3, <1>7, <2>1, DropsTheRest
<1>9. McpTypeOK'
  BY <1>3, <1>4, <1>6, <1>7, <1>8 DEF McpInv, McpTypeOK
<1>10. LockedIsEmpty'
  <2>1. ASSUME NEW d \in Commands, At(d, "killed")' PROVE lock'[call'[d].inst] = d
    <3>1. d # c /\ At(d, "killed") /\ call'[d].inst = call[d].inst
      BY <1>7, <2>1 DEF At
    <3>2. call[d].inst \in Instances /\ lock[call[d].inst] = d
      BY <3>1, CallShape DEF McpInv, LockedIsEmpty, At, Working
    <3> QED
      BY <1>2, <1>4, <3>1, <3>2
  <2> QED
    BY <1>3, <1>4, <2>1 DEF McpInv, LockedIsEmpty
<1>11. DisconnectedIsStopped'
  BY <1>1, <1>2, <1>3, <1>4, <1>7 DEF McpInv, DisconnectedIsStopped, At
<1> QED
  BY <1>7, <1>8, <1>9, <1>10, <1>11 DEF McpInv

LEMMA ExitStep ==
    ASSUME McpInv, NEW p \in Commands, Exit(p)
    PROVE  McpInv'
  BY DEF McpInv, Exit, McpTypeOK, HoldsWhileWorking, LockedIsEmpty, DisconnectedIsStopped,
         NoOrphanProcess, At

----------------------------------------------------------------------------
(* The theorems.                                                           *)

\* Every step keeps the invariant.
LEMMA McpNextInv == McpInv /\ [McpNext]_mcpVars => McpInv'
<1> SUFFICES ASSUME McpInv, [McpNext]_mcpVars PROVE McpInv'
  OBVIOUS
<1>1. CASE OpenPanel
  <2>1. SendCommand("list", "load") /\ row' \in Statuses \cup {"closed", "absent"} /\ busy' \in BOOLEAN
    BY <1>1 DEF OpenPanel, McpInv, McpTypeOK
  <2> QED
    BY <1>1, <2>1, SendStep DEF OpenPanel
<1>2. CASE Press
  <2>1. row' \in Statuses \cup {"closed", "absent"} /\ busy' \in BOOLEAN
    BY <1>2 DEF Press, McpInv, McpTypeOK
  <2>2. SendCommand("connect", "get") \/ SendCommand("disconnect", "get")
    BY <1>2 DEF Press
  <2>3. UNCHANGED <<edits, file, registry, entry, mcpStatus, process, lock, writer, alive>>
    BY <1>2 DEF Press
  <2> QED
    BY <2>1, <2>2, <2>3, SendStep
<1>3. CASE Reload
  <2>1. SendCommand("reload", "load") /\ row' \in Statuses \cup {"closed", "absent"} /\ busy' \in BOOLEAN
    BY <1>3 DEF Reload, McpInv, McpTypeOK
  <2> QED
    BY <1>3, <2>1, SendStep DEF Reload
<1>4. CASE OtherRow \/ (\E def \in Defs \cup {NoDef} : EditFile(def)) \/ UNCHANGED mcpVars
  <2>1. UNCHANGED serverVars
    BY <1>4 DEF OtherRow, EditFile, mcpVars
  <2>2. /\ edits' \in 0..MaxEdits /\ file' \in Defs \cup {NoDef}
        /\ row' \in Statuses \cup {"closed", "absent"} /\ busy' \in BOOLEAN
    <3>1. edits \in 0..MaxEdits /\ file \in Defs \cup {NoDef} /\ busy \in BOOLEAN
          /\ row \in Statuses \cup {"closed", "absent"}
      BY DEF McpInv, McpTypeOK
    <3>2. CASE OtherRow
      BY <3>1, <3>2 DEF OtherRow
    <3>3. CASE \E def \in Defs \cup {NoDef} : EditFile(def)
      <4>1. edits < MaxEdits /\ edits' = edits + 1 /\ file' \in Defs \cup {NoDef} /\ UNCHANGED <<row, busy>>
        BY <3>3 DEF EditFile
      <4> QED
        BY <3>1, <4>1, McpAssumption
    <3>4. CASE UNCHANGED mcpVars
      BY <3>1, <3>4 DEF mcpVars
    <3> QED
      BY <1>4, <3>2, <3>3, <3>4
  <2>3. McpTypeOK'
    BY <2>1, <2>2 DEF serverVars, McpInv, McpTypeOK
  <2> QED
    BY <2>1, <2>3, QuietStep
<1>5. ASSUME NEW c \in Commands, Load(c) \/ Show(c) \/ Get(c) \/ AutoStart(c)
      PROVE  McpInv'
  BY <1>5, LoadStep, ShowStep, GetStep
<1>6. ASSUME NEW c \in Commands, LoadFails(c)
      PROVE  McpInv'
  <2>1. call[c].at \notin Working /\ row' \in Statuses \cup {"closed", "absent"}
    BY <1>6 DEF LoadFails, At, Working, McpInv, McpTypeOK
  <2> QED
    BY <1>6, <2>1, FinishStep DEF LoadFails
<1>7. ASSUME NEW c \in Commands, Sync(c) \/ SyncRemoves(c)
      PROVE  McpInv'
  BY <1>7, SyncStep, SyncRemovesStep
<1>8. ASSUME NEW c \in Commands,
             Start(c) \/ Spawn(c) \/ Keep(c) \/ ConnectSucceeds(c) \/ ConnectErrs(c)
             \/ TakeChild(c) \/ Disconnected(c) \/ Exit(c)
      PROVE  McpInv'
  BY <1>8, StartStep, SpawnStep, KeepStep, ConnectEndsStep, TakeChildStep, DisconnectedStep, ExitStep
<1> QED
  BY <1>1, <1>2, <1>3, <1>4, <1>5, <1>6, <1>7, <1>8 DEF McpNext

THEOREM McpInvariance == McpSpec => []McpInv
<1>1. McpInit => McpInv
  BY McpInitInv
<1>2. McpInv /\ [McpNext]_mcpVars => McpInv'
  BY McpNextInv
<1> QED
  BY <1>1, <1>2, PTL DEF McpSpec

\* A server process that runs is kept by the registered instance or by one that a command
\* works on, so it can still be ended.
THEOREM NoneIsOrphaned == McpSpec => []NoOrphanProcess
<1>1. McpInv => NoOrphanProcess
  BY DEF McpInv
<1> QED
  BY <1>1, McpInvariance, PTL

\* What is shown as disconnected has stopped, however connects and disconnects overlap.
THEOREM ShownStoppedIsStopped == McpSpec => []DisconnectedIsStopped
<1>1. McpInv => DisconnectedIsStopped
  BY DEF McpInv
<1> QED
  BY <1>1, McpInvariance, PTL
=============================================================================
