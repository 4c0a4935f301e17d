------------------------------ MODULE McpClients ------------------------------
(***************************************************************************)
(* External MCP servers: what the file mcp-servers.json says, the instance *)
(* the registry keeps for it, the child process an instance keeps, and the *)
(* commands that change all three: the start at boot, Connect, Disconnect, *)
(* Reload and the list the settings panel draws.                           *)
(*                                                                         *)
(* One server of the file: others share the registry's lock and the start  *)
(* at boot, which only delays a step here.  What a server offers is left   *)
(* out.  The panel is opened once, and draws a list when it is made.       *)
(*                                                                         *)
(* Source: src-tauri/src/mcp/client/*.rs, lib.rs and                       *)
(* src/features/mcp/ExternalServers.tsx.                                   *)
(***************************************************************************)
EXTENDS Naturals, Sequences

CONSTANTS
    Defs,           \* definitions the file may have for the server
    HttpDefs,       \* those with the HTTP transport
    AutoDefs,       \* those with autoStart
    NoDef,          \* the server is not in the file
    MaxCommands,    \* bound: commands after the start at boot
    MaxEdits,       \* bound: edits of the file
    MaxInstances    \* bound: instances made

ASSUME McpAssumption ==
    /\ HttpDefs \subseteq Defs /\ AutoDefs \subseteq Defs /\ NoDef \notin Defs
    /\ MaxCommands \in Nat /\ MaxEdits \in Nat /\ MaxInstances \in Nat

VARIABLES
    edits,      \* of the file, so far
    file,       \* the server's definition in the file
    registry,   \* its instance, 0 when it has none
    entry,      \* definitions of the instances made so far
    mcpStatus,  \* of each instance
    process,    \* the child each keeps, named by the command that spawned it
    lock,       \* the command that has the lock of an instance's child
    writer,     \* the command that has the registry for writing
    call,       \* commands: kind, where they are, instance held, file read
    alive,      \* child processes that run
    row, busy   \* the server's row in the panel

serverVars == <<registry, entry, mcpStatus, process, lock, writer, call, alive>>
mcpVars == <<edits, file, serverVars, row, busy>>

Boot      == 0
NoCommand    == MaxCommands + 1
Commands  == Boot..MaxCommands
Instances == 1..MaxInstances
Statuses  == {"disconnected", "connecting", "connected", "error"}
Call == [kind : {"boot", "connect", "disconnect", "reload", "list", "refresh"},
         at : {"unused", "load", "sync", "auto", "get", "start", "open", "keep", "shake",
               "kill", "killed", "show", "done"},
         inst : 0..MaxInstances, cfg : Defs \cup {NoDef}]

At(c, stage) == call[c].at = stage

\* A command goes on, as what it is or as another.
Turns(c, kind, stage, i, cfg) ==
    call' = [call EXCEPT ![c] = [kind |-> kind, at |-> stage, inst |-> i, cfg |-> cfg]]
To(c, stage, i) == Turns(c, call[c].kind, stage, i, call[c].cfg)

McpTypeOK ==
    /\ edits \in 0..MaxEdits /\ file \in Defs \cup {NoDef}
    /\ entry \in Seq(Defs) /\ Len(entry) <= MaxInstances
    /\ registry \in 0..Len(entry)
    /\ mcpStatus \in [Instances -> Statuses]
    /\ process \in [Instances -> Commands \cup {NoCommand}]
    /\ lock \in [Instances -> Commands \cup {NoCommand}]
    /\ writer \in Commands \cup {NoCommand}
    /\ call \in [Commands -> Call] /\ \A c \in Commands : call[c].inst <= Len(entry)
    /\ alive \subseteq Commands
    /\ row \in Statuses \cup {"closed", "absent"} /\ busy \in BOOLEAN

\* MUTANT of Dropped: Command's default, without kill_on_drop.
DroppedLives == {}

\* Children of the instances that neither the registry nor a command keeps any more.
Dropped == {process[i] : i \in Instances \ ({registry} \cup {call[c].inst : c \in Commands})}

\* What runs after a step: what it leaves running, less the children dropped in it.
Running(left) == alive' = left \ Dropped'

McpInit ==
    /\ edits = 0 /\ file \in Defs \cup {NoDef}
    /\ registry = 0 /\ entry = <<>> /\ writer = NoCommand
    /\ mcpStatus = [i \in Instances |-> "disconnected"]
    /\ process = [i \in Instances |-> NoCommand] /\ lock = [i \in Instances |-> NoCommand]
    /\ call = [c \in Commands |-> [kind |-> IF c = Boot THEN "boot" ELSE "list",
                                   at |-> IF c = Boot THEN "load" ELSE "unused", inst |-> 0, cfg |-> NoDef]]
    /\ alive = {} /\ row = "closed" /\ busy = FALSE

----------------------------------------------------------------------------
(* The panel.                                                              *)

\* A command is sent.
SendCommand(kind, stage) ==
    \E c \in Commands :
       /\ At(c, "unused") /\ \A d \in Commands : d < c => ~At(d, "unused")
       /\ Turns(c, kind, stage, 0, NoDef)

OpenPanel ==
    /\ row = "closed" /\ row' = "absent" /\ SendCommand("list", "load")
    /\ UNCHANGED <<edits, file, registry, entry, mcpStatus, process, lock, writer, alive, busy>>

\* onConnect and onDisconnect: the row says which button there is.
Press ==
    /\ ~busy /\ busy' = TRUE
    /\ \/ row \in {"disconnected", "error"} /\ SendCommand("connect", "get")
       \/ row = "connected" /\ SendCommand("disconnect", "get")
    /\ UNCHANGED <<edits, file, registry, entry, mcpStatus, process, lock, writer, alive, row>>

Reload ==
    /\ row # "closed" /\ SendCommand("reload", "load")
    /\ UNCHANGED <<edits, file, registry, entry, mcpStatus, process, lock, writer, alive, row, busy>>

\* busy names one row: a button of another takes it over.
OtherRow ==
    /\ busy /\ busy' = FALSE
    /\ UNCHANGED <<edits, file, serverVars, row>>

\* The command is over, in the program and in the panel.
Finish(c) ==
    /\ Turns(c, "list", "done", 0, NoDef)
    /\ busy' = (busy /\ call[c].kind \notin {"connect", "disconnect", "refresh"})

----------------------------------------------------------------------------
(* The file and the registry.                                              *)

EditFile(def) ==
    /\ def # file /\ file' = def
    /\ edits < MaxEdits /\ edits' = edits + 1
    /\ UNCHANGED <<serverVars, row, busy>>

Load(c) ==
    /\ At(c, "load")
    /\ Turns(c, call[c].kind, "sync", 0, file)
    /\ UNCHANGED <<edits, file, registry, entry, mcpStatus, process, lock, writer, alive, row, busy>>

\* The file cannot be read, or is not JSON.
LoadFails(c) ==
    /\ At(c, "load") /\ Finish(c)
    /\ UNCHANGED <<edits, file, registry, entry, mcpStatus, process, lock, writer, alive, row>>

\* Where a command goes once the registry is as the file said.
Synced(c) ==
    CASE call[c].kind = "boot"   -> To(c, "auto", 0)
      [] call[c].kind = "reload" -> Turns(c, "list", "load", 0, NoDef)
      [] OTHER                   -> To(c, "show", 0)

\* sync_from_config puts a new instance in, disconnected.
Insert(def) ==
    IF def = NoDef
      THEN registry' = 0 /\ entry' = entry
      ELSE /\ Len(entry) < MaxInstances
           /\ entry' = Append(entry, def) /\ registry' = Len(entry) + 1

\* sync_from_config: the instance stays when its definition is that of the file.
Sync(c) ==
    /\ At(c, "sync") /\ writer = NoCommand
    /\ IF registry = 0
         THEN Insert(call[c].cfg) /\ Synced(c)
         ELSE entry[registry] = call[c].cfg /\ Synced(c) /\ UNCHANGED <<registry, entry>>
    /\ UNCHANGED <<edits, file, mcpStatus, process, lock, writer, alive, row, busy>>

\* Otherwise it is taken out, and disconnected with the registry still locked.
SyncRemoves(c) ==
    /\ At(c, "sync") /\ writer = NoCommand
    /\ registry # 0 /\ entry[registry] # call[c].cfg
    /\ registry' = 0 /\ writer' = c
    /\ To(c, "kill", registry)
    /\ UNCHANGED <<edits, file, entry, mcpStatus, process, lock, alive, row, busy>>

\* mcp_client_list answers, by the file it read.
Show(c) ==
    /\ At(c, "show") /\ writer = NoCommand
    /\ row' = IF registry = 0 \/ call[c].cfg = NoDef THEN "absent" ELSE mcpStatus[registry]
    /\ Finish(c)
    /\ UNCHANGED <<edits, file, registry, entry, mcpStatus, process, lock, writer, alive>>

\* mcp_client_connect and _disconnect take a handle of the instance.
Get(c) ==
    /\ At(c, "get") /\ writer = NoCommand
    /\ IF registry = 0
         THEN Finish(c)
         ELSE /\ To(c, IF call[c].kind = "connect" THEN "start" ELSE "kill", registry)
              /\ UNCHANGED busy
    /\ UNCHANGED <<edits, file, registry, entry, mcpStatus, process, lock, writer, alive, row>>

\* auto_start_all takes handles of all, and connects those it should.
AutoStart(c) ==
    /\ At(c, "auto") /\ writer = NoCommand
    /\ IF registry # 0 /\ entry[registry] \in AutoDefs
         THEN To(c, "start", registry) /\ UNCHANGED busy
         ELSE Finish(c)
    /\ UNCHANGED <<edits, file, registry, entry, mcpStatus, process, lock, writer, alive, row>>

----------------------------------------------------------------------------
(* connect and disconnect of an instance.                                  *)

Start(c) ==
    /\ At(c, "start")
    /\ mcpStatus' = [mcpStatus EXCEPT ![call[c].inst] = "connecting"]
    /\ To(c, "open", call[c].inst)
    /\ UNCHANGED <<edits, file, registry, entry, process, lock, writer, alive, row, busy>>

Spawn(c) ==
    /\ At(c, "open") /\ entry[call[c].inst] \notin HttpDefs
    /\ alive' = alive \cup {c}
    /\ To(c, "keep", call[c].inst)
    /\ UNCHANGED <<edits, file, registry, entry, mcpStatus, process, lock, writer, row, busy>>

\* MUTANT of Keep: without the lock of the child.
KeepUnlocked(c) ==
    LET i == call[c].inst IN
    /\ At(c, "keep")
    /\ process' = [process EXCEPT ![i] = c]
    /\ To(c, "shake", call[c].inst)
    /\ UNCHANGED <<edits, file, registry, entry, mcpStatus, lock, writer, row, busy>>
    /\ Running(alive \ {process[i]})

\* The instance keeps the child; one it had is dropped, and so killed.
Keep(c) ==
    LET i == call[c].inst IN
    /\ At(c, "keep") /\ lock[i] = NoCommand
    /\ process' = [process EXCEPT ![i] = c]
    /\ To(c, "shake", call[c].inst)
    /\ UNCHANGED <<edits, file, registry, entry, mcpStatus, lock, writer, row, busy>>
    /\ Running(alive \ {process[i]})

\* The handshake is done, and the panel asks for the list.  The child may have gone since.
ConnectSucceeds(c) ==
    /\ At(c, "shake")
    /\ mcpStatus' = [mcpStatus EXCEPT ![call[c].inst] = "connected"]
    /\ IF call[c].kind = "boot"
         THEN Finish(c)
         ELSE /\ Turns(c, "refresh", "load", 0, NoDef)
              /\ UNCHANGED busy
    /\ UNCHANGED <<edits, file, registry, entry, process, lock, writer, row>>
    /\ Running(alive)

\* HTTP, a command that cannot be spawned, a handshake that fails or takes 15 s.  The
\* child stays, and the panel does not ask for the list.
ConnectErrs(c) ==
    /\ At(c, "open") \/ At(c, "shake")
    /\ mcpStatus' = [mcpStatus EXCEPT ![call[c].inst] = "error"]
    /\ Finish(c)
    /\ UNCHANGED <<edits, file, registry, entry, process, lock, writer, row>>
    /\ Running(alive)

\* disconnect takes the child and kills it, with the child's lock until it has ended.
TakeChild(c) ==
    LET i == call[c].inst IN
    /\ At(c, "kill") /\ lock[i] = NoCommand
    /\ lock' = [lock EXCEPT ![i] = c]
    /\ process' = [process EXCEPT ![i] = NoCommand]
    /\ alive' = alive \ {process[i]}
    /\ To(c, "killed", call[c].inst)
    /\ UNCHANGED <<edits, file, registry, entry, mcpStatus, writer, row, busy>>

\* Then a Disconnect asks for the list, and a sync puts the new instance in.
Disconnected(c) ==
    LET i == call[c].inst IN
    /\ At(c, "killed")
    /\ mcpStatus' = [mcpStatus EXCEPT ![i] = "disconnected"]
    /\ lock' = [lock EXCEPT ![i] = NoCommand]
    /\ IF call[c].kind = "disconnect"
         THEN /\ Turns(c, "refresh", "load", 0, NoDef)
              /\ UNCHANGED <<registry, entry, writer>>
         ELSE Insert(call[c].cfg) /\ Synced(c) /\ writer' = NoCommand
    /\ UNCHANGED <<edits, file, process, row, busy>>
    /\ Running(alive)

\* A server ends on its own.
Exit(p) ==
    /\ p \in alive /\ alive' = alive \ {p}
    /\ UNCHANGED <<edits, file, registry, entry, mcpStatus, process, lock, writer, call, row, busy>>

McpNext ==
    \/ OpenPanel \/ Press \/ Reload \/ OtherRow
    \/ \E def \in Defs \cup {NoDef} : EditFile(def)
    \/ \E c \in Commands : \/ Load(c) \/ LoadFails(c) \/ Sync(c) \/ SyncRemoves(c) \/ Show(c)
                           \/ Get(c) \/ AutoStart(c) \/ Start(c) \/ Spawn(c) \/ Keep(c)
                           \/ ConnectSucceeds(c) \/ ConnectErrs(c) \/ TakeChild(c) \/ Disconnected(c)
                           \/ Exit(c)

McpSpec == McpInit /\ [][McpNext]_mcpVars

----------------------------------------------------------------------------
(* Properties.                                                             *)

\* A server process that runs is kept by the registered instance or by one that a command
\* works on, or was spawned just now.  So, with no command out, at most one runs, and it
\* is of the registered definition: a Disconnect can end it, whatever connects, reloads
\* and edits of the file came in between.
NoOrphanProcess ==
    \A p \in alive :
       \/ At(p, "keep")
       \/ \E i \in Instances : /\ process[i] = p
                               /\ i = registry \/ \E c \in Commands : call[c].inst = i

\* An instance whose status is disconnected keeps no process, unless a connect is still at
\* its handshake: the row never offers Connect for a server that was left running, however
\* connects and disconnects of it overlap.
DisconnectedIsStopped ==
    \A i \in Instances :
       mcpStatus[i] = "disconnected" /\ process[i] # NoCommand =>
          \E c \in Commands : call[c].inst = i /\ At(c, "shake")

\* connection.rs:81-83: an instance is "Owned by ClientRegistry under a Mutex so concurrent
\* commands serialize naturally without a write-fight": at most one command is at work on it.
CommandsSerialize ==
    \A c, d \in Commands : c # d /\ call[c].inst = call[d].inst => call[c].inst = 0
=============================================================================
