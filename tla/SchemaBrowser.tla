---------------------------- MODULE SchemaBrowser ----------------------------
(***************************************************************************)
(* The schema tree of the one active connection: a cache of loaded nodes,  *)
(* a map that lets callers share a fetch under way, and connects and       *)
(* disconnects that clear some of it and cancel no fetch.                  *)
(*                                                                         *)
(* What a node's children are is left out; the cache remembers the         *)
(* connection they came from.  Selection, filter and the search preload    *)
(* are left out.                                                           *)
(*                                                                         *)
(* Source: src/features/schema/store.ts.                                   *)
(***************************************************************************)
EXTENDS Naturals, FiniteSets

CONSTANTS
    SchemaConns,    \* saved connections
    Nodes,          \* tree nodes with children to fetch
    Root,           \* the node every connect loads
    MaxFetches,     \* bound: fetches under way
    NoConn

ASSUME SchemaAssumption ==
    /\ Root \in Nodes /\ MaxFetches \in Nat
    /\ NoConn \notin SchemaConns

VARIABLES
    connection,     \* status and connId
    tree,           \* cache: where the children of a node came from, NoConn when not loaded
    inFlight,       \* the shared fetch of a node, 0 when none
    fetches,        \* schema_list_* calls under way: the node and the connection, by number
    connecting, disconnecting,  \* connection_connect and connection_disconnect calls out
    reload,         \* nodes refreshAll has yet to load
    crossed         \* history: a fetch of another connection was out when a connect landed

schemaVars == <<connection, tree, inFlight, fetches, connecting, disconnecting, reload, crossed>>

Fetch == [node : Nodes, conn : SchemaConns]
Free  == [node |-> Root, conn |-> NoConn]
IsOut(n) == fetches[n] # Free

SchemaTypeOK ==
    /\ connection \in [status : {"idle", "connecting", "connected", "error"}, id : SchemaConns \cup {NoConn}]
    /\ tree \in [Nodes -> SchemaConns \cup {NoConn}]
    /\ inFlight \in [Nodes -> 0..MaxFetches]
    /\ fetches \in [1..MaxFetches -> Fetch \cup {Free}]
    /\ connecting \subseteq SchemaConns /\ disconnecting \subseteq SchemaConns
    /\ reload \subseteq Nodes /\ crossed \in BOOLEAN

Empty == [node \in Nodes |-> NoConn]
Nobody == [node \in Nodes |-> 0]
Idle == [status |-> "idle", id |-> NoConn]

SchemaInit ==
    /\ connection = Idle /\ tree = Empty /\ inFlight = Nobody
    /\ fetches = [n \in 1..MaxFetches |-> Free]
    /\ connecting = {} /\ disconnecting = {} /\ reload = {} /\ crossed = FALSE

----------------------------------------------------------------------------
(* Nodes.                                                                  *)

\* loadChildren of a node: nothing when it is loaded, the fetch under way when there is
\* one, a new fetch otherwise.
LoadChildren(node, cache, shared, id) ==
    IF cache[node] # NoConn \/ shared[node] # 0
      THEN fetches' = fetches /\ inFlight' = shared
      ELSE \E n \in 1..MaxFetches :
             /\ ~IsOut(n)
             /\ fetches' = [fetches EXCEPT ![n] = [node |-> node, conn |-> id]]
             /\ inFlight' = [shared EXCEPT ![node] = n]

Expand(node) ==
    /\ connection.status = "connected"
    /\ tree[node] = NoConn /\ inFlight[node] = 0
    /\ LoadChildren(node, tree, inFlight, connection.id)
    /\ UNCHANGED <<connection, tree, connecting, disconnecting, reload, crossed>>

\* The children go into the cache of this moment.  The entry of the node is removed,
\* whichever fetch it names.
FetchLands(n) ==
    /\ IsOut(n)
    /\ tree' = [tree EXCEPT ![fetches[n].node] = fetches[n].conn]
    /\ inFlight' = [inFlight EXCEPT ![fetches[n].node] = 0]
    /\ fetches' = [fetches EXCEPT ![n] = Free]
    /\ UNCHANGED <<connection, connecting, disconnecting, reload, crossed>>

\* MUTANT of FetchFails: a failed fetch stays the one that is shared.
FetchFailsShared(n) ==
    /\ IsOut(n)
    /\ fetches' = [fetches EXCEPT ![n] = Free]
    /\ UNCHANGED <<connection, tree, inFlight, connecting, disconnecting, reload, crossed>>

FetchFails(n) ==
    /\ IsOut(n)
    /\ inFlight' = [inFlight EXCEPT ![fetches[n].node] = 0]
    /\ fetches' = [fetches EXCEPT ![n] = Free]
    /\ UNCHANGED <<connection, tree, connecting, disconnecting, reload, crossed>>

\* Everything is forgotten, and what was loaded is loaded again, beside what the loop of an
\* earlier refresh has left.
RefreshAll ==
    /\ connection.status = "connected"
    /\ reload' = reload \cup {node \in Nodes : tree[node] # NoConn}
    /\ tree' = Empty /\ inFlight' = Nobody
    /\ UNCHANGED <<connection, fetches, connecting, disconnecting, crossed>>

\* One turn of its loop; a turn that finds no connection throws and is skipped.  The code
\* awaits the children before the next turn, parents first: any order here, without the wait,
\* allows more.
ReloadNext(node) ==
    /\ node \in reload
    /\ reload' = reload \ {node}
    /\ IF connection.status = "connected"
         THEN LoadChildren(node, tree, inFlight, connection.id)
         ELSE UNCHANGED <<fetches, inFlight>>
    /\ UNCHANGED <<connection, tree, connecting, disconnecting, crossed>>

----------------------------------------------------------------------------
(* Connections.                                                            *)

Connect(c) ==
    /\ connection' = [status |-> "connecting", id |-> c]
    /\ connecting' = connecting \cup {c}
    /\ UNCHANGED <<tree, inFlight, fetches, disconnecting, reload, crossed>>

\* MUTANT of ConnectLands: the tree of the connection before stays.
ConnectKeepsTree(c) ==
    /\ c \in connecting
    /\ connecting' = connecting \ {c}
    /\ connection' = [status |-> "connected", id |-> c]
    /\ tree' = tree
    /\ LoadChildren(Root, tree', inFlight, c)
    /\ crossed' = (crossed \/ \E n \in 1..MaxFetches : IsOut(n) /\ fetches[n].conn # c)
    /\ UNCHANGED <<disconnecting, reload>>

\* The last answer wins.  The cache is emptied, the map of shared fetches is not, and
\* the root is loaded through it.
ConnectLands(c) ==
    /\ c \in connecting
    /\ connecting' = connecting \ {c}
    /\ connection' = [status |-> "connected", id |-> c]
    /\ tree' = Empty
    /\ LoadChildren(Root, Empty, inFlight, c)
    /\ crossed' = (crossed \/ \E n \in 1..MaxFetches : IsOut(n) /\ fetches[n].conn # c)
    /\ UNCHANGED <<disconnecting, reload>>

ConnectFails(c) ==
    /\ c \in connecting
    /\ connecting' = connecting \ {c}
    /\ connection' = [status |-> "error", id |-> c]
    /\ UNCHANGED <<tree, inFlight, fetches, disconnecting, reload, crossed>>

Disconnect ==
    /\ connection.status = "connected"
    /\ disconnecting' = disconnecting \cup {connection.id}
    /\ UNCHANGED <<connection, tree, inFlight, fetches, connecting, reload, crossed>>

\* The store goes idle, whatever it was connected to in the meantime.
DisconnectLands(c) ==
    /\ c \in disconnecting
    /\ disconnecting' = disconnecting \ {c}
    /\ connection' = Idle /\ tree' = Empty /\ inFlight' = Nobody
    /\ UNCHANGED <<fetches, connecting, reload, crossed>>

SchemaNext ==
    \/ \E node \in Nodes : Expand(node)
    \/ \E n \in 1..MaxFetches : FetchLands(n)
    \/ \E n \in 1..MaxFetches : FetchFails(n)
    \/ RefreshAll
    \/ \E node \in Nodes : ReloadNext(node)
    \/ \E c \in SchemaConns : Connect(c)
    \/ \E c \in SchemaConns : ConnectLands(c)
    \/ \E c \in SchemaConns : ConnectFails(c)
    \/ Disconnect
    \/ \E c \in SchemaConns : DisconnectLands(c)

SchemaSpec == SchemaInit /\ [][SchemaNext]_schemaVars

----------------------------------------------------------------------------
(* Properties.                                                             *)

\* A fetch callers are told to wait for is under way for that very node: through clears,
\* refreshes, failures and reconnects no caller waits for one that is over.  It may be a fetch
\* of the connection before: a connect leaves the map as it is, store.ts:429.
SharedFetchIsOut ==
    \A node \in Nodes :
        inFlight[node] # 0 => IsOut(inFlight[node]) /\ fetches[inFlight[node]].node = node

\* The tree shows objects of the active connection, unless a fetch of another one was
\* out when a connect landed.
TreeOfItsConnection ==
    connection.status = "connected" /\ ~crossed =>
        \A node \in Nodes : tree[node] \in {connection.id, NoConn}
=============================================================================
