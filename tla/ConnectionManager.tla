-------------------------- MODULE ConnectionManager --------------------------
(***************************************************************************)
(* The registry of active connections (core/connection.rs) together with   *)
(* the three parties that call it from different threads:                  *)
(*                                                                         *)
(*   - one task per client connection or gRPC stream (process_connection   *)
(*     in handler.rs): authenticate, register, serve, unregister;          *)
(*   - the background user synchronisation (the on_diff closure of         *)
(*     main.rs): kick_user for every removed or re-keyed user;             *)
(*   - the shutdown sequence of main.rs: cancel_all.                       *)
(*                                                                         *)
(* Both maps are DashMaps: an operation on one key of one map is atomic,   *)
(* a call that touches two maps is not.  Every such operation is a step.   *)
(* A guard returned by DashMap::get keeps writers of that key out until it *)
(* is dropped; kick_user holds one across its loop.  Other keys that share *)
(* the shard are held up too, which only removes behaviours.               *)
(***************************************************************************)
EXTENDS Naturals, FiniteSets

CONSTANTS
  Tasks,      \* connection tasks; each runs process_connection once
  Users,      \* user ids of the panel
  MaxUuid,    \* uuids of a user are numbered 1..MaxUuid; 0 is "no such user"
  NumShards   \* shards of the DashMap `connections`

ASSUME MaxUuidAssumption == MaxUuid \in Nat \ {0}
ASSUME NumShardsAssumption == NumShards \in Nat \ {0}

NoUser == "no user"
ASSUME NoUserAssumption == NoUser \notin Users

VARIABLES
  next_conn_id,     \* the AtomicU64
  connections,      \* DashMap: connection id -> user id
  user_connections, \* DashMap: user id -> set of connection ids
  cancelled,        \* ids whose CancellationToken has been cancelled
  pc,               \* where each task is in process_connection
  user,             \* the task's user_id once authenticated
  uuid,             \* the uuid it authenticated with
  conn_id,          \* the id register() gave it (0 before)
  users,            \* the panel's user list: user -> uuid (0: absent)
  to_kick,          \* users of the diff on_diff has not kicked yet
  kicking,          \* user whose index entry kick_user holds, or NoUser
  visiting,         \* ids of that entry kick_user has not visited yet
  walk,             \* shutdown: "running", "walking" (in cancel_all), "walked"
  shards_left,      \* shards cancel_all has not visited yet
  \* History variables, read by the properties only.
  overtaken,        \* tasks for whose user kick_user took its snapshot while
                    \* they were between authenticate() and the index insert
  at_walk           \* ids in `connections` ever since cancel_all started

task_vars == <<pc, user, uuid, conn_id>>
maps      == <<next_conn_id, connections, user_connections>>
map_vars  == <<maps, cancelled>>
sync_vars == <<users, to_kick, kicking, visiting, overtaken>>
walk_vars == <<walk, shards_left, at_walk>>
vars == <<task_vars, map_vars, sync_vars, walk_vars>>

ShardIds == 0 .. NumShards - 1
Uuids    == 1 .. MaxUuid

\* f without the key x, and f with x mapped to v: DashMap::remove and insert.
Without(f, x)  == [y \in DOMAIN f \ {x} |-> f[y]]
With(f, x, v)  == [y \in DOMAIN f \cup {x} |-> IF y = x THEN v ELSE f[y]]

\* Which shard an id hashes to; cancel_all may visit the shards in any order.
ShardOf(id) == id % NumShards

PcValues == {"reading", "authenticated", "registering", "dialing", "relaying",
             "unregister", "unregistering", "done"}

Init ==
  /\ next_conn_id = 1
  /\ connections = [i \in {} |-> NoUser]
  /\ user_connections = [u \in {} |-> {}]
  /\ cancelled = {}
  /\ pc = [t \in Tasks |-> "reading"]
  /\ user = [t \in Tasks |-> NoUser]
  /\ uuid = [t \in Tasks |-> 0]
  /\ conn_id = [t \in Tasks |-> 0]
  /\ users = [u \in Users |-> 1]
  /\ to_kick = {}
  /\ kicking = NoUser
  /\ visiting = {}
  /\ walk = "running"
  /\ shards_left = {}
  /\ overtaken = {}
  /\ at_walk = {}

-----------------------------------------------------------------------------
(* process_connection: reading the request and authenticating.             *)

Goto(t, label) == pc' = [pc EXCEPT ![t] = label]

\* process_connection returns: its locals, and its clone of the token, are gone.
Return(t) ==
  /\ Goto(t, "done")
  /\ user' = [user EXCEPT ![t] = NoUser]
  /\ uuid' = [uuid EXCEPT ![t] = 0]
  /\ conn_id' = [conn_id EXCEPT ![t] = 0]
  /\ cancelled' = cancelled \ {conn_id[t]}
  /\ overtaken' = overtaken \ {t}

\* The request is malformed, the client closes, or request_timeout expires.
RequestFails(t) ==
  /\ pc[t] = "reading"
  /\ Return(t)
  /\ UNCHANGED <<maps, users, to_kick, kicking, visiting, walk_vars>>

\* A complete request carries the uuid k of user u; authenticate() looks it
\* up in the user list of this instant.  No await between the two.
Authenticate(t, u, k) ==
  /\ pc[t] = "reading"
  /\ IF users[u] = k
     THEN /\ Goto(t, "authenticated")
          /\ user' = [user EXCEPT ![t] = u]
          /\ uuid' = [uuid EXCEPT ![t] = k]
          /\ UNCHANGED <<conn_id, cancelled, overtaken>>
     ELSE Return(t)
  /\ UNCHANGED <<maps, users, to_kick, kicking, visiting, walk_vars>>

-----------------------------------------------------------------------------
(* ConnectionManager::register, in its two map operations.                 *)

\* fetch_add on the id counter.
TakeIdNotAdvanced == UNCHANGED next_conn_id
TakeId == next_conn_id' = next_conn_id + 1

\* fetch_add and connections.insert.  The id is private until the insert, so
\* the two are one step.
RegisterConn(t) ==
  /\ pc[t] = "authenticated"
  /\ TakeId
  /\ conn_id' = [conn_id EXCEPT ![t] = next_conn_id]
  /\ connections' = With(connections, next_conn_id, user[t])
  /\ Goto(t, "registering")
  /\ UNCHANGED <<user, uuid, user_connections, cancelled, sync_vars, walk_vars>>

\* The index entry of user u is write-locked, which a reader's guard prevents.
IndexNeverLocked(u) == TRUE
IndexUnlocked(u) == kicking # u

Entry(u) == IF u \in DOMAIN user_connections THEN user_connections[u] ELSE {}

\* user_connections.entry(user_id).or_default().insert(conn_id)
InsertIndex(u, id) == user_connections' = With(user_connections, u, Entry(u) \cup {id})

RegisterIndex(t) ==
  /\ pc[t] = "registering"
  /\ IndexUnlocked(user[t])
  /\ InsertIndex(user[t], conn_id[t])
  /\ Goto(t, "dialing")
  /\ UNCHANGED <<user, uuid, conn_id, next_conn_id, connections, cancelled,
                 sync_vars, walk_vars>>

-----------------------------------------------------------------------------
(* Serving.  While it resolves and dials, the task awaits futures that do  *)
(* not watch the token; the relay (and the UDP loop) select on it.         *)

Dialed(t) ==
  /\ pc[t] = "dialing"
  /\ Goto(t, "relaying")
  /\ UNCHANGED <<user, uuid, conn_id, map_vars, sync_vars, walk_vars>>

\* Dialing fails or times out (every attempt has connect_timeout), or the
\* relay ends by itself.
ServingEnds(t) ==
  /\ pc[t] \in {"dialing", "relaying"}
  /\ Goto(t, "unregister")
  /\ UNCHANGED <<user, uuid, conn_id, map_vars, sync_vars, walk_vars>>

\* The cancelled() arm of the select.
CancelObservable(t) == pc[t] = "relaying" /\ conn_id[t] \in cancelled

ObserveCancel(t) ==
  /\ CancelObservable(t)
  /\ Goto(t, "unregister")
  /\ UNCHANGED <<user, uuid, conn_id, map_vars, sync_vars, walk_vars>>

-----------------------------------------------------------------------------
(* ConnectionManager::unregister, run by the scope guard.                  *)

\* connections.remove: only the call that removes the id goes on to the index.
UnregisterConn(t) ==
  /\ pc[t] = "unregister"
  /\ conn_id[t] \in DOMAIN connections
  /\ connections' = Without(connections, conn_id[t])
  /\ at_walk' = at_walk \ {conn_id[t]}
  /\ Goto(t, "unregistering")
  /\ UNCHANGED <<user, uuid, conn_id, next_conn_id, user_connections, cancelled,
                 sync_vars, walk, shards_left>>

\* Deleting the entry of a user whose other connections are still indexed.
RemoveIndexEntry(u, id) == user_connections' = Without(user_connections, u)

\* remove_if_mut: drop the id and, under the same lock, the entry if empty.
RemoveIndex(u, id) ==
  user_connections' =
    IF Entry(u) \subseteq {id} THEN Without(user_connections, u)
                               ELSE With(user_connections, u, Entry(u) \ {id})

UnregisterIndex(t) ==
  /\ pc[t] = "unregistering"
  /\ IndexUnlocked(user[t])
  /\ RemoveIndex(user[t], conn_id[t])
  /\ Return(t)
  /\ UNCHANGED <<next_conn_id, connections, users, to_kick, kicking, visiting, walk_vars>>

-----------------------------------------------------------------------------
(* User synchronisation.  panel-core replaces the user list and then calls *)
(* on_diff with the ids that were removed or whose uuid changed.           *)

\* uuid_changed_ids left out of the chain.
DiffRemovedIds(old, new) == {u \in Users : old[u] # 0 /\ new[u] = 0}
DiffIds(old, new) == {u \in Users : old[u] # 0 /\ new[u] # old[u]}

SyncUsers(new) ==
  /\ to_kick = {} /\ kicking = NoUser
  /\ new # users
  /\ users' = new
  /\ to_kick' = DiffIds(users, new)
  /\ UNCHANGED <<kicking, visiting, overtaken, task_vars, map_vars, walk_vars>>

InRegisterWindow(u) ==
  {t \in Tasks : pc[t] \in {"authenticated", "registering"} /\ user[t] = u}

\* kick_user(u): user_connections.get(&u).  None: the call is over.
KickLookup(u) ==
  /\ kicking = NoUser
  /\ u \in to_kick
  /\ to_kick' = to_kick \ {u}
  /\ IF u \in DOMAIN user_connections
     THEN kicking' = u /\ visiting' = user_connections[u]
     ELSE UNCHANGED <<kicking, visiting>>
  /\ overtaken' = overtaken \cup InRegisterWindow(u)
  /\ UNCHANGED <<users, task_vars, map_vars, walk_vars>>

\* One iteration of the loop: connections.get(&id), then cancel().
KickVisit(id) ==
  /\ id \in visiting
  /\ visiting' = visiting \ {id}
  /\ cancelled' = IF id \in DOMAIN connections THEN cancelled \cup {id} ELSE cancelled
  /\ UNCHANGED <<next_conn_id, connections, user_connections, users, to_kick,
                 kicking, overtaken, task_vars, walk_vars>>

\* The guard on the index entry is dropped.
KickReturn ==
  /\ kicking # NoUser
  /\ visiting = {}
  /\ kicking' = NoUser
  /\ UNCHANGED <<users, to_kick, visiting, overtaken, task_vars, map_vars, walk_vars>>

-----------------------------------------------------------------------------
(* Shutdown: cancel_all walks `connections` shard by shard, holding the    *)
(* read lock of one shard at a time.                                       *)

CancelAllStart ==
  /\ walk = "running"
  /\ walk' = "walking"
  /\ shards_left' = ShardIds
  /\ at_walk' = DOMAIN connections
  /\ UNCHANGED <<task_vars, map_vars, sync_vars>>

CancelShard(s) ==
  /\ walk = "walking"
  /\ s \in shards_left
  /\ shards_left' = shards_left \ {s}
  /\ cancelled' = cancelled \cup {id \in DOMAIN connections : ShardOf(id) = s}
  /\ UNCHANGED <<next_conn_id, connections, user_connections, walk, at_walk,
                 task_vars, sync_vars>>

\* The iterator is exhausted.
WalkDoneEarly == Cardinality(shards_left) <= 1
WalkDone == shards_left = {}

CancelAllReturn ==
  /\ walk = "walking"
  /\ WalkDone
  /\ walk' = "walked"
  /\ shards_left' = {}
  /\ UNCHANGED <<at_walk, task_vars, map_vars, sync_vars>>

-----------------------------------------------------------------------------
Register(t)   == RegisterConn(t) \/ RegisterIndex(t)
Unregister(t) == UnregisterConn(t) \/ UnregisterIndex(t)

TaskNext(t) ==
  \/ RequestFails(t)
  \/ \E u \in Users, k \in Uuids : Authenticate(t, u, k)
  \/ Register(t)
  \/ Dialed(t) \/ ServingEnds(t) \/ ObserveCancel(t)
  \/ Unregister(t)

KickNext == KickReturn \/ (\E u \in Users : KickLookup(u)) \/ (\E id \in visiting : KickVisit(id))

SyncNext == \E new \in [Users -> 0 .. MaxUuid] : SyncUsers(new)

WalkNext == CancelAllStart \/ CancelAllReturn \/ (\E s \in ShardIds : CancelShard(s))

Next == (\E t \in Tasks : TaskNext(t)) \/ KickNext \/ SyncNext \/ WalkNext

Spec == Init /\ [][Next]_vars

-----------------------------------------------------------------------------
TypeOK ==
  /\ next_conn_id \in Nat \ {0}
  /\ DOMAIN connections \subseteq 1 .. next_conn_id - 1
  /\ connections \in [DOMAIN connections -> Users]
  /\ DOMAIN user_connections \subseteq Users
  /\ user_connections \in [DOMAIN user_connections -> SUBSET (1 .. next_conn_id - 1)]
  /\ cancelled \subseteq 1 .. next_conn_id - 1
  /\ pc \in [Tasks -> PcValues]
  /\ user \in [Tasks -> Users \cup {NoUser}]
  /\ uuid \in [Tasks -> 0 .. MaxUuid]
  /\ conn_id \in [Tasks -> 0 .. next_conn_id - 1]
  /\ users \in [Users -> 0 .. MaxUuid]
  /\ to_kick \subseteq Users
  /\ kicking \in Users \cup {NoUser}
  /\ visiting \subseteq 1 .. next_conn_id - 1
  /\ walk \in {"running", "walking", "walked"}
  /\ shards_left \subseteq ShardIds
  /\ overtaken \subseteq Tasks
  /\ at_walk \subseteq 1 .. next_conn_id - 1

\* Places where the task's id is in `connections`, and where it is in the index.
InConnections == {"registering", "dialing", "relaying", "unregister"}
InIndex       == {"dialing", "relaying", "unregister", "unregistering"}
HasId         == InConnections \cup {"unregistering"}

(* Two tasks never hold the same id, and each map holds exactly the ids of *)
(* the tasks that are between its insert and its remove, under the user    *)
(* they authenticated as.  In particular a concurrent register and         *)
(* unregister of one user never lose an index entry, and the last          *)
(* unregister leaves no empty entry behind (connection.rs:57-90).          *)
UniqueIds ==
  \A s, t \in Tasks : pc[s] \in HasId /\ pc[t] \in HasId /\ conn_id[s] = conn_id[t] => s = t
ConnectionsExact ==
  /\ \A t \in Tasks : pc[t] \in InConnections =>
       conn_id[t] \in DOMAIN connections /\ connections[conn_id[t]] = user[t]
  /\ \A i \in DOMAIN connections : \E t \in Tasks : pc[t] \in InConnections /\ conn_id[t] = i
IndexExact ==
  /\ \A t \in Tasks : pc[t] \in InIndex =>
       user[t] \in DOMAIN user_connections /\ conn_id[t] \in user_connections[user[t]]
  /\ \A u \in DOMAIN user_connections :
       /\ user_connections[u] # {}
       /\ \A i \in user_connections[u] :
            \E t \in Tasks : pc[t] \in InIndex /\ conn_id[t] = i /\ user[t] = u
MapsExact == UniqueIds /\ ConnectionsExact /\ IndexExact

(* When kick_user(u) returns, every connection of u whose register() had   *)
(* returned before is cancelled: register and unregister of u wait for the *)
(* guard, so the loop misses none of them (connection.rs:93-104).          *)
KickCoversIndexed ==
  \A t \in Tasks :
    kicking # NoUser /\ user[t] = kicking /\ pc[t] \in {"dialing", "relaying"}
      => conn_id[t] \in visiting \cup cancelled

(* The kick after a user sync leaves no connection of a removed or         *)
(* re-keyed user running, except one that the kick overtook between        *)
(* authenticate() and the index insert of register() (handler.rs:138-156). *)
OutdatedAreKickedOrOvertaken ==
  \A t \in Tasks :
    pc[t] \in {"dialing", "relaying"} /\ users[user[t]] # uuid[t] =>
      \/ user[t] \in to_kick
      \/ conn_id[t] \in visiting \cup cancelled
      \/ t \in overtaken

(* cancel_all reaches every connection that was registered when it started *)
(* and is still there, whatever registers and unregisters meanwhile        *)
(* (connection.rs:110-117).                                                *)
CancelAllCovers ==
  walk = "walked" => at_walk \subseteq cancelled

(* Before shutdown, a token is cancelled only by the kick of the user it   *)
(* was registered for: the index never leads kick_user to the connection   *)
(* of someone else (main.rs:189-194).                                      *)
OnlyOwnersAreKicked ==
  [][\A id \in cancelled' \ cancelled : walk = "running" => connections[id] = kicking]_vars

=============================================================================
