-------------------------- MODULE ConnectionProofs --------------------------
(***************************************************************************)
(* What holds of the connections the server keeps.                         *)
(*                                                                         *)
(* ConnectionManager, for any number of tasks, users, uuids and shards:    *)
(* Typed is inductive by itself. On top of it MapsExact is, because a new  *)
(* id is larger than every id given out (TypeOK) and no two tasks share    *)
(* one. KickCoversIndexed needs both: the index leads kick_user to every   *)
(* registered connection, and each of them is still in `connections`.      *)
(*                                                                         *)
(* GrpcConnection, for every number of streams, permits, missed pings and  *)
(* every idle timeout: the permit and stream accounts, the heartbeat's     *)
(* verdict in both directions, and the idle window.                        *)
(***************************************************************************)
EXTENDS ConnectionManager, GrpcConnection, FiniteSetTheorems, TLAPS

-----------------------------------------------------------------------------
(* The connection registry.                                                 *)

\* A task that has authenticated has a user; one that has registered has an id,
\* and one that has not has none.
Located ==
  \A t \in Tasks :
    /\ pc[t] \in HasId \cup {"authenticated"} => user[t] \in Users
    /\ IF pc[t] \in HasId THEN conn_id[t] \in 1 .. next_conn_id - 1 ELSE conn_id[t] = 0

Typed == TypeOK /\ Located

-----------------------------------------------------------------------------
\* The initial states are typed.
LEMMA InitTyped == Init => Typed
  BY MaxUuidAssumption, NoUserAssumption
  DEF Init, Typed, TypeOK, Located, PcValues, HasId, InConnections, ShardIds

USE DEF HasId, InConnections

\* Reading and authenticating keep the types.
LEMMA RequestTyped ==
  ASSUME Typed, NEW t \in Tasks,
         RequestFails(t) \/ \E u \in Users, k \in Uuids : Authenticate(t, u, k)
  PROVE  Typed'
<1>1. CASE RequestFails(t)
  BY <1>1, MaxUuidAssumption
  DEF Typed, TypeOK, Located, RequestFails, Return, Goto, PcValues, maps, walk_vars
<1>2. CASE \E u \in Users, k \in Uuids : Authenticate(t, u, k)
  <2> PICK u \in Users, k \in Uuids : Authenticate(t, u, k)
    BY <1>2
  <2>1. CASE users[u] = k
    BY <2>1, MaxUuidAssumption
    DEF Typed, TypeOK, Located, Authenticate, Goto, PcValues, Uuids, maps, walk_vars
  <2>2. CASE users[u] # k
    BY <2>2, MaxUuidAssumption
    DEF Typed, TypeOK, Located, Authenticate, Return, Goto, PcValues, maps, walk_vars
  <2>3. QED
    BY <2>1, <2>2
<1>3. QED
  BY <1>1, <1>2

\* Register keeps the types.
LEMMA RegisterTyped ==
  ASSUME Typed, NEW t \in Tasks, Register(t)
  PROVE  Typed'
<1>1. CASE RegisterConn(t)
  BY <1>1
  DEF Typed, TypeOK, Located, RegisterConn, TakeId, With, Goto, PcValues, sync_vars, walk_vars
<1>2. CASE RegisterIndex(t)
  BY <1>2
  DEF Typed, TypeOK, Located, RegisterIndex, InsertIndex, Entry, With, Goto, PcValues,
      sync_vars, walk_vars
<1>3. QED
  BY <1>1, <1>2 DEF Register

\* Serving keeps the types.
LEMMA ServeTyped ==
  ASSUME Typed, NEW t \in Tasks, Dialed(t) \/ ServingEnds(t) \/ ObserveCancel(t)
  PROVE  Typed'
  BY DEF Typed, TypeOK, Located, Dialed, ServingEnds, ObserveCancel, CancelObservable, Goto,
         PcValues, map_vars, maps, sync_vars, walk_vars

\* Unregister keeps the types.
LEMMA UnregisterTyped ==
  ASSUME Typed, NEW t \in Tasks, Unregister(t)
  PROVE  Typed'
<1>1. CASE UnregisterConn(t)
  BY <1>1
  DEF Typed, TypeOK, Located, UnregisterConn, Without, Goto, PcValues, sync_vars
<1>2. CASE UnregisterIndex(t)
  BY <1>2, MaxUuidAssumption
  DEF Typed, TypeOK, Located, UnregisterIndex, RemoveIndex, Entry, With, Without, Return,
      Goto, PcValues, walk_vars
<1>3. QED
  BY <1>1, <1>2 DEF Unregister

\* User synchronisation keeps the types.
LEMMA KickTyped ==
  ASSUME Typed, KickNext \/ SyncNext
  PROVE  Typed'
<1>1. CASE KickReturn
  BY <1>1 DEF Typed, TypeOK, Located, KickReturn, task_vars, map_vars, maps, walk_vars
<1>2. ASSUME NEW u \in Users, KickLookup(u) PROVE Typed'
  BY <1>2 DEF Typed, TypeOK, Located, KickLookup, InRegisterWindow, task_vars, map_vars, maps,
              walk_vars
<1>3. ASSUME NEW id \in visiting, KickVisit(id) PROVE Typed'
  BY <1>3 DEF Typed, TypeOK, Located, KickVisit, task_vars, walk_vars
<1>4. ASSUME NEW new \in [Users -> 0 .. MaxUuid], SyncUsers(new) PROVE Typed'
  BY <1>4 DEF Typed, TypeOK, Located, SyncUsers, DiffIds, task_vars, map_vars, maps, walk_vars
<1>5. QED
  BY <1>1, <1>2, <1>3, <1>4 DEF KickNext, SyncNext

\* The walk of cancel_all keeps the types.
LEMMA WalkTyped ==
  ASSUME Typed, WalkNext
  PROVE  Typed'
<1>1. CASE CancelAllStart
  BY <1>1 DEF Typed, TypeOK, Located, CancelAllStart, task_vars, map_vars, maps, sync_vars
<1>2. ASSUME NEW s \in ShardIds, CancelShard(s) PROVE Typed'
  BY <1>2 DEF Typed, TypeOK, Located, CancelShard, task_vars, sync_vars
<1>3. CASE CancelAllReturn
  BY <1>3 DEF Typed, TypeOK, Located, CancelAllReturn, task_vars, map_vars, maps, sync_vars
<1>4. QED
  BY <1>1, <1>2, <1>3 DEF WalkNext

\* Every step keeps the types.
LEMMA NextTyped ==
  ASSUME Typed, [Next]_vars
  PROVE  Typed'
<1>1. CASE \E t \in Tasks : TaskNext(t)
  BY <1>1, RequestTyped, RegisterTyped, ServeTyped, UnregisterTyped DEF TaskNext
<1>2. CASE KickNext \/ SyncNext
  BY <1>2, KickTyped
<1>3. CASE WalkNext
  BY <1>3, WalkTyped
<1>4. CASE UNCHANGED vars
  BY <1>4 DEF Typed, TypeOK, Located, vars, task_vars, map_vars, maps, sync_vars, walk_vars
<1>5. QED
  BY <1>1, <1>2, <1>3, <1>4 DEF Next

\* Type correctness: the ids in both maps, in the token set and in the kick's
\* snapshot are always ids that register() gave out (connection.rs:57-117).
THEOREM TypeCorrect == Spec => []TypeOK
<1>1. Spec => []Typed
  BY InitTyped, NextTyped, PTL DEF Spec
<1>2. Typed => TypeOK
  BY DEF Typed
<1>3. QED
  BY <1>1, <1>2, PTL

-----------------------------------------------------------------------------
(* MapsExact: what each map holds.                                         *)

USE DEF InIndex

\* Steps that move no task between the maps.
MapsFrame ==
  /\ UNCHANGED <<user, conn_id, connections, user_connections>>
  /\ \A t \in Tasks : /\ pc'[t] \in InConnections <=> pc[t] \in InConnections
                      /\ pc'[t] \in InIndex <=> pc[t] \in InIndex

\* Such steps keep MapsExact.
LEMMA FrameExact ==
  ASSUME MapsExact, MapsFrame
  PROVE  MapsExact'
  BY DEF MapsExact, UniqueIds, ConnectionsExact, IndexExact, MapsFrame

\* Reading and authenticating: the task is in neither map, before and after.
LEMMA RequestExact ==
  ASSUME Typed, MapsExact, NEW t \in Tasks,
         RequestFails(t) \/ \E u \in Users, k \in Uuids : Authenticate(t, u, k)
  PROVE  MapsExact'
<1>1. /\ pc[t] = "reading"
      /\ pc' = [pc EXCEPT ![t] = pc'[t]] /\ pc'[t] \in {"authenticated", "done"}
      /\ user' = [user EXCEPT ![t] = user'[t]]
      /\ conn_id' = [conn_id EXCEPT ![t] = conn_id'[t]]
      /\ UNCHANGED <<connections, user_connections>>
  BY DEF RequestFails, Authenticate, Return, Goto, maps, Typed, TypeOK
<1>2. \A s \in Tasks : s # t => pc'[s] = pc[s] /\ user'[s] = user[s] /\ conn_id'[s] = conn_id[s]
  BY <1>1 DEF Typed, TypeOK
<1>3. QED
  BY <1>1, <1>2 DEF MapsExact, UniqueIds, ConnectionsExact, IndexExact

\* connections.insert: the new id is larger than every id in use.
LEMMA RegisterConnExact ==
  ASSUME Typed, MapsExact, NEW t \in Tasks, RegisterConn(t)
  PROVE  MapsExact'
<1> DEFINE n == next_conn_id
<1>1. /\ pc[t] = "authenticated" /\ pc'[t] = "registering" /\ conn_id'[t] = n
      /\ \A s \in Tasks : s # t => pc'[s] = pc[s] /\ conn_id'[s] = conn_id[s]
      /\ UNCHANGED <<user, user_connections>>
  BY DEF RegisterConn, Goto, Typed, TypeOK
<1>2. /\ DOMAIN connections' = DOMAIN connections \cup {n}
      /\ connections'[n] = user[t]
      /\ \A i \in DOMAIN connections : i # n => connections'[i] = connections[i]
  BY DEF RegisterConn, With
<1>3. n \notin DOMAIN connections /\ \A s \in Tasks : conn_id[s] # n
  BY DEF Typed, TypeOK
<1>4. UniqueIds'
  BY <1>1, <1>3 DEF MapsExact, UniqueIds
<1>5. ConnectionsExact'
  BY <1>1, <1>2, <1>3 DEF MapsExact, ConnectionsExact
<1>6. IndexExact'
  BY <1>1 DEF MapsExact, IndexExact
<1>7. QED
  BY <1>4, <1>5, <1>6 DEF MapsExact

\* entry().or_default().insert(): only the entry of this user changes.
LEMMA RegisterIndexExact ==
  ASSUME Typed, MapsExact, NEW t \in Tasks, RegisterIndex(t)
  PROVE  MapsExact'
<1>1. /\ pc[t] = "registering" /\ pc'[t] = "dialing"
      /\ \A s \in Tasks : s # t => pc'[s] = pc[s]
      /\ UNCHANGED <<user, conn_id, connections>>
  BY DEF RegisterIndex, Goto, Typed, TypeOK
<1>2. /\ DOMAIN user_connections' = DOMAIN user_connections \cup {user[t]}
      /\ user_connections'[user[t]] = Entry(user[t]) \cup {conn_id[t]}
      /\ \A u \in DOMAIN user_connections : u # user[t] => user_connections'[u] = user_connections[u]
  BY DEF RegisterIndex, InsertIndex, With
<1>3. UniqueIds' /\ ConnectionsExact'
  BY <1>1 DEF MapsExact, UniqueIds, ConnectionsExact
<1>4. IndexExact'
  BY <1>1, <1>2 DEF MapsExact, IndexExact, Entry
<1>5. QED
  BY <1>3, <1>4 DEF MapsExact

\* Serving moves no task between the maps.
LEMMA ServeExact ==
  ASSUME Typed, MapsExact, NEW t \in Tasks, Dialed(t) \/ ServingEnds(t) \/ ObserveCancel(t)
  PROVE  MapsExact'
<1>1. MapsFrame
  BY DEF MapsFrame, Dialed, ServingEnds, ObserveCancel, CancelObservable, Goto, map_vars, maps,
         Typed, TypeOK
<1>2. QED
  BY <1>1, FrameExact

\* connections.remove: no other task has this id.
LEMMA UnregisterConnExact ==
  ASSUME Typed, MapsExact, NEW t \in Tasks, UnregisterConn(t)
  PROVE  MapsExact'
<1>1. /\ pc[t] = "unregister" /\ pc'[t] = "unregistering"
      /\ \A s \in Tasks : s # t => pc'[s] = pc[s]
      /\ UNCHANGED <<user, conn_id, user_connections>>
  BY DEF UnregisterConn, Goto, Typed, TypeOK
<1>2. /\ DOMAIN connections' = DOMAIN connections \ {conn_id[t]}
      /\ \A i \in DOMAIN connections' : connections'[i] = connections[i]
  BY DEF UnregisterConn, Without
<1>3. UniqueIds' /\ IndexExact'
  BY <1>1 DEF MapsExact, UniqueIds, IndexExact
<1>4. ConnectionsExact'
  BY <1>1, <1>2 DEF MapsExact, UniqueIds, ConnectionsExact
<1>5. QED
  BY <1>3, <1>4 DEF MapsExact

\* remove_if_mut: the entry goes exactly when its last id goes.
LEMMA UnregisterIndexExact ==
  ASSUME Typed, MapsExact, NEW t \in Tasks, UnregisterIndex(t)
  PROVE  MapsExact'
<1>1. /\ pc[t] = "unregistering" /\ pc'[t] = "done"
      /\ \A s \in Tasks : s # t => pc'[s] = pc[s] /\ user'[s] = user[s] /\ conn_id'[s] = conn_id[s]
      /\ UNCHANGED connections
  BY DEF UnregisterIndex, Return, Goto, Typed, TypeOK
<1>2. UniqueIds' /\ ConnectionsExact'
  BY <1>1 DEF MapsExact, UniqueIds, ConnectionsExact
<1>3. IndexExact'
  <2>1. user[t] \in DOMAIN user_connections /\ Entry(user[t]) = user_connections[user[t]]
    BY <1>1 DEF MapsExact, IndexExact, Entry
  <2>2. CASE user_connections[user[t]] \subseteq {conn_id[t]}
    <3>1. /\ DOMAIN user_connections' = DOMAIN user_connections \ {user[t]}
          /\ \A u \in DOMAIN user_connections' : user_connections'[u] = user_connections[u]
      BY <2>1, <2>2 DEF UnregisterIndex, RemoveIndex, Without
    <3>2. QED
      BY <1>1, <2>2, <3>1 DEF MapsExact, UniqueIds, IndexExact
  <2>3. CASE ~(user_connections[user[t]] \subseteq {conn_id[t]})
    <3>1. /\ DOMAIN user_connections' = DOMAIN user_connections
          /\ user_connections'[user[t]] = user_connections[user[t]] \ {conn_id[t]}
          /\ \A u \in DOMAIN user_connections : u # user[t] => user_connections'[u] = user_connections[u]
      BY <2>1, <2>3 DEF UnregisterIndex, RemoveIndex, With
    <3>2. QED
      BY <1>1, <2>3, <3>1 DEF MapsExact, UniqueIds, IndexExact
  <2>4. QED
    BY <2>2, <2>3
<1>4. QED
  BY <1>2, <1>3 DEF MapsExact

\* Kicks, user syncs and the walk of cancel_all write neither map.
LEMMA OthersExact ==
  ASSUME MapsExact, KickNext \/ SyncNext \/ WalkNext \/ UNCHANGED vars
  PROVE  MapsExact'
<1>1. UNCHANGED <<pc, user, conn_id, connections, user_connections>>
  BY DEF KickNext, KickReturn, KickLookup, KickVisit, SyncNext, SyncUsers, WalkNext,
         CancelAllStart, CancelShard, CancelAllReturn, vars, task_vars, map_vars, maps
<1>2. QED
  BY <1>1, FrameExact DEF MapsFrame

\* Every step keeps MapsExact.
LEMMA NextExact ==
  ASSUME Typed, MapsExact, [Next]_vars
  PROVE  MapsExact'
<1>1. ASSUME NEW t \in Tasks, TaskNext(t) PROVE MapsExact'
  BY <1>1, RequestExact, RegisterConnExact, RegisterIndexExact, ServeExact,
     UnregisterConnExact, UnregisterIndexExact DEF TaskNext, Register, Unregister
<1>2. QED
  BY <1>1, OthersExact DEF Next

\* The initial maps are empty and no task has an id.
LEMMA InitExact == Init => MapsExact
  BY DEF Init, MapsExact, UniqueIds, ConnectionsExact, IndexExact

\* No two tasks share an id and each map holds exactly the ids of the tasks
\* between its insert and its remove, for every interleaving of registers and
\* unregisters (connection.rs:57-90).
THEOREM MapsAreExact == Spec => []MapsExact
<1>1. Init => Typed /\ MapsExact
  BY InitTyped, InitExact
<1>2. Typed /\ MapsExact /\ [Next]_vars => (Typed /\ MapsExact)'
  BY NextTyped, NextExact
<1>3. QED
  BY <1>1, <1>2, PTL DEF Spec

-----------------------------------------------------------------------------
(* The kick.  While kick_user runs, its snapshot stays within the entry it *)
(* holds the lock of.                                                      *)

Snapshot == visiting \subseteq (IF kicking = NoUser THEN {} ELSE Entry(kicking))

KickInv == Typed /\ MapsExact /\ Snapshot /\ KickCoversIndexed

\* What a returning task takes away is no other task's.
LEMMA ReturnKeepsOthers ==
  ASSUME Typed, MapsExact, NEW t \in Tasks, Return(t), pc[t] \in {"reading", "unregistering"},
         NEW s \in Tasks, s # t
  PROVE  /\ pc'[s] = pc[s] /\ user'[s] = user[s] /\ uuid'[s] = uuid[s] /\ conn_id'[s] = conn_id[s]
         /\ pc[s] \in HasId /\ conn_id[s] \in cancelled => conn_id[s] \in cancelled'
  BY DEF Return, Goto, Typed, TypeOK, Located, MapsExact, UniqueIds

\* A task step writes the index only where no kick holds it.
LEMMA TaskSnapshot ==
  ASSUME KickInv, NEW t \in Tasks, TaskNext(t)
  PROVE  Snapshot'
<1>1. visiting' = visiting /\ kicking' = kicking
  BY DEF TaskNext, RequestFails, Authenticate, Register, RegisterConn, RegisterIndex, Dialed,
         ServingEnds, ObserveCancel, Unregister, UnregisterConn, UnregisterIndex, sync_vars
<1>2. kicking # NoUser => Entry(kicking)' = Entry(kicking)
  <2>1. CASE UNCHANGED user_connections
    BY <1>1, <2>1 DEF Entry
  <2>2. CASE RegisterIndex(t)
    BY <1>1, <2>2 DEF RegisterIndex, IndexUnlocked, InsertIndex, Entry, With
  <2>3. CASE UnregisterIndex(t)
    BY <1>1, <2>3 DEF UnregisterIndex, IndexUnlocked, RemoveIndex, Entry, With, Without
  <2>4. QED
    BY <2>1, <2>2, <2>3
    DEF TaskNext, RequestFails, Authenticate, Register, RegisterConn, Dialed, ServingEnds,
        ObserveCancel, Unregister, UnregisterConn, map_vars, maps
<1>3. QED
  BY <1>1, <1>2 DEF KickInv, Snapshot

\* Every step keeps the snapshot within the locked entry.
LEMMA NextSnapshot ==
  ASSUME KickInv, [Next]_vars
  PROVE  Snapshot'
<1>1. ASSUME NEW t \in Tasks, TaskNext(t) PROVE Snapshot'
  BY <1>1, TaskSnapshot
<1>2. CASE KickNext
  <2>1. UNCHANGED user_connections
    BY <1>2 DEF KickNext, KickReturn, KickLookup, KickVisit, map_vars, maps
  <2>2. CASE KickReturn
    BY <2>2 DEF KickReturn, Snapshot
  <2>3. ASSUME NEW u \in Users, KickLookup(u) PROVE Snapshot'
    BY <2>1, <2>3, NoUserAssumption DEF KickLookup, KickInv, Snapshot, Entry
  <2>4. ASSUME NEW id \in visiting, KickVisit(id) PROVE Snapshot'
    BY <2>1, <2>4 DEF KickVisit, KickInv, Snapshot, Entry
  <2>5. QED
    BY <1>2, <2>2, <2>3, <2>4 DEF KickNext
<1>3. CASE SyncNext \/ WalkNext \/ UNCHANGED vars
  BY <1>3 DEF SyncNext, SyncUsers, WalkNext, CancelAllStart, CancelShard, CancelAllReturn, vars,
              sync_vars, map_vars, maps, KickInv, Snapshot, Entry
<1>4. QED
  BY <1>1, <1>2, <1>3 DEF Next

\* Every step keeps the coverage of a kick in progress.
LEMMA NextCovers ==
  ASSUME KickInv, [Next]_vars
  PROVE  KickCoversIndexed'
<1> SUFFICES ASSUME NEW s \in Tasks, kicking' # NoUser, user'[s] = kicking',
                    pc'[s] \in {"dialing", "relaying"}
             PROVE  conn_id'[s] \in visiting' \cup cancelled'
  BY DEF KickCoversIndexed
<1> USE DEF KickInv
<1>1. ASSUME NEW t \in Tasks, TaskNext(t)
      PROVE  conn_id'[s] \in visiting' \cup cancelled'
  <2>1. visiting' = visiting /\ kicking' = kicking
    BY <1>1 DEF TaskNext, RequestFails, Authenticate, Register, RegisterConn, RegisterIndex,
         Dialed, ServingEnds, ObserveCancel, Unregister, UnregisterConn, UnregisterIndex, sync_vars
  <2>2. CASE Return(t) /\ pc[t] \in {"reading", "unregistering"}
    <3>1. s # t
      BY <2>2 DEF Return, Goto, Typed, TypeOK
    <3>2. QED
      BY <2>1, <2>2, <3>1, ReturnKeepsOthers DEF KickCoversIndexed
  <2>3. CASE RegisterIndex(t)
    BY <2>1, <2>3 DEF RegisterIndex, IndexUnlocked, Goto, KickCoversIndexed, Typed, TypeOK
  <2>4. CASE RegisterConn(t) \/ Dialed(t) \/ ServingEnds(t) \/ ObserveCancel(t) \/ UnregisterConn(t)
    BY <2>1, <2>4 DEF RegisterConn, Dialed, ServingEnds, ObserveCancel, CancelObservable,
         UnregisterConn, Goto, map_vars, KickCoversIndexed, Typed, TypeOK
  <2>5. ASSUME NEW u \in Users, NEW k \in Uuids, Authenticate(t, u, k), users[u] = k
        PROVE  conn_id'[s] \in visiting' \cup cancelled'
    BY <2>1, <2>5 DEF Authenticate, Goto, KickCoversIndexed, Typed, TypeOK
  <2>6. QED
    BY <1>1, <2>2, <2>3, <2>4, <2>5
    DEF TaskNext, RequestFails, Authenticate, Register, Unregister, UnregisterIndex
<1>2. CASE KickReturn
  BY <1>2 DEF KickReturn
<1>3. ASSUME NEW u \in Users, KickLookup(u)
      PROVE  conn_id'[s] \in visiting' \cup cancelled'
  BY <1>3, NoUserAssumption
  DEF KickLookup, task_vars, map_vars, MapsExact, IndexExact
<1>4. ASSUME NEW id \in visiting, KickVisit(id)
      PROVE  conn_id'[s] \in visiting' \cup cancelled'
  BY <1>4 DEF KickVisit, task_vars, KickCoversIndexed, MapsExact, ConnectionsExact
<1>5. CASE SyncNext
  BY <1>5 DEF SyncNext, SyncUsers
<1>6. CASE WalkNext \/ UNCHANGED vars
  BY <1>6 DEF WalkNext, CancelAllStart, CancelShard, CancelAllReturn, vars, task_vars, sync_vars,
              map_vars, KickCoversIndexed
<1>7. QED
  BY <1>1, <1>2, <1>3, <1>4, <1>5, <1>6 DEF Next, KickNext

\* The four parts together are inductive.
LEMMA KickInvariant == Spec => []KickInv
<1>1. Init => KickInv
  BY InitTyped, InitExact DEF KickInv, Init, Snapshot, KickCoversIndexed
<1>2. KickInv /\ [Next]_vars => KickInv'
  <2> SUFFICES ASSUME KickInv, [Next]_vars PROVE KickInv'
    OBVIOUS
  <2>1. Typed' /\ MapsExact'
    BY NextTyped, NextExact DEF KickInv
  <2>2. QED
    BY <2>1, NextSnapshot, NextCovers DEF KickInv
<1>3. QED
  BY <1>1, <1>2, PTL DEF Spec

\* A running kick_user has every connection of its user, registered before or
\* during the call, cancelled already or still ahead (connection.rs:93-104).
THEOREM KickCovers == Spec => []KickCoversIndexed
<1>1. KickInv => KickCoversIndexed
  BY DEF KickInv
<1>2. QED
  BY <1>1, KickInvariant, PTL

\* Before shutdown a token is cancelled only by a kick of the user it was
\* registered for (connection.rs:93-104, main.rs:189-194).
THEOREM KicksOnlyOwners == Spec => OnlyOwnersAreKicked
<1> DEFINE Owned == \A id \in cancelled' \ cancelled : walk = "running" => connections[id] = kicking
<1>1. KickInv /\ [Next]_vars => [Owned]_vars
  <2> SUFFICES ASSUME KickInv, Next, NEW id \in cancelled' \ cancelled, walk = "running"
               PROVE  connections[id] = kicking
    OBVIOUS
  <2>1. ASSUME NEW t \in Tasks, TaskNext(t) PROVE FALSE
    BY <2>1 DEF TaskNext, RequestFails, Authenticate, Return, Register, RegisterConn,
       RegisterIndex, Dialed, ServingEnds, ObserveCancel, Unregister, UnregisterConn,
       UnregisterIndex, map_vars
  <2>2. ASSUME NEW i \in visiting, KickVisit(i) PROVE connections[id] = kicking
    <3>1. id = i /\ id \in DOMAIN connections /\ kicking # NoUser /\ id \in Entry(kicking)
      BY <2>2 DEF KickVisit, KickInv, Snapshot
    <3>2. PICK t \in Tasks : pc[t] \in InIndex /\ conn_id[t] = id /\ user[t] = kicking
      BY <3>1 DEF KickInv, MapsExact, IndexExact, Entry
    <3>3. PICK s \in Tasks : pc[s] \in InConnections /\ conn_id[s] = id
      BY <3>1 DEF KickInv, MapsExact, ConnectionsExact
    <3>4. QED
      BY <3>2, <3>3 DEF KickInv, MapsExact, UniqueIds, ConnectionsExact
  <2>3. QED
    BY <2>1, <2>2 DEF Next, KickNext, KickReturn, KickLookup, SyncNext, SyncUsers, WalkNext,
       CancelAllStart, CancelShard, CancelAllReturn, map_vars
<1>2. QED
  BY <1>1, KickInvariant, PTL DEF Spec, OnlyOwnersAreKicked

-----------------------------------------------------------------------------
(* After a user sync.  The property also holds, without the token, for     *)
(* tasks that have not reached the index yet; and a task never holds the   *)
(* uuid 0 of an absent user, so that the diff sees its user change.        *)

Outdated(t) == users[user[t]] # uuid[t]

SyncInv ==
  /\ \A t \in Tasks : pc[t] \in HasId \cup {"authenticated"} => uuid[t] \in Uuids
  /\ \A t \in Tasks : pc[t] \in {"authenticated", "registering"} /\ Outdated(t) =>
       user[t] \in to_kick \/ t \in overtaken
  /\ OutdatedAreKickedOrOvertaken

\* A task step keeps SyncInv.
LEMMA TaskSync ==
  ASSUME KickInv, SyncInv, NEW t \in Tasks, TaskNext(t)
  PROVE  SyncInv'
<1> USE DEF KickInv
<1>1. UNCHANGED <<users, to_kick, visiting>>
  BY DEF TaskNext, RequestFails, Authenticate, Register, RegisterConn, RegisterIndex,
         Dialed, ServingEnds, ObserveCancel, Unregister, UnregisterConn, UnregisterIndex, sync_vars
<1>2. CASE Return(t) /\ pc[t] \in {"reading", "unregistering"}
  <2>1. pc'[t] = "done"
    BY <1>2 DEF Return, Goto, Typed, TypeOK
  <2>2. \A s \in Tasks : s # t /\ s \in overtaken => s \in overtaken'
    BY <1>2 DEF Return
  <2>3. QED
    BY <1>1, <1>2, <2>1, <2>2, ReturnKeepsOthers DEF SyncInv, Outdated,
       OutdatedAreKickedOrOvertaken
<1>3. ASSUME NEW u \in Users, NEW k \in Uuids, Authenticate(t, u, k), users[u] = k
      PROVE  SyncInv'
  BY <1>1, <1>3
  DEF Authenticate, Goto, SyncInv, Outdated, OutdatedAreKickedOrOvertaken, Typed, TypeOK, Uuids
<1>4. CASE RegisterConn(t)
  <2>1. \A s \in Tasks : pc'[s] \in {"dialing", "relaying"} => s # t
    BY <1>4 DEF RegisterConn, Goto, Typed, TypeOK
  <2>2. QED
    BY <1>1, <1>4, <2>1
    DEF RegisterConn, Goto, SyncInv, Outdated, OutdatedAreKickedOrOvertaken, Typed, TypeOK, sync_vars
<1>5. CASE RegisterIndex(t) \/ Dialed(t) \/ ServingEnds(t) \/ ObserveCancel(t) \/ UnregisterConn(t)
  BY <1>1, <1>5
  DEF RegisterIndex, Dialed, ServingEnds, ObserveCancel, CancelObservable, UnregisterConn, Goto,
      SyncInv, Outdated, OutdatedAreKickedOrOvertaken, Typed, TypeOK, sync_vars, map_vars
<1>6. QED
  BY <1>2, <1>3, <1>4, <1>5
  DEF TaskNext, RequestFails, Authenticate, Register, Unregister, UnregisterIndex

\* Every step keeps SyncInv.
LEMMA NextSync ==
  ASSUME KickInv, SyncInv, [Next]_vars
  PROVE  SyncInv'
<1> USE DEF KickInv
<1>1. ASSUME NEW t \in Tasks, TaskNext(t) PROVE SyncInv'
  BY <1>1, TaskSync
<1>2. ASSUME NEW new \in [Users -> 0 .. MaxUuid], SyncUsers(new) PROVE SyncInv'
  <2>1. visiting = {} /\ to_kick = {}
    BY <1>2 DEF SyncUsers, Snapshot
  <2>2. \A t \in Tasks : pc[t] \in HasId \cup {"authenticated"} /\ Outdated(t)' =>
          Outdated(t) \/ user[t] \in to_kick'
    BY <1>2, MaxUuidAssumption
    DEF SyncUsers, DiffIds, SyncInv, Outdated, Typed, TypeOK, Located, Uuids, task_vars
  <2>3. QED
    BY <1>2, <2>1, <2>2
    DEF SyncUsers, SyncInv, OutdatedAreKickedOrOvertaken, Outdated, task_vars, map_vars
<1>3. ASSUME NEW u \in Users, KickLookup(u) PROVE SyncInv'
  <2>1. visiting = {}
    BY <1>3 DEF KickLookup, Snapshot
  <2>2. \A t \in Tasks : user[t] = u /\ pc[t] \in {"authenticated", "registering"} => t \in overtaken'
    BY <1>3 DEF KickLookup, InRegisterWindow
  <2>3. \A t \in Tasks : user[t] = u /\ pc[t] \in {"dialing", "relaying"} => conn_id[t] \in visiting'
    BY <1>3 DEF KickLookup, MapsExact, IndexExact
  <2>4. \A t \in Tasks : t \in overtaken => t \in overtaken'
    BY <1>3 DEF KickLookup
  <2>5. QED
    BY <1>3, <2>1, <2>2, <2>3, <2>4
    DEF KickLookup, SyncInv, OutdatedAreKickedOrOvertaken, Outdated, task_vars, map_vars
<1>4. ASSUME NEW id \in visiting, KickVisit(id) PROVE SyncInv'
  <2>1. \A t \in Tasks : pc[t] \in {"dialing", "relaying"} /\ conn_id[t] \in visiting \cup cancelled
          => conn_id[t] \in visiting' \cup cancelled'
    BY <1>4 DEF KickVisit, MapsExact, ConnectionsExact
  <2>2. QED
    BY <1>4, <2>1 DEF KickVisit, SyncInv, OutdatedAreKickedOrOvertaken, Outdated, task_vars
<1>5. CASE KickReturn \/ WalkNext \/ UNCHANGED vars
  BY <1>5
  DEF KickReturn, WalkNext, CancelAllStart, CancelShard, CancelAllReturn, vars, task_vars, sync_vars,
      map_vars, SyncInv, OutdatedAreKickedOrOvertaken, Outdated
<1>6. QED
  BY <1>1, <1>2, <1>3, <1>4, <1>5 DEF Next, KickNext, SyncNext

\* A connection of a removed or re-keyed user is about to be kicked or kicked,
\* or the kick overtook it before register() had reached the index
\* (handler.rs:138-156, main.rs:189-194).
THEOREM OutdatedAreKicked == Spec => []OutdatedAreKickedOrOvertaken
<1>1. Init => SyncInv
  BY DEF Init, SyncInv, OutdatedAreKickedOrOvertaken
<1>2. KickInv /\ SyncInv /\ [Next]_vars => SyncInv'
  BY NextSync
<1>3. SyncInv => OutdatedAreKickedOrOvertaken
  BY DEF SyncInv
<1>4. QED
  BY <1>1, <1>2, <1>3, KickInvariant, PTL DEF Spec

-----------------------------------------------------------------------------
(* cancel_all.  An id that was there at the start and still is has been    *)
(* cancelled, or its shard is still ahead of the walk.                     *)

WalkInv ==
  /\ walk # "running" =>
       \A id \in at_walk : id \in DOMAIN connections /\ (id \in cancelled \/ ShardOf(id) \in shards_left)
  /\ walk = "running" => at_walk = {}
  /\ walk = "walked" => shards_left = {}

\* Every step keeps WalkInv.
LEMMA NextWalk ==
  ASSUME Typed, MapsExact, WalkInv, [Next]_vars
  PROVE  WalkInv'
<1>1. ASSUME NEW t \in Tasks, TaskNext(t) PROVE WalkInv'
  <2>1. UNCHANGED <<walk, shards_left>>
    BY <1>1 DEF TaskNext, RequestFails, Authenticate, Register, RegisterConn, RegisterIndex,
       Dialed, ServingEnds, ObserveCancel, Unregister, UnregisterConn, UnregisterIndex, walk_vars
  <2>2. CASE Return(t) /\ pc[t] \in {"reading", "unregistering"} /\ UNCHANGED <<connections, at_walk>>
    <3>1. conn_id[t] \notin DOMAIN connections
      BY <2>2 DEF Typed, TypeOK, Located, MapsExact, UniqueIds, ConnectionsExact
    <3>2. QED
      BY <2>1, <2>2, <3>1 DEF WalkInv, Return
  <2>3. CASE UnregisterConn(t)
    BY <2>1, <2>3 DEF UnregisterConn, Without, WalkInv
  <2>4. CASE RegisterConn(t)
    BY <2>1, <2>4 DEF RegisterConn, With, WalkInv, walk_vars
  <2>5. CASE UNCHANGED <<connections, cancelled, at_walk>>
    BY <2>1, <2>5 DEF WalkInv
  <2>6. QED
    BY <1>1, <2>2, <2>3, <2>4, <2>5
    DEF TaskNext, RequestFails, Authenticate, Register, RegisterIndex, Dialed, ServingEnds,
        ObserveCancel, Unregister, UnregisterIndex, walk_vars, map_vars, maps
<1>2. CASE KickNext \/ SyncNext
  BY <1>2 DEF KickNext, KickReturn, KickLookup, KickVisit, SyncNext, SyncUsers, WalkInv,
     walk_vars,
              map_vars, maps
<1>3. CASE CancelAllStart
  BY <1>3, NumShardsAssumption
  DEF CancelAllStart, WalkInv, ShardIds, ShardOf, map_vars, maps, Typed, TypeOK
<1>4. ASSUME NEW s \in ShardIds, CancelShard(s) PROVE WalkInv'
  BY <1>4 DEF CancelShard, WalkInv
<1>5. CASE CancelAllReturn
  BY <1>5 DEF CancelAllReturn, WalkDone, WalkInv, map_vars, maps
<1>6. CASE UNCHANGED vars
  BY <1>6 DEF vars, walk_vars, map_vars, maps, WalkInv
<1>7. QED
  BY <1>1, <1>2, <1>3, <1>4, <1>5, <1>6 DEF Next, WalkNext

\* When cancel_all returns, every connection that was registered at its start
\* and still is has been cancelled (connection.rs:110-117).
THEOREM CancelAllIsComplete == Spec => []CancelAllCovers
<1>1. Init => WalkInv
  BY DEF Init, WalkInv
<1>2. KickInv /\ WalkInv /\ [Next]_vars => WalkInv'
  BY NextWalk DEF KickInv
<1>3. WalkInv => CancelAllCovers
  BY DEF WalkInv, CancelAllCovers
<1>4. QED
  BY <1>1, <1>2, <1>3, KickInvariant, PTL DEF Spec

-----------------------------------------------------------------------------
(* The inductive invariants.                                               *)

Open == phase # "closed"

\* A connection whose counter reaches its limit is closed by the same step.
BelowLimits == Open => idle_ticks <= GoAwayAt /\ missed_pings < MaxMissed

\* The Boolean part of the type and the rest, which the provers treat apart.
Flags ==
  /\ conn_cancel \in BOOLEAN /\ lost \in BOOLEAN
  /\ activity \in BOOLEAN /\ waiting_pong \in BOOLEAN /\ pong \in BOOLEAN
Values ==
  /\ phase \in {"accepted", "tls", "h2", "running", "closed"}
  /\ free \in 0 .. MaxConnections /\ others \in 0 .. MaxConnections
  /\ stream \in [Streams -> {"none", "spawned", "serving"}]
  /\ active_streams \in Nat
  /\ idle_ticks \in 0 .. GoAwayAt + 1 /\ idle_left \in 0 .. IdleHalf /\ since \in Nat
  /\ missed_pings \in 0 .. MaxMissed /\ silent \in Nat
  /\ cause \in {"none", "handshake", "peer", "pong_error", "heartbeat_timeout", "idle"}

AccountInv == Flags /\ Values /\ PermitsExact /\ StreamsCounted /\ BelowLimits

\* A missed ping belongs to a PING that is outstanding, and every one of them
\* was a silent beat, unless data has been read since.
MissedWereSilent ==
  /\ DeadMeansSilent
  /\ Open => /\ cause = "none"
             /\ ~waiting_pong => missed_pings = 0
             /\ ~activity => missed_pings <= silent

\* On a live connection a PING goes out with the first silent beat; every later
\* one is counted as missed.
SilentWereMissed ==
  Open /\ ~lost => /\ activity \/ ~waiting_pong => silent = 0
                   /\ silent <= missed_pings + 1

HeartbeatInv == MissedWereSilent /\ SilentWereMissed

\* Ticks and time agree: with the k-th tick behind it, a connection has been
\* without streams for k - 1 to k half timeouts, and the part of the current one
\* that is spent.
Spent == IdleHalf - idle_left
IdleClock ==
  /\ Alive # {} => since = 0 /\ idle_ticks = 0
  /\ idle_ticks = 0 => since <= Spent
  /\ idle_ticks = 1 => since \in Spent .. IdleHalf + Spent
  /\ idle_ticks = 2 => since \in IdleHalf + Spent .. 2 * IdleHalf + Spent
  /\ idle_ticks = 3 => since \in 2 * IdleHalf + Spent .. 3 * IdleHalf + Spent

IdleInv == Open => IdleClock

-----------------------------------------------------------------------------
(* The sets of stream tasks.                                               *)

\* There are finitely many stream tasks, and none exactly when the count is zero.
LEMMA StreamSets ==
  ASSUME Values
  PROVE  /\ IsFiniteSet(Alive) /\ Cardinality(Alive) \in Nat
         /\ IsFiniteSet(Serving) /\ Cardinality(Serving) \in Nat
         /\ Alive # {} => Cardinality(Alive) > 0
         /\ Alive = {} => Cardinality(Alive) = 0
         /\ Serving # {} => Cardinality(Serving) > 0
<1>1. IsFiniteSet(Streams)
  BY LimitsAssumption
<1>2. Alive \subseteq Streams /\ Serving \subseteq Streams
  BY DEF Alive, Serving
<1>3. IsFiniteSet(Alive) /\ IsFiniteSet(Serving)
  BY <1>1, <1>2, FS_Subset
<1>4. Cardinality(Alive) \in Nat /\ Cardinality(Serving) \in Nat
  BY <1>3, FS_CardinalityType
<1>5. /\ Cardinality(Alive) = 0 <=> Alive = {}
      /\ Cardinality(Serving) = 0 <=> Serving = {}
  BY <1>3, FS_EmptySet
<1>6. QED
  BY <1>3, <1>4, <1>5

\* A spawned task joins the living ones (connection.rs:214).
LEMMA AcceptedSets ==
  ASSUME Values, NEW s \in Streams, AcceptStream(s)
  PROVE  /\ Cardinality(Alive') = Cardinality(Alive) + 1
         /\ Serving' = Serving
         /\ Alive' # {}
<1>1. stream[s] = "none" /\ stream' = [stream EXCEPT ![s] = "spawned"]
  BY DEF AcceptStream
<1>2. Alive' = Alive \cup {s} /\ s \notin Alive
  BY <1>1 DEF Values, Alive
<1>3. Serving' = Serving
  BY <1>1 DEF Values, Serving
<1>4. QED
  BY <1>2, <1>3, StreamSets, FS_AddElement

\* A task that gets a permit is one more that serves (server_runner.rs:304-323).
LEMMA StartedSets ==
  ASSUME Values, NEW s \in Streams, stream[s] = "spawned",
         stream' = [stream EXCEPT ![s] = "serving"]
  PROVE  Alive' = Alive /\ Cardinality(Serving') = Cardinality(Serving) + 1
<1>1. Alive' = Alive
  BY DEF Values, Alive
<1>2. Serving' = Serving \cup {s} /\ s \notin Serving
  BY DEF Values, Serving
<1>3. QED
  BY <1>1, <1>2, StreamSets, FS_AddElement

\* A task that ends leaves both sets it was in.
LEMMA EndedSets ==
  ASSUME Values, NEW s \in Streams, stream[s] # "none",
         stream' = [stream EXCEPT ![s] = "none"]
  PROVE  /\ Cardinality(Alive') = Cardinality(Alive) - 1
         /\ Alive # {} /\ Cardinality(Alive) > 0
         /\ stream[s] = "serving" => /\ Cardinality(Serving') = Cardinality(Serving) - 1
                                    /\ Cardinality(Serving) > 0
         /\ stream[s] # "serving" => Serving' = Serving
<1>1. Alive' = Alive \ {s} /\ s \in Alive
  BY DEF Values, Alive
<1>2. Serving' = Serving \ {s}
  BY DEF Values, Serving
<1>3. s \in Serving <=> stream[s] = "serving"
  BY DEF Serving
<1>4. Cardinality(Alive') = Cardinality(Alive) - 1
  BY <1>1, StreamSets, FS_RemoveElement
<1>5. ASSUME s \in Serving PROVE Cardinality(Serving') = Cardinality(Serving) - 1
  BY <1>2, <1>5, StreamSets, FS_RemoveElement
<1>6. QED
  BY <1>1, <1>2, <1>3, <1>4, <1>5, StreamSets

\* The other steps leave the stream tasks alone.
LEMMA SameSets ==
  ASSUME UNCHANGED stream
  PROVE  Alive' = Alive /\ Serving' = Serving
  BY DEF Alive, Serving

-----------------------------------------------------------------------------
(* Permits and stream counts.                                              *)

\* Every permit is free at the start, or held by another connection.
LEMMA InitAccounts == GrpcInit => AccountInv
<1> SUFFICES ASSUME GrpcInit PROVE AccountInv
  OBVIOUS
<1>1. Flags
  BY Zenon DEF GrpcInit, Flags
<1>2. Values
  BY LimitsAssumption DEF GrpcInit, Values, GoAwayAt
<1>3. Alive = {} /\ Serving = {}
  BY DEF GrpcInit, Alive, Serving
<1>4. Cardinality(Alive) = 0 /\ Cardinality(Serving) = 0
  BY <1>3, FS_EmptySet
<1>5. PermitsExact /\ StreamsCounted
  BY <1>4, LimitsAssumption DEF GrpcInit, PermitsExact, StreamsCounted, HoldsPermit
<1>6. BelowLimits
  BY LimitsAssumption DEF GrpcInit, BelowLimits, Open, GoAwayAt
<1>7. QED
  BY <1>1, <1>2, <1>5, <1>6 DEF AccountInv

\* The connection's own steps: a permit is taken before TLS and dropped with the
\* task, whichever of the six ways it ends (server_runner.rs:159-178).
LEMMA ConnectionAccounts ==
  ASSUME AccountInv,
         \/ AcquirePermit \/ HandshakeOk \/ HandshakeFails \/ OthersAcquire \/ OthersRelease \/ RejectRequest
         \/ PeerGone \/ AcceptEnds \/ PongArrives \/ PollPong \/ PongError
         \/ BeatPing \/ BeatExcused \/ BeatMissed \/ IdleTick \/ Time
         \/ \E s \in Streams : ReadData(s)
  PROVE  (Values /\ PermitsExact /\ StreamsCounted /\ BelowLimits)'
<1> DEFINE serving == Cardinality(Serving)
           living  == Cardinality(Alive)
<1>1. /\ serving \in Nat /\ living \in Nat
      /\ Values /\ BelowLimits /\ active_streams = living
      /\ free + others + serving + (IF HoldsPermit THEN 1 ELSE 0) = MaxConnections
  BY StreamSets DEF AccountInv, PermitsExact, StreamsCounted
<1>2. UNCHANGED <<stream, active_streams>>
  BY DEF AcquirePermit, HandshakeOk, HandshakeFails, OthersAcquire, OthersRelease,
     RejectRequest, PeerGone, AcceptEnds, PongArrives, PollPong, PongError, BeatPing,
     BeatExcused, BeatMissed, IdleTick, Time, ReadData
<1>3. serving' = serving /\ living' = living
  BY <1>2, SameSets
<1>4. SUFFICES Values' /\ BelowLimits'
               /\ free' + others' + serving + (IF HoldsPermit' THEN 1 ELSE 0) = MaxConnections
  BY <1>1, <1>2, <1>3 DEF PermitsExact, StreamsCounted
<1> HIDE DEF serving, living
<1> USE <1>1, LimitsAssumption DEF Values, BelowLimits, Open, HoldsPermit, GoAwayAt, hb_vars, idle_vars
<1>5. CASE AcquirePermit
  BY <1>5 DEF AcquirePermit
<1>6. CASE HandshakeOk
  BY <1>6 DEF HandshakeOk
<1>7. CASE HandshakeFails
  BY <1>7 DEF HandshakeFails, Close, CancelStreams
<1>8. CASE OthersAcquire
  BY <1>8 DEF OthersAcquire
<1>9. CASE OthersRelease
  BY <1>9 DEF OthersRelease
<1>10. CASE RejectRequest
  BY <1>10 DEF RejectRequest, OnActivity
<1>11. CASE PeerGone
  BY <1>11 DEF PeerGone
<1>12. CASE AcceptEnds
  BY <1>12 DEF AcceptEnds, Close, CancelStreams
<1>13. CASE PongArrives
  BY <1>13 DEF PongArrives
<1>14. CASE PollPong
  BY <1>14 DEF PollPong, OnActivity
<1>15. CASE PongError
  BY <1>15 DEF PongError, Close, CancelStreams
<1>16. CASE BeatPing
  BY <1>16 DEF BeatPing, Heard, DiscardsStale
<1>17. CASE BeatExcused
  BY <1>17 DEF BeatExcused, Heard, Excused
<1>18. CASE BeatMissed
  BY <1>18 DEF BeatMissed, Heard, Excused, Close, CancelStreams
<1>19. CASE IdleTick
  BY <1>19 DEF IdleTick, NoStreams, GoAwayAt, Close, CancelStreams
<1>20. CASE Time
  BY <1>20 DEF Time
<1>21. CASE \E s \in Streams : ReadData(s)
  BY <1>21 DEF ReadData
<1>22. QED
  BY <1>5, <1>6, <1>7, <1>8, <1>9, <1>10, <1>11, <1>12, <1>13, <1>14, <1>15, <1>16, <1>17,
     <1>18, <1>19, <1>20, <1>21

\* The flags stay Boolean.
LEMMA NextFlags ==
  ASSUME Flags, [GrpcNext]_grpc_vars
  PROVE  Flags'
<1> USE DEF Flags, hb_vars
<1>1. CASE AcquirePermit
  BY Zenon, <1>1 DEF AcquirePermit
<1>2. CASE HandshakeOk
  BY Zenon, <1>2 DEF HandshakeOk
<1>3. CASE HandshakeFails
  BY Zenon, <1>3 DEF HandshakeFails, Close, CancelStreams
<1>4. CASE OthersAcquire
  BY Zenon, <1>4 DEF OthersAcquire
<1>5. CASE OthersRelease
  BY Zenon, <1>5 DEF OthersRelease
<1>6. CASE RejectRequest
  BY Zenon, <1>6 DEF RejectRequest, OnActivity
<1>7. CASE PeerGone
  BY Zenon, <1>7 DEF PeerGone
<1>8. CASE AcceptEnds
  BY Zenon, <1>8 DEF AcceptEnds, Close, CancelStreams
<1>9. CASE PongArrives
  BY Zenon, <1>9 DEF PongArrives
<1>10. CASE PollPong
  BY Zenon, <1>10 DEF PollPong, OnActivity
<1>11. CASE PongError
  BY Zenon, <1>11 DEF PongError, Close, CancelStreams
<1>12. CASE BeatPing
  BY Zenon, <1>12 DEF BeatPing, Heard, DiscardsStale
<1>13. CASE BeatExcused
  BY Zenon, <1>13 DEF BeatExcused, Heard, Excused
<1>14. CASE BeatMissed
  BY Zenon, <1>14 DEF BeatMissed, Heard, Excused, Close, CancelStreams
<1>15. CASE IdleTick
  BY Zenon, <1>15 DEF IdleTick, NoStreams, GoAwayAt, Close, CancelStreams
<1>16. CASE Time
  BY Zenon, <1>16 DEF Time
<1>17. ASSUME NEW s \in Streams, AcceptStream(s) PROVE Flags'
  BY Zenon, <1>17 DEF AcceptStream, OnActivity
<1>18. ASSUME NEW s \in Streams, StartStream(s) PROVE Flags'
  BY Zenon, <1>18 DEF StartStream, EndStream, CountedEnd, Released
<1>19. ASSUME NEW s \in Streams, ReadData(s) PROVE Flags'
  BY Zenon, <1>19 DEF ReadData
<1>20. ASSUME NEW s \in Streams, FinishStream(s) PROVE Flags'
  BY Zenon, <1>20 DEF FinishStream, EndStream, CountedEnd, Released
<1>21. ASSUME NEW s \in Streams, CancelStream(s) PROVE Flags'
  BY Zenon, <1>21 DEF CancelStream, EndStream, CountedEnd, Released
<1>22. CASE UNCHANGED grpc_vars
  BY Zenon, <1>22 DEF grpc_vars
<1>23. QED
  BY <1>1, <1>2, <1>3, <1>4, <1>5, <1>6, <1>7, <1>8, <1>9, <1>10, <1>11, <1>12, <1>13, <1>14,
     <1>15, <1>16, <1>17, <1>18, <1>19, <1>20, <1>21, <1>22 DEF GrpcNext, Handshake, Others, Peer,
     Heartbeat, StreamTask

\* The stream tasks: a permit per serving task, taken after the task is counted,
\* both given back by whichever way it ends (server_runner.rs:304-323,
\* connection.rs:214-227).
LEMMA StreamAccounts ==
  ASSUME AccountInv, NEW s \in Streams,
         AcceptStream(s) \/ StartStream(s) \/ FinishStream(s) \/ CancelStream(s)
  PROVE  (Values /\ PermitsExact /\ StreamsCounted /\ BelowLimits)'
<1> DEFINE serving == Cardinality(Serving)
           living  == Cardinality(Alive)
<1>1. /\ serving \in Nat /\ living \in Nat
      /\ Values /\ BelowLimits /\ active_streams = living
      /\ free + others + serving + (IF HoldsPermit THEN 1 ELSE 0) = MaxConnections
  BY StreamSets DEF AccountInv, PermitsExact, StreamsCounted
<1>2. /\ UNCHANGED <<phase, others, idle_left, cause>>
      /\ idle_ticks' \in {0, idle_ticks} /\ missed_pings' \in {0, missed_pings}
      /\ silent' \in {0, silent} /\ since' \in {0, since}
  BY DEF AcceptStream, OnActivity, StartStream, FinishStream, CancelStream, EndStream, hb_vars
<1>3. CASE AcceptStream(s)
  <2>1. living' = living + 1 /\ serving' = serving
    BY <1>1, <1>3, AcceptedSets
  <2>2. active_streams' = active_streams + 1 /\ free' = free
        /\ stream' = [stream EXCEPT ![s] = "spawned"]
    BY <1>3 DEF AcceptStream
  <2> HIDE DEF living, serving
  <2>3. QED
    BY <1>1, <1>2, <2>1, <2>2, LimitsAssumption
       DEF Values, BelowLimits, Open, HoldsPermit, PermitsExact, StreamsCounted, GoAwayAt, living, serving
<1>4. CASE StartStream(s) /\ free > 0
  <2>1. living' = living /\ serving' = serving + 1
    BY <1>1, <1>4, StartedSets DEF StartStream
  <2>2. QED
    BY <1>1, <1>2, <1>4, <2>1, LimitsAssumption
       DEF StartStream, Values, BelowLimits, Open, HoldsPermit, PermitsExact, StreamsCounted, GoAwayAt
<1>5. CASE EndStream(s) /\ stream[s] # "none"
  <2>1. living' = living - 1 /\ living > 0
    BY <1>1, <1>5, EndedSets DEF EndStream
  <2>2. /\ active_streams' = active_streams - 1
        /\ stream' = [stream EXCEPT ![s] = "none"]
    BY <1>5 DEF EndStream, CountedEnd
  <2>3. free' + serving' = free + serving /\ free' \in {free, free + 1} /\ serving' \in Nat
    <3>1. CASE stream[s] = "serving"
      <4>1. serving' = serving - 1 /\ serving > 0
        BY <1>1, <1>5, <3>1, EndedSets DEF EndStream
      <4>2. free' = free + 1 /\ free \in Nat
        BY <1>1, <1>5, <3>1, LimitsAssumption DEF EndStream, Released, Values
      <4>3. QED
        BY <1>1, <4>1, <4>2
    <3>2. CASE stream[s] # "serving"
      BY <1>1, <1>5, <3>2, EndedSets DEF EndStream, Released, Values
    <3>3. QED
      BY <3>1, <3>2
  <2> HIDE DEF living, serving
  <2>4. QED
    BY <1>1, <1>2, <2>1, <2>2, <2>3, LimitsAssumption
       DEF Values, BelowLimits, Open, HoldsPermit, PermitsExact, StreamsCounted, GoAwayAt, living, serving
<1>6. QED
  BY <1>1, <1>3, <1>4, <1>5 DEF Values, StartStream, FinishStream, CancelStream

\* The accounts survive every step.
LEMMA NextAccounts ==
  ASSUME AccountInv, [GrpcNext]_grpc_vars
  PROVE  AccountInv'
<1>1. Flags'
  BY NextFlags DEF AccountInv
<1>2. CASE UNCHANGED grpc_vars
  BY <1>1, <1>2 DEF grpc_vars, idle_vars, hb_vars, AccountInv, Values, PermitsExact,
     StreamsCounted,
     BelowLimits, Open,
     HoldsPermit, Serving, Alive
<1>3. CASE GrpcNext
  BY <1>1, <1>3, ConnectionAccounts, StreamAccounts
     DEF AccountInv, GrpcNext, Handshake, Others, Peer, Heartbeat, StreamTask
<1>4. QED
  BY <1>2, <1>3

\* The accounts hold throughout.
LEMMA AccountInvHolds == GrpcSpec => []AccountInv
  BY InitAccounts, NextAccounts, PTL DEF GrpcSpec

-----------------------------------------------------------------------------
(* The heartbeat.                                                          *)

\* Nothing is missed and nobody has been silent at the start.
LEMMA InitHeartbeat == GrpcInit => HeartbeatInv
  BY LimitsAssumption
     DEF GrpcInit, HeartbeatInv, MissedWereSilent, SilentWereMissed, DeadMeansSilent, Open

\* missed_pings never counts a beat in which the peer was heard of
\* (heartbeat.rs:63-98).
LEMMA NextMissedWereSilent ==
  ASSUME Flags, Values, BelowLimits, MissedWereSilent, [GrpcNext]_grpc_vars
  PROVE  MissedWereSilent'
<1> USE LimitsAssumption DEF Flags, Values, BelowLimits, Open, hb_vars, MissedWereSilent, DeadMeansSilent
<1>1. CASE AcquirePermit
  BY <1>1 DEF AcquirePermit
<1>2. CASE HandshakeOk
  BY <1>2 DEF HandshakeOk
<1>3. CASE HandshakeFails
  BY <1>3 DEF HandshakeFails, Close, CancelStreams
<1>4. CASE OthersAcquire
  BY <1>4 DEF OthersAcquire
<1>5. CASE OthersRelease
  BY <1>5 DEF OthersRelease
<1>6. CASE RejectRequest
  BY <1>6 DEF RejectRequest, OnActivity
<1>7. CASE PeerGone
  BY <1>7 DEF PeerGone
<1>8. CASE AcceptEnds
  BY <1>8 DEF AcceptEnds, Close, CancelStreams
<1>9. CASE PongArrives
  BY <1>9 DEF PongArrives
<1>10. CASE PollPong
  BY <1>10 DEF PollPong, OnActivity
<1>11. CASE PongError
  BY <1>11 DEF PongError, Close, CancelStreams
<1>12. CASE BeatPing
  BY <1>12 DEF BeatPing, Heard, DiscardsStale
<1>13. CASE BeatExcused
  BY <1>13 DEF BeatExcused, Heard, Excused
<1>14. CASE BeatMissed
  BY <1>14 DEF BeatMissed, Heard, Excused, Close, CancelStreams
<1>15. CASE IdleTick
  BY <1>15 DEF IdleTick, NoStreams, GoAwayAt, Close, CancelStreams
<1>16. CASE Time
  BY <1>16 DEF Time
<1>17. ASSUME NEW s \in Streams, AcceptStream(s) PROVE MissedWereSilent'
  BY <1>17 DEF AcceptStream, OnActivity
<1>18. ASSUME NEW s \in Streams, StartStream(s) PROVE MissedWereSilent'
  BY <1>18 DEF StartStream, EndStream, CountedEnd, Released
<1>19. ASSUME NEW s \in Streams, ReadData(s) PROVE MissedWereSilent'
  BY <1>19 DEF ReadData
<1>20. ASSUME NEW s \in Streams, FinishStream(s) PROVE MissedWereSilent'
  BY <1>20 DEF FinishStream, EndStream, CountedEnd, Released
<1>21. ASSUME NEW s \in Streams, CancelStream(s) PROVE MissedWereSilent'
  BY <1>21 DEF CancelStream, EndStream, CountedEnd, Released
<1>22. CASE UNCHANGED grpc_vars
  BY <1>22 DEF grpc_vars
<1>23. QED
  BY <1>1, <1>2, <1>3, <1>4, <1>5, <1>6, <1>7, <1>8, <1>9, <1>10, <1>11, <1>12, <1>13, <1>14,
     <1>15, <1>16, <1>17, <1>18, <1>19, <1>20, <1>21, <1>22 DEF GrpcNext, Handshake, Others, Peer,
     Heartbeat, StreamTask

\* A beat without a sign of the peer never goes uncounted for long
\* (heartbeat.rs:100-114).
LEMMA NextSilentWereMissed ==
  ASSUME Flags, Values, BelowLimits, SilentWereMissed, [GrpcNext]_grpc_vars
  PROVE  SilentWereMissed'
<1> USE LimitsAssumption DEF Flags, Values, BelowLimits, Open, hb_vars, SilentWereMissed
<1>1. CASE AcquirePermit
  BY <1>1 DEF AcquirePermit
<1>2. CASE HandshakeOk
  BY <1>2 DEF HandshakeOk
<1>3. CASE HandshakeFails
  BY <1>3 DEF HandshakeFails, Close, CancelStreams
<1>4. CASE OthersAcquire
  BY <1>4 DEF OthersAcquire
<1>5. CASE OthersRelease
  BY <1>5 DEF OthersRelease
<1>6. CASE RejectRequest
  BY <1>6 DEF RejectRequest, OnActivity
<1>7. CASE PeerGone
  BY <1>7 DEF PeerGone
<1>8. CASE AcceptEnds
  BY <1>8 DEF AcceptEnds, Close, CancelStreams
<1>9. CASE PongArrives
  BY <1>9 DEF PongArrives
<1>10. CASE PollPong
  BY <1>10 DEF PollPong, OnActivity
<1>11. CASE PongError
  BY <1>11 DEF PongError, Close, CancelStreams
<1>12. CASE BeatPing
  <2>1. CASE lost
    BY <1>12, <2>1 DEF BeatPing
  <2>2. CASE ~lost
    <3>1. activity' = FALSE /\ waiting_pong' = TRUE
      BY <1>12, <2>2, Zenon DEF BeatPing, DiscardsStale
    <3>2. Open => silent = 0
      BY <1>12, <2>2 DEF BeatPing
    <3>3. Open => silent' = 1 /\ missed_pings' = missed_pings
      BY <1>12, <3>2 DEF BeatPing, Heard
    <3>4. Open' => Open
      BY <1>12 DEF BeatPing
    <3>5. QED
      BY <3>1, <3>3, <3>4
  <2>3. QED
    BY <2>1, <2>2
<1>13. CASE BeatExcused
  BY <1>13 DEF BeatExcused, Heard, Excused
<1>14. CASE BeatMissed
  BY <1>14 DEF BeatMissed, Heard, Excused, Close, CancelStreams
<1>15. CASE IdleTick
  BY <1>15 DEF IdleTick, NoStreams, GoAwayAt, Close, CancelStreams
<1>16. CASE Time
  BY <1>16 DEF Time
<1>17. ASSUME NEW s \in Streams, AcceptStream(s) PROVE SilentWereMissed'
  BY <1>17 DEF AcceptStream, OnActivity
<1>18. ASSUME NEW s \in Streams, StartStream(s) PROVE SilentWereMissed'
  BY <1>18 DEF StartStream, EndStream, CountedEnd, Released
<1>19. ASSUME NEW s \in Streams, ReadData(s) PROVE SilentWereMissed'
  BY <1>19 DEF ReadData
<1>20. ASSUME NEW s \in Streams, FinishStream(s) PROVE SilentWereMissed'
  BY <1>20 DEF FinishStream, EndStream, CountedEnd, Released
<1>21. ASSUME NEW s \in Streams, CancelStream(s) PROVE SilentWereMissed'
  BY <1>21 DEF CancelStream, EndStream, CountedEnd, Released
<1>22. CASE UNCHANGED grpc_vars
  BY <1>22 DEF grpc_vars
<1>23. QED
  BY <1>1, <1>2, <1>3, <1>4, <1>5, <1>6, <1>7, <1>8, <1>9, <1>10, <1>11, <1>12, <1>13, <1>14,
     <1>15, <1>16, <1>17, <1>18, <1>19, <1>20, <1>21, <1>22 DEF GrpcNext, Handshake, Others, Peer,
     Heartbeat, StreamTask

\* The heartbeat's invariant holds throughout.
LEMMA HeartbeatInvHolds == GrpcSpec => []HeartbeatInv
<1>1. AccountInv /\ HeartbeatInv /\ [GrpcNext]_grpc_vars => HeartbeatInv'
  BY NextMissedWereSilent, NextSilentWereMissed DEF AccountInv, HeartbeatInv
<1>2. QED
  BY <1>1, InitHeartbeat, AccountInvHolds, PTL DEF GrpcSpec

-----------------------------------------------------------------------------
(* The idle window.                                                        *)

\* The idle timer starts with the connection.
LEMMA InitIdle == GrpcInit => IdleInv
<1> SUFFICES ASSUME GrpcInit PROVE IdleInv
  OBVIOUS
<1>1. Alive = {}
  BY DEF GrpcInit, Alive
<1>2. QED
  BY <1>1, LimitsAssumption DEF GrpcInit, IdleInv, IdleClock, Spent, Open

\* active_streams, which the idle tick reads, says whether a stream task lives.
LEMMA NoStreamsIsIdle ==
  ASSUME AccountInv
  PROVE  NoStreams <=> Alive = {}
  BY StreamSets DEF AccountInv, StreamsCounted, NoStreams

\* Every tick of the idle timer is half a timeout after the one before, and a stream
\* resets both the count and the clock (connection.rs:152-154, 246-265).
LEMMA NextIdle ==
  ASSUME AccountInv, IdleInv, [GrpcNext]_grpc_vars
  PROVE  IdleInv'
<1> USE LimitsAssumption DEF AccountInv, Values, BelowLimits, IdleInv, IdleClock, Spent, Open, GoAwayAt, idle_vars
<1>1. CASE AcquirePermit
  BY <1>1, SameSets DEF AcquirePermit
<1>2. CASE HandshakeOk
  BY <1>2, SameSets DEF HandshakeOk
<1>3. CASE HandshakeFails
  BY <1>3, SameSets DEF HandshakeFails, Close
<1>4. CASE OthersAcquire
  BY <1>4, SameSets DEF OthersAcquire
<1>5. CASE OthersRelease
  BY <1>5, SameSets DEF OthersRelease
<1>6. CASE RejectRequest
  BY <1>6, SameSets DEF RejectRequest
<1>7. CASE PeerGone
  BY <1>7, SameSets DEF PeerGone
<1>8. CASE AcceptEnds
  BY <1>8, SameSets DEF AcceptEnds, Close
<1>9. CASE PongArrives
  BY <1>9, SameSets DEF PongArrives
<1>10. CASE PollPong
  BY <1>10, SameSets DEF PollPong
<1>11. CASE PongError
  BY <1>11, SameSets DEF PongError, Close
<1>12. CASE BeatPing
  BY <1>12, SameSets DEF BeatPing
<1>13. CASE BeatExcused
  BY <1>13, SameSets DEF BeatExcused
<1>14. CASE BeatMissed
  BY <1>14, SameSets DEF BeatMissed, Close
<1>15. CASE IdleTick
  <2>1. Alive' = Alive /\ (NoStreams <=> Alive = {})
    BY <1>15, SameSets, NoStreamsIsIdle DEF IdleTick
  <2>2. QED
    BY <1>15, <2>1 DEF IdleTick, GoAwayAt, Close
<1>16. CASE Time
  <2>1. Alive' = Alive /\ ((\A s \in Streams : stream[s] = "none") <=> Alive = {})
    BY <1>16, SameSets DEF Time, Alive
  <2>2. QED
    BY <1>16, <2>1 DEF Time
<1>17. ASSUME NEW s \in Streams, AcceptStream(s) PROVE IdleInv'
  BY <1>17 DEF AcceptStream
<1>18. ASSUME NEW s \in Streams, StartStream(s) PROVE IdleInv'
  <2>1. CASE free > 0
    <3>1. Alive' = Alive
      BY <1>18, <2>1, StartedSets DEF StartStream
    <3>2. QED
      BY <1>18, <2>1, <3>1 DEF StartStream
  <2>2. CASE ~(free > 0)
    <3>1. Alive # {}
      BY <1>18, <2>2, EndedSets DEF StartStream, EndStream
    <3>2. QED
      BY <1>18, <2>2, <3>1 DEF StartStream, EndStream
  <2>3. QED
    BY <2>1, <2>2
<1>19. ASSUME NEW s \in Streams, ReadData(s) PROVE IdleInv'
  BY <1>19, SameSets DEF ReadData
<1>20. ASSUME NEW s \in Streams, FinishStream(s) PROVE IdleInv'
  <2>1. Alive # {}
    BY <1>20, EndedSets DEF FinishStream, EndStream
  <2>2. QED
    BY <1>20, <2>1 DEF FinishStream, EndStream
<1>21. ASSUME NEW s \in Streams, CancelStream(s) PROVE IdleInv'
  <2>1. Alive # {}
    BY <1>21, EndedSets DEF CancelStream, EndStream
  <2>2. QED
    BY <1>21, <2>1 DEF CancelStream, EndStream
<1>22. CASE UNCHANGED grpc_vars
  BY <1>22, SameSets DEF grpc_vars
<1>23. QED
  BY <1>1, <1>2, <1>3, <1>4, <1>5, <1>6, <1>7, <1>8, <1>9, <1>10, <1>11, <1>12, <1>13, <1>14,
     <1>15, <1>16, <1>17, <1>18, <1>19, <1>20, <1>21, <1>22 DEF GrpcNext, Handshake, Others, Peer,
     Heartbeat, StreamTask

\* The idle clock's invariant holds throughout.
LEMMA IdleInvHolds == GrpcSpec => []IdleInv
<1>1. AccountInv /\ IdleInv /\ [GrpcNext]_grpc_vars => IdleInv'
  BY NextIdle
<1>2. QED
  BY <1>1, InitIdle, AccountInvHolds, PTL DEF GrpcSpec

-----------------------------------------------------------------------------
(* The theorems.                                                           *)

\* Connections and streams never hold more than max_connections permits, no
\* permit is lost, and active_streams is the number of stream tasks, for any
\* number of streams and any limit (server_runner.rs:159-178, 304-323).
THEOREM AccountsStayExact == GrpcSpec => []AccountsExact
<1>1. AccountInv => AccountsExact
  BY DEF AccountInv, Flags, Values, AccountsExact, GrpcTypeOK
<1>2. QED
  BY <1>1, AccountInvHolds, PTL

\* Whatever MAX_MISSED_PINGS is, the heartbeat never gives up a peer that was
\* heard of within that many beats (heartbeat.rs:63-98).
THEOREM DeadPeersWereSilent == GrpcSpec => []DeadMeansSilent
<1>1. HeartbeatInv => DeadMeansSilent
  BY DEF HeartbeatInv, MissedWereSilent
<1>2. QED
  BY <1>1, HeartbeatInvHolds, PTL

\* ... and never keeps one that was silent for more (heartbeat.rs:100-114).
THEOREM SilentPeersAreNoticed == GrpcSpec => []SilenceIsNoticed
<1>1. AccountInv /\ HeartbeatInv => SilenceIsNoticed
  <2> SUFFICES ASSUME AccountInv, HeartbeatInv, phase = "running", ~lost PROVE silent <= MaxMissed
    BY DEF SilenceIsNoticed
  <2>1. silent <= missed_pings + 1
    BY DEF HeartbeatInv, SilentWereMissed, Open
  <2>2. missed_pings < MaxMissed
    BY DEF AccountInv, BelowLimits, Open
  <2>3. QED
    BY <2>1, <2>2, LimitsAssumption DEF AccountInv, Values
<1>2. QED
  BY <1>1, AccountInvHolds, HeartbeatInvHolds, PTL

\* For every idle_timeout, GOAWAY goes out between one and one and a half times
\* the timeout after the last stream ended, the close follows within the next
\* half, and neither happens while a stream lives (connection.rs:246-265).
THEOREM IdleWindowHolds == GrpcSpec => IdleWindow
<1> DEFINE GoesAway == idle_ticks' = GoAwayAt /\ idle_ticks # GoAwayAt
           Expires  == cause' = "idle" /\ cause # "idle"
           A == /\ GoesAway => since \in 2 * IdleHalf .. 3 * IdleHalf /\ Alive = {}
                /\ Expires => since \in 3 * IdleHalf .. 4 * IdleHalf /\ Alive = {}
<1>1. ASSUME AccountInv, IdleInv, [GrpcNext]_grpc_vars PROVE [A]_grpc_vars
  <2>1. CASE IdleTick
    <3>1. NoStreams <=> Alive = {}
      BY <1>1, NoStreamsIsIdle
    <3>2. since \in Nat /\ idle_ticks \in 0 .. GoAwayAt
      BY <1>1, <2>1 DEF IdleTick, AccountInv, Values, BelowLimits, Open, GoAwayAt
    <3>3. IdleClock /\ Spent = IdleHalf
      BY <1>1, <2>1, LimitsAssumption DEF IdleTick, IdleInv, Open, Spent
    <3>4. CASE Alive # {}
      BY <2>1, <3>1, <3>4 DEF IdleTick, GoAwayAt
    <3>5. CASE Alive = {}
      <4>1. idle_ticks' = idle_ticks + 1 /\ (cause' # cause => idle_ticks = 3)
        BY <2>1, <3>1, <3>2, <3>5 DEF IdleTick, GoAwayAt
      <4>2. QED
        BY <3>2, <3>3, <3>5, <4>1, LimitsAssumption DEF IdleClock, GoAwayAt
    <3>6. QED
      BY <3>4, <3>5
  <2>2. ASSUME NEW s \in Streams, AcceptStream(s) PROVE A
    BY <2>2 DEF AcceptStream, GoAwayAt
  <2>3. CASE UNCHANGED idle_ticks /\ (UNCHANGED cause \/ cause' # "idle")
    BY <2>3
  <2>4. CASE UNCHANGED grpc_vars
    BY <2>4
  <2>5. QED
    BY <1>1, <2>1, <2>2, <2>3, <2>4
       DEF GrpcNext, Handshake, Others, Peer, Heartbeat, StreamTask, idle_vars, AcquirePermit, HandshakeOk,
           HandshakeFails, OthersAcquire, OthersRelease, RejectRequest, PeerGone, AcceptEnds, PongArrives,
           PollPong, PongError, BeatPing, BeatExcused, BeatMissed, Time, ReadData, StartStream, FinishStream,
           CancelStream, EndStream, Close
<1>2. QED
  BY <1>1, AccountInvHolds, IdleInvHolds, PTL DEF GrpcSpec, IdleWindow
=============================================================================
