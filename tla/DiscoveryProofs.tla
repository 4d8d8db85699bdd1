--------------------------- MODULE DiscoveryProofs ---------------------------
(***************************************************************************)
(* Theorems about Discovery, for every set of nodes and files, every size  *)
(* of a beacon and every number of datagrams, which may be lost, repeated, *)
(* delayed and reordered.                                                  *)
(***************************************************************************)
EXTENDS Discovery, TLAPS

-----------------------------------------------------------------------------
(* What the operations of ResourceDatabase do to one database d.           *)

(* The two directions of the graph agree in one database.                  *)
Consistent(d) ==
    \A h \in Nodes, f \in Files :
        /\ f \in d.possesed[h] => h \in d.possession[f] /\ h \in d.hosts
        /\ h \in d.possession[f] => f \in d.possesed[h] \/ f \in d.invalidated

(* add_file_internal: a database stays one, only h is credited, with fs.   *)
IsLinked(e, d, fs, h) ==
    /\ e \in DatabaseType
    /\ e.hosts = d.hosts \cup {h}
    /\ e.invalidated = d.invalidated
    /\ \A g \in Nodes :
         e.possesed[g] = IF g = h THEN d.possesed[g] \cup fs ELSE d.possesed[g]
    /\ \A f \in Files :
         e.possession[f] = IF f \in fs THEN d.possession[f] \cup {h} ELSE d.possession[f]

(* revoke_resource: the file is taken from the hosts in its list.          *)
IsRevoked(e, d, f) ==
    /\ e \in DatabaseType
    /\ e.hosts = d.hosts
    /\ e.possession = d.possession
    /\ e.invalidated = d.invalidated \cup {f}
    /\ \A g \in Nodes : e.possesed[g] =
         IF g \in d.possession[f] THEN d.possesed[g] \ {f} ELSE d.possesed[g]

(* check_for_gone_hosts: the hosts gone are forgotten, not the local one.  *)
IsWithout(e, d, gone, n) ==
    /\ e \in DatabaseType
    /\ n \notin gone
    /\ e.hosts = d.hosts \ gone
    /\ e.invalidated = d.invalidated
    /\ \A g \in Nodes : e.possesed[g] = IF g \in gone THEN {} ELSE d.possesed[g]
    /\ \A f \in Files :
         e.possession[f] = d.possession[f] \ {g \in gone : f \in d.possesed[g]}

(* What Linked computes.                                                   *)
LEMMA LinkedFields ==
    ASSUME NEW d \in DatabaseType, NEW fs \in SUBSET Files, NEW h \in Nodes
    PROVE  IsLinked(Linked(d, fs, h), d, fs, h)
BY DEF IsLinked, Linked, DatabaseType

(* What Revoked computes.                                                  *)
LEMMA RevokedFields ==
    ASSUME NEW d \in DatabaseType, NEW f \in Files
    PROVE  IsRevoked(Revoked(d, f), d, f)
BY DEF IsRevoked, Revoked, RemoveResource, DatabaseType

(* What WithoutGoneHosts computes.                                         *)
LEMMA WithoutGoneFields ==
    ASSUME NEW d \in DatabaseType, NEW n \in Nodes
    PROVE  IsWithout(WithoutGoneHosts(d, n), d, GoneHosts(d, n), n)
<1>1. GoneHosts(d, n) \subseteq Nodes \ {n}
  BY DEF GoneHosts, DatabaseType
<1>2. QED
  BY <1>1 DEF IsWithout, WithoutGoneHosts, RemoveHosts, DatabaseType

(* The constructor's database, to which main adds XD.                      *)
LEMMA EmptyTyped ==
    ASSUME NEW n \in Nodes
    PROVE  EmptyDatabase(n) \in DatabaseType
BY DEF EmptyDatabase, DatabaseType

-----------------------------------------------------------------------------
(* The inductive invariant.                                                *)

(* What a beacon in the network says, late or not: its sender has listed   *)
(* itself as an owner of the file, and an entry of a node about itself is  *)
(* never taken back.                                                       *)
OwnersInNet ==
    \A m \in net : m.type = "FILE_LIST" =>
        \A f \in m.files : m.src \in db[m.src].possession[f]

DiscoveryInv ==
    /\ TypeOK
    /\ GraphConsistent
    /\ OnlyOwnersCredited
    /\ OwnersInNet

(* How a database may change: it stays one and stays consistent, it        *)
(* forgets nothing about the owners' own entries, and credits a host with  *)
(* a new file only when that host has listed the file itself.              *)
LEMMA ChangeSafe ==
    ASSUME DiscoveryInv, NEW n \in Nodes, NEW d \in DatabaseType,
           db' = [db EXCEPT ![n] = d],
           Consistent(d),
           \A f \in Files : n \in db[n].possession[f] => n \in d.possession[f],
           \A h \in Nodes : \A f \in d.possesed[h] \ db[n].possesed[h] :
               IF h = n THEN n \in d.possession[f] ELSE h \in db[h].possession[f]
    PROVE  /\ db' \in [Nodes -> DatabaseType]
           /\ GraphConsistent'
           /\ OnlyOwnersCredited'
           /\ \A h \in Nodes, f \in Files :
                h \in db[h].possession[f] => h \in db'[h].possession[f]
<1>1. db' \in [Nodes -> DatabaseType] /\ db'[n] = d
  BY DEF DiscoveryInv, TypeOK
<1>2. \A g \in Nodes : g # n => db'[g] = db[g]
  BY DEF DiscoveryInv, TypeOK
<1>3. GraphConsistent'
  BY <1>1, <1>2 DEF DiscoveryInv, GraphConsistent, Consistent
<1>4. \A h \in Nodes, f \in Files :
        h \in db[h].possession[f] => h \in db'[h].possession[f]
  BY <1>1, <1>2
<1>5. ASSUME NEW g \in Nodes, NEW h \in Nodes, NEW f \in db'[g].possesed[h]
      PROVE  h \in db'[h].possession[f]
  <2>1. f \in Files
    BY <1>1 DEF DatabaseType
  <2>2. CASE f \in db[g].possesed[h]
    BY <1>4, <2>1, <2>2 DEF DiscoveryInv, OnlyOwnersCredited
  <2>3. CASE f \notin db[g].possesed[h]
    <3>1. g = n /\ f \in d.possesed[h] \ db[n].possesed[h]
      BY <1>1, <1>2, <2>3
    <3>2. IF h = n THEN n \in d.possession[f] ELSE h \in db[h].possession[f]
      BY <3>1
    <3>3. QED
      BY <1>1, <1>4, <2>1, <3>2
  <2>4. QED
    BY <2>2, <2>3
<1>6. QED
  BY <1>1, <1>3, <1>4, <1>5 DEF OnlyOwnersCredited

(* Every database of the system is one, and consistent.                    *)
LEMMA EachConsistent ==
    ASSUME DiscoveryInv, NEW n \in Nodes
    PROVE  db[n] \in DatabaseType /\ Consistent(db[n])
BY DEF DiscoveryInv, TypeOK, GraphConsistent, Consistent

(* add_file_internal adds both directions of an edge.                      *)
LEMMA LinkedSafe ==
    ASSUME NEW d, Consistent(d), NEW fs, NEW h, NEW e, IsLinked(e, d, fs, h)
    PROVE  Consistent(e)
<1> SUFFICES ASSUME NEW g \in Nodes, NEW f \in Files
             PROVE  /\ f \in e.possesed[g] => g \in e.possession[f] /\ g \in e.hosts
                    /\ g \in e.possession[f] => f \in e.possesed[g] \/ f \in e.invalidated
  BY DEF Consistent
<1>1. /\ f \in d.possesed[g] => g \in d.possession[f] /\ g \in d.hosts
      /\ g \in d.possession[f] => f \in d.possesed[g] \/ f \in d.invalidated
  BY DEF Consistent
<1>2. f \in e.possesed[g] <=> f \in d.possesed[g] \/ (g = h /\ f \in fs)
  BY DEF IsLinked
<1>3. g \in e.possession[f] <=> g \in d.possession[f] \/ (g = h /\ f \in fs)
  BY DEF IsLinked
<1>4. QED
  BY <1>1, <1>2, <1>3 DEF IsLinked

(* add_file: the local host becomes an owner, in its own database.         *)
LEMMA AddFileSafe ==
    ASSUME DiscoveryInv, NEW n \in Nodes, NEW f \in Files, AddFile(n, f)
    PROVE  /\ db' \in [Nodes -> DatabaseType]
           /\ GraphConsistent'
           /\ OnlyOwnersCredited'
           /\ \A h \in Nodes, g \in Files :
                h \in db[h].possession[g] => h \in db'[h].possession[g]
<1>1. PICK d : d = Linked(db[n], {f}, n)
  OBVIOUS
<1>2. db[n] \in DatabaseType /\ Consistent(db[n])
  BY EachConsistent
<1>3. IsLinked(d, db[n], {f}, n)
  BY <1>1, <1>2, LinkedFields
<1>4. Consistent(d)
  BY <1>2, <1>3, LinkedSafe
<1>5. db' = [db EXCEPT ![n] = d]
  BY <1>1 DEF AddFile
<1>6. \A h \in Nodes : \A g \in d.possesed[h] \ db[n].possesed[h] :
        IF h = n THEN n \in d.possession[g] ELSE h \in db[h].possession[g]
  BY <1>3 DEF IsLinked
<1>7. \A g \in Files : n \in db[n].possession[g] => n \in d.possession[g]
  BY <1>3 DEF IsLinked
<1>8. d \in DatabaseType
  BY <1>3 DEF IsLinked
<1>9. QED
  BY <1>4, <1>5, <1>6, <1>7, <1>8, ChangeSafe

(* update_host: the sender of a beacon is credited with what it listed.    *)
LEMMA UpdateHostSafe ==
    ASSUME DiscoveryInv, NEW n \in Nodes, NEW h \in Nodes, h # n,
           NEW fs \in SUBSET Files, UpdateHost(n, h, fs),
           \A f \in fs : h \in db[h].possession[f]
    PROVE  /\ db' \in [Nodes -> DatabaseType]
           /\ GraphConsistent'
           /\ OnlyOwnersCredited'
           /\ \A g \in Nodes, f \in Files :
                g \in db[g].possession[f] => g \in db'[g].possession[f]
<1> DEFINE u == [db[n] EXCEPT !.missed[h] = 0]
<1>1. db[n] \in DatabaseType /\ Consistent(db[n])
  BY EachConsistent
<1>2. /\ u \in DatabaseType /\ u.possesed = db[n].possesed
      /\ u.possession = db[n].possession /\ u.hosts = db[n].hosts
      /\ u.invalidated = db[n].invalidated
  BY <1>1 DEF DatabaseType
<1>3. Consistent(u)
  BY <1>1, <1>2 DEF Consistent
<1>4. PICK d : d = Linked(u, fs \ u.possesed[h], h)
  OBVIOUS
<1>5. db' = [db EXCEPT ![n] = d]
  BY <1>4 DEF UpdateHost
<1> HIDE DEF u
<1>6. fs \ u.possesed[h] \in SUBSET Files
  OBVIOUS
<1>7. IsLinked(d, u, fs \ u.possesed[h], h)
  BY <1>2, <1>4, <1>6, LinkedFields
<1>8. Consistent(d)
  BY <1>3, <1>7, LinkedSafe
<1>9. \A g \in Nodes : \A f \in d.possesed[g] \ db[n].possesed[g] :
        IF g = n THEN n \in d.possession[f] ELSE g \in db[g].possession[f]
  BY <1>2, <1>7 DEF IsLinked
<1>10. \A f \in Files : n \in db[n].possession[f] => n \in d.possession[f]
  BY <1>2, <1>7 DEF IsLinked
<1>11. d \in DatabaseType
  BY <1>7 DEF IsLinked
<1>12. QED
  BY <1>5, <1>8, <1>9, <1>10, <1>11, ChangeSafe

(* revoke_resource credits nobody and keeps the list of owners.            *)
LEMMA RevokeSafe ==
    ASSUME DiscoveryInv, NEW n \in Nodes, NEW f \in Files, RevokeResource(n, f)
    PROVE  /\ db' \in [Nodes -> DatabaseType]
           /\ GraphConsistent'
           /\ OnlyOwnersCredited'
           /\ \A h \in Nodes, g \in Files :
                h \in db[h].possession[g] => h \in db'[h].possession[g]
<1>1. CASE f \in db[n].resources
  <2>1. PICK d : d = Revoked(db[n], f)
    OBVIOUS
  <2>2. db[n] \in DatabaseType /\ Consistent(db[n])
    BY EachConsistent
  <2>3. IsRevoked(d, db[n], f)
    BY <2>1, <2>2, RevokedFields
  <2>4. d \in DatabaseType /\ Consistent(d)
    BY <2>2, <2>3 DEF IsRevoked, Consistent
  <2>5. db' = [db EXCEPT ![n] = d]
    BY <1>1, <2>1 DEF RevokeResource
  <2>6. \A h \in Nodes : d.possesed[h] \ db[n].possesed[h] = {}
    BY <2>3 DEF IsRevoked
  <2>7. d.possession = db[n].possession
    BY <2>3 DEF IsRevoked
  <2>8. QED
    BY <2>4, <2>5, <2>6, <2>7, ChangeSafe
<1>2. CASE f \notin db[n].resources
  BY <1>2 DEF RevokeResource, DiscoveryInv, TypeOK, GraphConsistent, OnlyOwnersCredited
<1>3. QED
  BY <1>1, <1>2

(* check_for_gone_hosts forgets other hosts, never the local one.          *)
LEMMA GoneHostsSafe ==
    ASSUME DiscoveryInv, NEW n \in Nodes, CheckForGoneHosts(n)
    PROVE  /\ db' \in [Nodes -> DatabaseType]
           /\ GraphConsistent'
           /\ OnlyOwnersCredited'
           /\ \A h \in Nodes, g \in Files :
                h \in db[h].possession[g] => h \in db'[h].possession[g]
<1>1. PICK d : d = WithoutGoneHosts(db[n], n)
  OBVIOUS
<1>2. PICK gone : gone = GoneHosts(db[n], n)
  OBVIOUS
<1>3. db[n] \in DatabaseType /\ Consistent(db[n])
  BY EachConsistent
<1>4. IsWithout(d, db[n], gone, n)
  BY <1>1, <1>2, <1>3, WithoutGoneFields
<1>5. d \in DatabaseType /\ Consistent(d)
  BY <1>3, <1>4 DEF IsWithout, Consistent
<1>6. db' = [db EXCEPT ![n] = d]
  BY <1>1 DEF CheckForGoneHosts
<1>7. \A h \in Nodes : d.possesed[h] \ db[n].possesed[h] = {}
  BY <1>4 DEF IsWithout
<1>8. \A f \in Files : n \in db[n].possession[f] => n \in d.possession[f]
  BY <1>4 DEF IsWithout
<1>9. QED
  BY <1>5, <1>6, <1>7, <1>8, ChangeSafe

-----------------------------------------------------------------------------
(* The steps.                                                              *)

(* Nodes that know only themselves and XD satisfy the invariant.           *)
LEMMA DiscoveryInit == Init => DiscoveryInv
<1> SUFFICES ASSUME Init PROVE DiscoveryInv
  OBVIOUS
<1>1. ASSUME NEW n \in Nodes
      PROVE  /\ db[n] \in DatabaseType /\ Consistent(db[n])
             /\ \A h \in Nodes : \A f \in db[n].possesed[h] :
                  h = n /\ h \in db[n].possession[f]
  <2>1. PICK e : e = EmptyDatabase(n)
    OBVIOUS
  <2>2. /\ e \in DatabaseType
        /\ e.possesed = [h \in Nodes |-> {}] /\ e.possession = [f \in Files |-> {}]
    BY <2>1, EmptyTyped DEF EmptyDatabase
  <2>3. {XD} \in SUBSET Files
    BY BeaconAssumption
  <2>4. Consistent(e)
    BY <2>2 DEF Consistent
  <2>5. db[n] = Linked(e, {XD}, n)
    BY <2>1 DEF Init
  <2>6. IsLinked(db[n], e, {XD}, n)
    BY <2>2, <2>3, <2>5, LinkedFields
  <2>7. Consistent(db[n])
    BY <2>4, <2>6, LinkedSafe
  <2>8. QED
    BY <2>2, <2>3, <2>6, <2>7 DEF IsLinked
<1>2. TypeOK
  BY <1>1 DEF Init, TypeOK
<1>3. GraphConsistent
  BY <1>1 DEF GraphConsistent, Consistent
<1>4. OnlyOwnersCredited
  BY <1>1 DEF OnlyOwnersCredited
<1>5. QED
  BY <1>2, <1>3, <1>4 DEF DiscoveryInv, OwnersInNet, Init

(* A beacon lists what its sender owns, so all of it is in the sender's    *)
(* own list of owners.                                                     *)
LEMMA BeaconOwned ==
    ASSUME DiscoveryInv, NEW n \in Nodes, FireBeacon(n)
    PROVE  /\ net' \subseteq Datagrams
           /\ \A m \in net' \ net : m.src = n /\ m.files \subseteq db[n].possesed[n]
<1>1. PICK chunks \in Chunkings(DatabaseHeaders(n)) :
        \E sent \in SUBSET {FileList(n, fs) : fs \in chunks} : net' = net \cup sent
  BY DEF FireBeacon, Broadcast
<1>2. \A fs \in chunks : fs \subseteq db[n].possesed[n]
  BY <1>1 DEF Chunkings, DatabaseHeaders
<1>3. db[n].possesed[n] \subseteq Files
  BY DEF DiscoveryInv, TypeOK, DatabaseType
<1>4. QED
  BY <1>1, <1>2, <1>3 DEF FileList, DiscoveryInv, TypeOK, Datagrams

(* What a step does besides changing a database.                           *)
LEMMA OwnersStay ==
    ASSUME DiscoveryInv,
           \A h \in Nodes, f \in Files :
               h \in db[h].possession[f] => h \in db'[h].possession[f],
           net' \subseteq Datagrams,
           \A m \in net' \ net : m.type = "FILE_LIST" =>
               \A f \in m.files : m.src \in db[m.src].possession[f]
    PROVE  OwnersInNet'
<1> SUFFICES ASSUME NEW m \in net', m.type = "FILE_LIST", NEW f \in m.files
             PROVE  m.src \in db'[m.src].possession[f]
  BY DEF OwnersInNet
<1>1. m.src \in Nodes /\ f \in Files
  BY DEF Datagrams
<1>2. m.src \in db[m.src].possession[f]
  BY DEF DiscoveryInv, OwnersInNet
<1>3. QED
  BY <1>1, <1>2

(* Every step of every node preserves the invariant.                       *)
LEMMA DiscoveryStep == DiscoveryInv /\ [Next]_vars => DiscoveryInv'
<1> SUFFICES ASSUME DiscoveryInv, [Next]_vars PROVE DiscoveryInv'
  OBVIOUS
<1> DEFINE Grown ==
      /\ db' \in [Nodes -> DatabaseType]
      /\ GraphConsistent'
      /\ OnlyOwnersCredited'
      /\ \A h \in Nodes, g \in Files :
           h \in db[h].possession[g] => h \in db'[h].possession[g]
<1>1. ASSUME Grown, net' \subseteq Datagrams,
             \A m \in net' \ net : m.type = "FILE_LIST" =>
                 \A f \in m.files : m.src \in db[m.src].possession[f],
             up' \subseteq Nodes, listening' \subseteq up',
             downloading' \in [Nodes -> SUBSET Files]
      PROVE  DiscoveryInv'
  <2>1. OwnersInNet'
    BY <1>1, OwnersStay
  <2>2. QED
    BY <1>1, <2>1 DEF DiscoveryInv, TypeOK
<1>2. UNCHANGED db => Grown
  BY DEF DiscoveryInv, TypeOK, GraphConsistent, OnlyOwnersCredited
<1>3. /\ net \subseteq Datagrams /\ up \subseteq Nodes /\ listening \subseteq up
      /\ downloading \in [Nodes -> SUBSET Files]
  BY DEF DiscoveryInv, TypeOK
<1> HIDE DEF Grown
<1>4. ASSUME NEW n \in Nodes,
             \/ StartUdp(n) \/ ReceiveFails(n)
             \/ \E f \in Files : CommandDownload(n, f) \/ DownloadFailed(n, f)
      PROVE  DiscoveryInv'
  BY <1>1, <1>2, <1>3, <1>4 DEF StartUdp, ReceiveFails, CommandDownload, DownloadFailed
<1>5. ASSUME NEW n \in Nodes, FireBeacon(n)
      PROVE  DiscoveryInv'
  <2>1. Grown
    BY <1>5, GoneHostsSafe DEF FireBeacon, Grown
  <2>2. /\ net' \subseteq Datagrams
        /\ \A m \in net' \ net : m.src = n /\ m.files \subseteq db[n].possesed[n]
    BY <1>5, BeaconOwned
  <2>3. \A f \in db[n].possesed[n] : n \in db[n].possession[f]
    BY DEF DiscoveryInv, OnlyOwnersCredited
  <2>4. QED
    BY <1>1, <1>3, <1>5, <2>1, <2>2, <2>3 DEF FireBeacon
<1>6. ASSUME NEW n \in Nodes, NEW m \in net, ReceiveFileList(n, m)
      PROVE  DiscoveryInv'
  <2>1. /\ m.src \in Nodes /\ m.src # n /\ m.files \in SUBSET Files
        /\ UpdateHost(n, m.src, m.files)
    BY <1>3, <1>6 DEF ReceiveFileList, IsForeign, Datagrams
  <2>2. \A f \in m.files : m.src \in db[m.src].possession[f]
    BY <1>6 DEF ReceiveFileList, DiscoveryInv, OwnersInNet
  <2>3. Grown
    BY <2>1, <2>2, UpdateHostSafe DEF Grown
  <2>4. QED
    BY <1>1, <1>3, <1>6, <2>3 DEF ReceiveFileList
<1>7. ASSUME NEW n \in Nodes, NEW m \in net, ReceiveRevoke(n, m)
      PROVE  DiscoveryInv'
  <2>1. \E f \in Files : RevokeResource(n, f)
    BY <1>3, <1>7 DEF ReceiveRevoke, Datagrams
  <2>2. Grown
    BY <2>1, RevokeSafe DEF Grown
  <2>3. QED
    BY <1>1, <1>3, <1>7, <2>2 DEF ReceiveRevoke
<1>8. ASSUME NEW n \in Nodes, NEW f \in Files, CommandAdd(n, f) \/ DownloadStored(n, f)
      PROVE  DiscoveryInv'
  <2>1. Grown
    BY <1>8, AddFileSafe DEF CommandAdd, DownloadStored, Grown
  <2>2. QED
    BY <1>1, <1>3, <1>8, <2>1 DEF CommandAdd, DownloadStored
<1>9. ASSUME NEW n \in Nodes, NEW f \in Files, CommandRevoke(n, f)
      PROVE  DiscoveryInv'
  <2>1. Grown
    BY <1>9, RevokeSafe DEF CommandRevoke, Grown
  <2>2. net' \subseteq net \cup {Revoke(n, f)}
    BY <1>9 DEF CommandRevoke, Broadcast
  <2>3. Revoke(n, f) \in Datagrams /\ Revoke(n, f).type # "FILE_LIST"
    BY DEF Revoke, Datagrams
  <2>4. QED
    BY <1>1, <1>3, <1>9, <2>1, <2>2, <2>3 DEF CommandRevoke
<1>10. CASE UNCHANGED vars
  BY <1>1, <1>2, <1>3, <1>10 DEF vars
<1>11. QED
  BY <1>4, <1>5, <1>6, <1>7, <1>8, <1>9, <1>10 DEF Next

-----------------------------------------------------------------------------
(* The inductive invariant: the graphs of all nodes are consistent, and    *)
(* neither they nor a beacon still in the network credit a host with a     *)
(* file that it never listed itself.                                       *)
THEOREM DiscoveryInvariant == Spec => []DiscoveryInv
BY DiscoveryInit, DiscoveryStep, PTL DEF Spec

(* Every variable keeps its type.                                          *)
THEOREM DiscoveryTypeCorrect == Spec => []TypeOK
<1>1. DiscoveryInv => TypeOK
  BY DEF DiscoveryInv
<1>2. QED
  BY <1>1, DiscoveryInvariant, PTL

(* possesed_resources and hosts_in_possession agree at every node, except  *)
(* for what was revoked.                                                   *)
THEOREM GraphsConsistent == Spec => []GraphConsistent
<1>1. DiscoveryInv => GraphConsistent
  BY DEF DiscoveryInv
<1>2. QED
  BY <1>1, DiscoveryInvariant, PTL

(* Nobody is ever credited with a file that it never owned, in whatever    *)
(* order beacons and revocations arrive.                                   *)
THEOREM CreditIsDue == Spec => []OnlyOwnersCredited
<1>1. DiscoveryInv => OnlyOwnersCredited
  BY DEF DiscoveryInv
<1>2. QED
  BY <1>1, DiscoveryInvariant, PTL
=============================================================================
