------------------------------ MODULE Discovery ------------------------------
(***************************************************************************)
(* How nodes learn of each other's files: the beacons and revocations of   *)
(* src/src/UdpClient.cpp, src/src/UdpServer.cpp and src/src/UdpModule.cpp, *)
(* the commands of src/src/CLI.cpp that change the database, and the end   *)
(* of a download, which adds the file (DownloadService::store_file).       *)
(*                                                                         *)
(* net is the set of all datagrams ever broadcast.  Nothing is taken out   *)
(* of it: a datagram may arrive late, again, out of order or never.        *)
(***************************************************************************)
EXTENDS ResourceDatabase

CONSTANTS
    BEACON_MAX_COUNT,  \* files in one datagram: 3 in GeneralTypes.h
    XD,                \* the resource that main gives every node
    MaxDatagrams       \* bound on the different datagrams that are broadcast

ASSUME BeaconAssumption == BEACON_MAX_COUNT \in Nat \ {0} /\ XD \in Files

VARIABLES
    up,           \* the nodes whose UDP thread has set ptr_client
    listening,    \* the nodes with a receive pending
    downloading,  \* downloading[n]: the files n is downloading
    net           \* the datagrams

vars == <<db, up, listening, downloading, net>>

FileList(n, fs) == [type |-> "FILE_LIST", src |-> n, files |-> fs]
Revoke(n, f)    == [type |-> "REVOKE", src |-> n, files |-> {f}]

Datagrams == [type : {"FILE_LIST", "REVOKE"}, src : Nodes, files : SUBSET Files]

(* The data types of all variables.                                        *)
TypeOK ==
    /\ db \in [Nodes -> DatabaseType]
    /\ up \subseteq Nodes
    /\ listening \subseteq up
    /\ downloading \in [Nodes -> SUBSET Files]
    /\ net \subseteq Datagrams

Init ==
    /\ db = [n \in Nodes |-> Linked(EmptyDatabase(n), {XD}, n)]
    /\ up = {}
    /\ listening = {}
    /\ downloading = [n \in Nodes |-> {}]
    /\ net = {}

-----------------------------------------------------------------------------
(* Mutant: the server starts, and ptr_client was not set.                  *)
StartUdpNoClient(n) ==
    /\ n \notin up
    /\ listening' = listening \cup {n}
    /\ UNCHANGED <<db, up, downloading, net>>

(* Udp_Module::run_server: create the client, then the server.             *)
StartUdp(n) ==
    /\ n \notin up
    /\ up' = up \cup {n}
    /\ listening' = listening \cup {n}
    /\ UNCHANGED <<db, downloading, net>>

(* Udp_Client::send to the broadcast address.  After a send error, what is *)
(* behind the packet in tx_queue is never sent (Node models the queue): of *)
(* what is handed to send, any part reaches the network.                   *)
Broadcast(ms) ==
    \E sent \in SUBSET ms :
        /\ net' = net \cup sent
        /\ Cardinality(net') <= MaxDatagrams

(* fire_beacon: the owned files in datagrams of BEACON_MAX_COUNT, the last *)
(* one smaller, in the order of the list (any order here); no datagram for *)
(* an empty list.  Then the check for gone hosts.                          *)
Chunkings(fs) ==
    {chunks \in SUBSET (SUBSET fs \ {{}}) :
        /\ UNION chunks = fs
        /\ \A a, b \in chunks : a = b \/ a \cap b = {}
        /\ \A a \in chunks : Cardinality(a) <= BEACON_MAX_COUNT
        /\ Cardinality({a \in chunks : Cardinality(a) < BEACON_MAX_COUNT}) <= 1}

(* Mutant: the beacon lists every resource the node knows.                 *)
FireBeaconAll(n) ==
    /\ n \in up
    /\ \E chunks \in Chunkings(db[n].resources) :
         Broadcast({FileList(n, fs) : fs \in chunks})
    /\ CheckForGoneHosts(n)
    /\ UNCHANGED <<up, listening, downloading>>

FireBeacon(n) ==
    /\ n \in up
    /\ \E chunks \in Chunkings(DatabaseHeaders(n)) :
         Broadcast({FileList(n, fs) : fs \in chunks})
    /\ CheckForGoneHosts(n)
    /\ UNCHANGED <<up, listening, downloading>>

(* handle_receive: a node ignores its own datagrams.                       *)
IsForeign(n, m) == m.src # n

ReceiveFileList(n, m) ==
    /\ n \in listening
    /\ m \in net
    /\ IsForeign(n, m)
    /\ m.type = "FILE_LIST"
    /\ UpdateHost(n, m.src, m.files)
    /\ UNCHANGED <<up, listening, downloading, net>>

ReceiveRevoke(n, m) ==
    /\ n \in listening
    /\ m \in net
    /\ IsForeign(n, m)
    /\ m.type = "REVOKE"
    /\ \E f \in m.files : RevokeResource(n, f)
    /\ UNCHANGED <<up, listening, downloading, net>>

(* After an error no further receive is started.                           *)
ReceiveFails(n) ==
    /\ n \in listening
    /\ listening' = listening \ {n}
    /\ UNCHANGED <<db, up, downloading, net>>

-----------------------------------------------------------------------------
(* The commands of the CLI.                                                *)

CommandAdd(n, f) ==
    /\ AddFile(n, f)
    /\ UNCHANGED <<up, listening, downloading, net>>

(* revoke: anything in the database, owned or not; nothing happens while   *)
(* the UDP thread has not started.                                         *)
CommandRevoke(n, f) ==
    /\ f \in db[n].resources
    /\ n \in up
    /\ Broadcast({Revoke(n, f)})
    /\ RevokeResource(n, f)
    /\ UNCHANGED <<up, listening, downloading>>

CommandDownload(n, f) ==
    /\ f \in db[n].resources \ db[n].invalidated
    /\ downloading' = [downloading EXCEPT ![n] = @ \cup {f}]
    /\ UNCHANGED <<db, up, listening, net>>

(* The download ends in its own thread: store_file adds the file whatever  *)
(* became of the resource meanwhile, a failed download changes nothing.    *)
DownloadStored(n, f) ==
    /\ f \in downloading[n]
    /\ downloading' = [downloading EXCEPT ![n] = @ \ {f}]
    /\ AddFile(n, f)
    /\ UNCHANGED <<up, listening, net>>

DownloadFailed(n, f) ==
    /\ f \in downloading[n]
    /\ downloading' = [downloading EXCEPT ![n] = @ \ {f}]
    /\ UNCHANGED <<db, up, listening, net>>

-----------------------------------------------------------------------------
(* The specification.                                                      *)

Next ==
    \E n \in Nodes :
        \/ StartUdp(n) \/ FireBeacon(n) \/ ReceiveFails(n)
        \/ \E m \in net : ReceiveFileList(n, m) \/ ReceiveRevoke(n, m)
        \/ \E f \in Files :
            \/ CommandAdd(n, f) \/ CommandRevoke(n, f) \/ CommandDownload(n, f)
            \/ DownloadStored(n, f) \/ DownloadFailed(n, f)

Spec == Init /\ [][Next]_vars

-----------------------------------------------------------------------------
(* Properties.                                                             *)

(* The two directions of the graph agree, except that an invalidated       *)
(* resource still points to hosts that do not point back any more          *)
(* (ResourceDatabase.h on revoke_resource).  create_workers relies on it:  *)
(* the hosts it gets own the resource, as far as the node can tell.        *)
GraphConsistent ==
    \A n \in Nodes, h \in Nodes, f \in Files :
        /\ f \in db[n].possesed[h] => h \in db[n].possession[f] /\ h \in db[n].hosts
        /\ h \in db[n].possession[f] => f \in db[n].possesed[h] \/ f \in db[n].invalidated

(* Whatever a datagram still in the network says, the node it comes from   *)
(* has listed that file itself: nobody is ever credited with a file that   *)
(* it never owned.                                                         *)
OnlyOwnersCredited ==
    \A n \in Nodes, h \in Nodes :
        \A f \in db[n].possesed[h] : h \in db[h].possession[f]

(* TIN-Dokumentacja.tex, on a file revoked while it is being downloaded:   *)
(* its new owner will never broadcast that it has it.                      *)
RevokedDownloadStaysSilent ==
    [][\A n \in Nodes, f \in Files :
        DownloadStored(n, f) /\ f \in db[n].invalidated
            => f \notin DatabaseHeaders(n)']_vars
=============================================================================
