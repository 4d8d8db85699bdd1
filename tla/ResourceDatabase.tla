-------------------------- MODULE ResourceDatabase --------------------------
(***************************************************************************)
(* src/src/ResourceDatabase.cpp: the bipartite graph of hosts and files    *)
(* that every node keeps.  Each operator is one member function, run under *)
(* database_mutex; db[n] is the database of node n.  A file stands for a   *)
(* Resource, which is identified by name and size.  The vectors are sets   *)
(* here: the code may list the same host or file twice.                    *)
(***************************************************************************)
EXTENDS Integers, FiniteSets

CONSTANTS
    Nodes,       \* the nodes, which are also the hosts they know
    Files,       \* the resources that exist in the system
    LEFT_MARGIN  \* missed updates after which a host counts as gone

ASSUME MarginAssumption == LEFT_MARGIN \in Nat \ {0}

VARIABLE db

(* The constructor: the database knows the local host.                     *)
EmptyDatabase(n) ==
    [hosts       |-> {n},
     resources   |-> {},
     invalidated |-> {},
     possesed    |-> [h \in Nodes |-> {}],  \* Host::possesed_resources
     possession  |-> [f \in Files |-> {}],  \* Resource::hosts_in_possession
     missed      |-> [h \in Nodes |-> 0]]   \* Host::no_of_missed_updates

DatabaseType ==
    [hosts       : SUBSET Nodes,
     resources   : SUBSET Files,
     invalidated : SUBSET Files,
     possesed    : [Nodes -> SUBSET Files],
     possession  : [Files -> SUBSET Nodes],
     missed      : [Nodes -> Nat]]

(* add_file_internal for the files fs of host h.  It creates what is not   *)
(* there and links both ways, an invalidated resource too.                 *)
Linked(d, fs, h) ==
    [d EXCEPT !.hosts = @ \cup {h},
              !.resources = @ \cup fs,
              !.possesed[h] = @ \cup fs,
              !.possession = [f \in Files |-> IF f \in fs THEN @[f] \cup {h} ELSE @[f]]]

AddFile(n, f) == db' = [db EXCEPT ![n] = Linked(@, {f}, n)]

(* generate_database_headers: what the local host owns.                    *)
DatabaseHeaders(n) == db[n].possesed[n]

(* update_host only adds what the host did not have.                       *)
UpdateHost(n, h, fs) ==
    LET d == [db[n] EXCEPT !.missed[h] = 0]
    IN  db' = [db EXCEPT ![n] = Linked(d, fs \ d.possesed[h], h)]

(* Host::remove_resource for each of the hosts hs.                         *)
RemoveResource(possesed, hs, f) ==
    [h \in Nodes |-> IF h \in hs THEN possesed[h] \ {f} ELSE possesed[h]]

(* Mutant: the resource is taken from its hosts and not marked.            *)
RevokedUnmarked(d, f) ==
    [d EXCEPT !.possesed = RemoveResource(@, d.possession[f], f)]

(* revoke_resource marks the resource and takes it from its hosts; the     *)
(* resource keeps its list of hosts.                                       *)
Revoked(d, f) ==
    [d EXCEPT !.invalidated = @ \cup {f},
              !.possesed = RemoveResource(@, d.possession[f], f)]

RevokeResource(n, f) ==
    db' = IF f \in db[n].resources THEN [db EXCEPT ![n] = Revoked(@, f)] ELSE db

(* check_for_gone_hosts and remove_host.  Nothing ever increments the      *)
(* number of missed updates.                                               *)
GoneHosts(d, n) == {h \in d.hosts \ {n} : d.missed[h] >= LEFT_MARGIN}

(* Resource::remove_host for each of the hosts hs that f has in its list.  *)
RemoveHosts(possession, f, hs) == possession[f] \ hs

WithoutGoneHosts(d, n) ==
    LET gone == GoneHosts(d, n)
    IN  [d EXCEPT !.hosts = @ \ gone,
                  !.possesed = [h \in Nodes |-> IF h \in gone THEN {} ELSE @[h]],
                  !.possession = [f \in Files |->
                      RemoveHosts(@, f, {h \in gone : f \in d.possesed[h]})]]

CheckForGoneHosts(n) == db' = [db EXCEPT ![n] = WithoutGoneHosts(@, n)]
=============================================================================
