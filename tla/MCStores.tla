------------------------------ MODULE MCStores ------------------------------
(***************************************************************************)
(* The dashboards' tables, the table of data sources and the connections   *)
(* below them, on a small instance.  The tables have no row, no lock and   *)
(* no request in common; the views write nothing and read nothing that     *)
(* probes write, and to a probe the import of another process is one more  *)
(* added row; the calls of SharedConnection stand for those of all tables. *)
(* Interleaving them multiplies their states and adds no behaviour, so the *)
(* first state chooses what moves.                                         *)
(***************************************************************************)
EXTENDS Dashboards, DataSources, SharedConnection

CONSTANTS MaxMishaps, w1, w2, k1, k2, x1, x2, c1, c2, c3, c4, y1, y2

VARIABLE moves

TwoLists == {<<>>, <<w2, w1>>}

SeedList == <<w1>>

(* Two versions carry the number 2, as two concurrent updates leave them. *)
Past ==
    {[by |-> None, dashboard |-> SeedDashboard, number |-> n[1], name |-> SeedName,
      widgets |-> n[2], from |-> 0] :
        n \in {<<1, SeedList>>, <<2, <<>> >>, <<2, <<w1, w2>> >>}}

EnvList == <<k1, k2, k1>>

EnvNames == <<"env-0", "env-1", "env-2">>

SomeSelections == {<<>>, <<"env-1">>} \cup {<<id>> : id \in SourceIds}

(* Two calls in each of two processes, which may cross on two rows. *)
CrossingJobs ==
    {<<c1, x1, y1>>, <<c2, x1, y1>>, <<c2, x1, y2>>,
     <<c3, x2, y2>>, <<c4, x2, y1>>}

(* What does not move starts in one of its initial states. *)
StoresInit ==
    /\ DashInit /\ SrcInit /\ ConnInit
    /\ moves \in {"dashboards", "probes", "views", "connections"}
    /\ moves \in {"dashboards", "connections"} => Stored = {}
    /\ moves # "dashboards" => versions = {}
    /\ Cardinality(Stored) <= 2

(* What goes wrong with handlers and what goes on at start-ups meet in small numbers. *)
FewMishaps == requestFaults' + starts' <= MaxMishaps

StoresNext ==
    /\ UNCHANGED moves
    /\ \/ UNCHANGED <<srcVars, connVars>> /\ moves = "dashboards" /\ DashNext /\ FewMishaps
       \/ UNCHANGED <<dashVars, connVars, boot, view>> /\ moves = "probes" /\ SrcNext
       \/ UNCHANGED <<dashVars, connVars, probing>> /\ moves = "views" /\ SrcNext
       \/ UNCHANGED <<dashVars, srcVars>> /\ moves = "connections" /\ ConnNext

StoresSpec == StoresInit /\ [][StoresNext]_<<dashVars, srcVars, connVars, moves>>

(* The rows of every table keep their columns, whatever a request body     *)
(* leaves out, and so do the locals of the handlers between statements.    *)
StoresTypeOK == DashTypeOK /\ SrcTypeOK /\ ConnTypeOK

StoresSymmetry ==
    Permutations(Requests) \cup Permutations(Processes) \cup Permutations(SourceIds)
=============================================================================
