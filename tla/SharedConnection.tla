-------------------------- MODULE SharedConnection ---------------------------
(***************************************************************************)
(* The one database connection of a worker process (_CONNECTION in         *)
(* repositories/postgres_store.py).  Routes run in threads of the process  *)
(* and call the functions of the two stores at the same time.  Every such  *)
(* function takes the connection, reads, writes at most one row and        *)
(* commits (but for the purge of snapshots and the start-up, which write   *)
(* several); nothing in the code rolls back.  So the statements of all the *)
(* calls of a process meet in one transaction, which any of them may       *)
(* commit and any failing statement of them aborts.                        *)
(*                                                                         *)
(* The driver and PostgreSQL are modelled as the code uses them:           *)
(*   - a connection runs one statement at a time; while it waits for a     *)
(*     row that the transaction of another process has written, all other  *)
(*     statements of its process wait too;                                 *)
(*   - the first statement after a commit opens a transaction; in an       *)
(*     aborted one every statement raises and COMMIT rolls back, silently; *)
(*   - the driver learns that the connection is gone when it next uses it. *)
(***************************************************************************)
EXTENDS Naturals, FiniteSets

CONSTANTS
    Servers,        \* worker processes
    Calls,          \* calls of functions of the stores, each made once
    Rows,           \* rows that calls may write
    Jobs,           \* <<call, process, row>>: what each call may be
    NoServer, NoRow,
    MaxFailures     \* bound on spontaneous failures

ASSUME SharedConnectionAssumption ==
    /\ NoServer \notin Servers
    /\ NoRow \notin Rows
    /\ Jobs \subseteq Calls \X Servers \X Rows
    /\ MaxFailures \in Nat

VARIABLES
    link,           \* the connection object of each process
    call,           \* where each call stands
    pending,        \* calls whose row is written by the open transaction
    stored,         \* calls whose row is committed
    spoiled,        \* calls past their write, or in it, at a failure
    failures        \* failed statements and lost connections

connVars == <<link, call, pending, stored, spoiled, failures>>

Link == [id : Nat, state : {"closed", "idle", "open", "aborted"}, alive : BOOLEAN]

Call ==
    [pc : {"idle", "select", "write", "waits", "commit", "read", "returned", "raised"},
     server : Servers \cup {NoServer}, row : Rows \cup {NoRow}, id : Nat]

ConnInit ==
    /\ link = [s \in Servers |-> [id |-> 0, state |-> "closed", alive |-> FALSE]]
    /\ call = [c \in Calls |-> [pc |-> "idle", server |-> NoServer, row |-> NoRow, id |-> 0]]
    /\ pending = [s \in Servers |-> {}]
    /\ stored = {}
    /\ spoiled = {}
    /\ failures = 0

-----------------------------------------------------------------------------
Mine(c) == call[c].server

(* A call keeps the connection it took, a later one may have replaced it. *)
Holds(c) == link[Mine(c)].id = call[c].id /\ link[Mine(c)].state # "closed"

(* A statement that waits for a row keeps the driver's lock. *)
Busy(s) == \E c \in Calls : call[c].pc = "waits" /\ call[c].server = s

Answers(c) == Holds(c) /\ link[Mine(c)].alive /\ ~Busy(Mine(c))

Holders(c) ==
    {s \in Servers \ {Mine(c)} : \E d \in pending[s] : call[d].row = call[c].row}

Moved(c, pc) == call' = [call EXCEPT ![c].pc = pc]

Linked(s, state) == link' = [link EXCEPT ![s].state = state]

-----------------------------------------------------------------------------
(* _get_connection: a connection that is closed is replaced.  Functions    *)
(* that read go on with a SELECT, others with their write.                 *)
Connect(c, s, row, first) ==
    LET new == IF link[s].state = "closed"
               THEN [id |-> link[s].id + 1, state |-> "idle", alive |-> TRUE]
               ELSE link[s]
    IN  /\ call[c].pc = "idle"
        /\ link' = [link EXCEPT ![s] = new]
        /\ call' = [call EXCEPT ![c] = [pc |-> first, server |-> s, row |-> row, id |-> new.id]]
        /\ UNCHANGED <<pending, stored, spoiled, failures>>

(* A function that only reads ends here, without a commit, and so does an  *)
(* update that finds no row.                                               *)
Select(c) ==
    /\ call[c].pc = "select"
    /\ Answers(c)
    /\ link[Mine(c)].state # "aborted"
    /\ Linked(Mine(c), "open")
    /\ \E pc \in {"read", "write"} : Moved(c, pc)
    /\ UNCHANGED <<pending, stored, spoiled, failures>>

Written_Uncommitted(c) ==
    /\ pending' = [pending EXCEPT ![Mine(c)] = @ \cup {c}]
    /\ Moved(c, "returned")
    /\ UNCHANGED <<stored, spoiled, failures>>

Written(c) ==
    /\ pending' = [pending EXCEPT ![Mine(c)] = @ \cup {c}]
    /\ Moved(c, "commit")
    /\ UNCHANGED <<stored, spoiled, failures>>

Write(c) ==
    /\ call[c].pc = "write"
    /\ Answers(c)
    /\ link[Mine(c)].state # "aborted"
    /\ Holders(c) = {}
    /\ Linked(Mine(c), "open")
    /\ Written(c)

(* Another process has written the row and not committed. *)
WaitForRow(c) ==
    /\ call[c].pc = "write"
    /\ Answers(c)
    /\ link[Mine(c)].state # "aborted"
    /\ Holders(c) # {}
    /\ Linked(Mine(c), "open")
    /\ Moved(c, "waits")
    /\ UNCHANGED <<pending, stored, spoiled, failures>>

GetRow(c) ==
    /\ call[c].pc = "waits"
    /\ Holders(c) = {}
    /\ Written(c)
    /\ UNCHANGED link

(* Without a transaction commit() does not ask the database. *)
Commit(c) ==
    /\ call[c].pc = "commit"
    /\ Holds(c) /\ ~Busy(Mine(c))
    /\ link[Mine(c)].alive \/ link[Mine(c)].state = "idle"
    /\ stored' = stored \cup pending[Mine(c)]
    /\ pending' = [pending EXCEPT ![Mine(c)] = {}]
    /\ Linked(Mine(c), "idle")
    /\ Moved(c, "returned")
    /\ UNCHANGED <<spoiled, failures>>

-----------------------------------------------------------------------------
(* A statement in an aborted transaction; nothing leaves that state but    *)
(* the commit of a call that had written before.                           *)
Rejected(c) ==
    /\ call[c].pc \in {"select", "write"}
    /\ Answers(c)
    /\ link[Mine(c)].state = "aborted"
    /\ Moved(c, "raised")
    /\ UNCHANGED <<link, pending, stored, spoiled, failures>>

(* The connection turns out to be gone. *)
FindsLost(c) ==
    /\ call[c].pc \in {"select", "write", "commit"}
    /\ Holds(c) /\ ~Busy(Mine(c))
    /\ ~link[Mine(c)].alive
    /\ call[c].pc = "commit" => link[Mine(c)].state # "idle"
    /\ Linked(Mine(c), "closed")
    /\ Moved(c, "raised")
    /\ UNCHANGED <<pending, stored, spoiled, failures>>

(* Another call has found the connection gone. *)
FindsClosed(c) ==
    /\ call[c].pc \in {"select", "write", "commit"}
    /\ ~Holds(c)
    /\ Moved(c, "raised")
    /\ UNCHANGED <<link, pending, stored, spoiled, failures>>

(* A failed statement rolls the transaction back, rows of other calls      *)
(* included.                                                               *)
Abort(c) ==
    /\ failures' = failures + 1
    /\ Linked(Mine(c), "aborted")
    /\ spoiled' = spoiled \cup pending[Mine(c)]
    /\ pending' = [pending EXCEPT ![Mine(c)] = {}]
    /\ Moved(c, "raised")
    /\ UNCHANGED stored

StatementFails(c) ==
    /\ failures < MaxFailures
    /\ \/ call[c].pc \in {"select", "write"} /\ Answers(c) /\ link[Mine(c)].state # "aborted"
       \/ call[c].pc = "waits"
    /\ Abort(c)

(* PostgreSQL ends the wait of one of two processes that wait for each     *)
(* other (the Dockerfile starts two).  One row per call suffices: the      *)
(* locks of a process are those of all its calls.                          *)
Deadlocked(c) ==
    /\ call[c].pc = "waits"
    /\ \E d \in Calls :
          call[d].pc = "waits" /\ Mine(d) \in Holders(c) /\ Mine(c) \in Holders(d)
    /\ Abort(c)

(* The connection is lost.  What a COMMIT under way was to store may be    *)
(* stored; a statement that waits raises at once.                          *)
ConnectionLost(s) ==
    LET at(pc) == {c \in Calls : call[c].pc = pc /\ Mine(c) = s /\ Holds(c)}
    IN  /\ failures < MaxFailures
        /\ link[s].alive
        /\ failures' = failures + 1
        /\ spoiled' = spoiled \cup at("commit")
        /\ stored' \in {stored} \cup {stored \cup pending[s]}
        /\ pending' = [pending EXCEPT ![s] = {}]
        /\ link' = [link EXCEPT ![s].alive = FALSE,
                                ![s].state = IF Busy(s) THEN "closed" ELSE @]
        /\ call' = [c \in Calls |->
                        IF c \in at("waits") THEN [call[c] EXCEPT !.pc = "raised"] ELSE call[c]]

ConnNext ==
    \/ \E job \in Jobs, first \in {"select", "write"} :
          Connect(job[1], job[2], job[3], first)
    \/ \E c \in Calls :
          \/ Select(c) \/ Write(c) \/ WaitForRow(c) \/ GetRow(c) \/ Commit(c)
          \/ Rejected(c) \/ FindsLost(c) \/ FindsClosed(c)
          \/ StatementFails(c) \/ Deadlocked(c)
    \/ \E s \in Servers : ConnectionLost(s)

ConnSpec == ConnInit /\ [][ConnNext]_connVars

-----------------------------------------------------------------------------
ConnTypeOK ==
    /\ link \in [Servers -> Link]
    /\ call \in [Calls -> Call]
    /\ pending \in [Servers -> SUBSET Calls]
    /\ stored \subseteq Calls /\ spoiled \subseteq Calls
    /\ failures \in Nat

Ended ==
    [c \in Calls |-> IF call[c].pc \in {"returned", "raised"} THEN call[c].pc ELSE "no"]

Promise == INSTANCE Transactions WITH ended <- Ended, disturbed <- spoiled

(* Although the calls of a process share one transaction, each keeps the   *)
(* promise of a transaction of its own unless the database fails while it  *)
(* is past its write: the functions of repositories/postgres_store.py and  *)
(* repositories/data_source_store.py, called from many threads.            *)
OneTransactionEach == Promise!TxSpec
=============================================================================
