--------------------------------- MODULE Galera ---------------------------------
(***************************************************************************)
(* The MySQL service: MySQLManager (conpaas.services.mysql.manager), its   *)
(* agents, and the Galera cluster and load balancers (GLB) they run.       *)
(*                                                                         *)
(* The manager keeps the MySQL nodes and the GLB nodes in two tables.  A   *)
(* mysqld that is started with the addresses of others joins their group;  *)
(* without any it founds a group of its own.  Every GLB is told by calls   *)
(* which mysqlds to balance.  A worker makes its calls one after the other *)
(* and writes the tables between them.  Any call may fail, which ends the  *)
(* worker with the service in the state it was in.                         *)
(*                                                                         *)
(* Nobody stops the service while a worker is alive (AppManager is about   *)
(* such stops).  migrate_nodes uses attributes the manager no longer has;  *)
(* passwords, dumps and measurements change nothing that is modelled.      *)
(***************************************************************************)
EXTENDS Naturals, FiniteSets

CONSTANTS
    Node,       \* the virtual machines that can be up together (bound)
    MaxCount,   \* the most nodes of a role asked for at once (bound)
    None        \* Python's None: no worker, no daemon, no group

ASSUME GaleraAssumption == MaxCount \in Nat \ {0} /\ None \notin Node \cup {"mysql", "glb"}
ASSUME NodeAssumption == IsFiniteSet(Node)

VARIABLES
    state,      \* self.state of the service
    sql,        \* config.serviceNodes
    glb,        \* config.glb_service_nodes
    up,         \* the virtual machines of the service
    daemon,     \* running_roles of every agent
    group,      \* the node that founded the group of every mysqld
    balanced,   \* the mysqlds that every glbd balances
    worker,     \* the worker thread
    emptied     \* history: since the service last stopped, its last MySQL node
                \* was removed by its address

config == <<sql, glb>>
agent == <<daemon, group, balanced>>
vars == <<state, config, up, agent, worker, emptied>>

-----------------------------------------------------------------------------
(* Types. *)

State == {"INIT", "PROLOGUE", "RUNNING", "ADAPTING", "EPILOGUE", "STOPPED"}

Role == {"mysql", "glb"}

\* A worker: its operation, its place, the MySQL and GLB nodes it adds or
\* removes, the addresses it read, and the nodes its loop has still to call.
Worker == [op : {"start", "add", "remove", "specific", "stop"},
           pc : {"begin", "start_mysqld", "add_glbd", "start_glbd",
                 "remove_glbd", "stop", "end"},
           want : [Role -> 0..MaxCount], sqls : SUBSET Node,
           glbs : SUBSET Node, existing : SUBSET Node, on : SUBSET Node]

TypeOK ==
    /\ state \in State
    /\ sql \subseteq up /\ glb \subseteq up /\ sql \cap glb = {}
    /\ up \subseteq Node
    /\ daemon \in [Node -> Role \cup {None}]
    /\ group \in [Node -> Node \cup {None}]
    /\ balanced \in [Node -> SUBSET Node]
    /\ worker \in Worker \cup {None}
    /\ emptied \in BOOLEAN

Init ==
    /\ state = "INIT"
    /\ sql = {} /\ glb = {}
    /\ up = {}
    /\ daemon = [n \in Node |-> None]
    /\ group = [n \in Node |-> None]
    /\ balanced = [n \in Node |-> {}]
    /\ worker = None
    /\ emptied = FALSE

-----------------------------------------------------------------------------
(* The requests. *)

Wants == {w \in [Role -> 0..MaxCount] : \E r \in Role : w[r] > 0}

Nothing == [r \in Role |-> 0]

Start(op, pc, st, want, sqls, glbs) ==
    /\ worker = None
    /\ state' = st
    /\ worker' = [op |-> op, pc |-> pc, want |-> want, sqls |-> sqls,
                  glbs |-> glbs, existing |-> {}, on |-> {}]
    /\ UNCHANGED <<config, up, agent, emptied>>

\* A service starts with one MySQL node.
start_service ==
    /\ state \in {"INIT", "STOPPED"}
    /\ Start("start", "begin", "PROLOGUE", [Nothing EXCEPT !["mysql"] = 1], {}, {})

stop_service ==
    /\ Start("stop", "begin", "EPILOGUE", Nothing, {}, {})

add_nodes(w) ==
    /\ state = "RUNNING"
    /\ Start("add", "begin", "ADAPTING", w, {}, {})

\* Mutant of check_remove_nodes: the last MySQL node may go.
check_remove_nodesAll(w) ==
    w["mysql"] <= Cardinality(sql) /\ w["glb"] <= Cardinality(glb)

\* At least one MySQL node remains.
check_remove_nodes(w) ==
    w["mysql"] < Cardinality(sql) /\ w["glb"] <= Cardinality(glb)

remove_nodes(w) ==
    /\ state = "RUNNING"
    /\ check_remove_nodes(w)
    /\ Start("remove", "begin", "ADAPTING", w, {}, {})

\* remove_specific_nodes: the node with this address, the last MySQL node too.
\* An address that no node has is an error after the state has been set.
remove_specific_nodes ==
    /\ state = "RUNNING"
    /\ \/ \E n \in sql \cup glb :
            Start("specific", "begin", "ADAPTING", Nothing, sql \cap {n},
                  glb \cap {n})
       \/ /\ worker = None
          /\ state' = "ADAPTING"
          /\ UNCHANGED <<config, up, agent, worker, emptied>>

-----------------------------------------------------------------------------
(* The workers. *)

At(op, pc) == worker # None /\ worker.op \in op /\ worker.pc = pc

Adds == {"start", "add"}
Removes == {"remove", "specific", "stop"}

\* Every way to choose k elements of S: the order of a dictionary is arbitrary.
Some(k, S) == {T \in SUBSET S : Cardinality(T) = k}

\* Mutant of get_nodes_addr: the addresses never reach the agents.
get_nodes_addrNone == {}

get_nodes_addr == sql

\* Some of the nodes asked for came up; the addresses of the MySQL nodes are
\* read when the first is started.
CreateNodes ==
    /\ At(Adds, "begin")
    /\ \E i \in 0..worker.want["mysql"], j \in 0..worker.want["glb"] :
         \E m \in Some(i, Node \ up) : \E g \in Some(j, Node \ (up \cup m)) :
           /\ m \cup g # {}
           /\ up' = up \cup m \cup g
           /\ worker' = [worker EXCEPT !.pc = "start_mysqld", !.sqls = m,
                           !.glbs = g, !.existing = get_nodes_addr, !.on = m]
    /\ UNCHANGED <<state, config, agent, emptied>>

\* A mysqld given addresses joins the group of one that answers there; given
\* none it founds a group.  Without an answer it never starts.
start_mysqld(n) ==
    /\ At(Adds, "start_mysqld") /\ n \in worker.on
    /\ daemon[n] = None
    /\ daemon' = [daemon EXCEPT ![n] = "mysql"]
    /\ \/ /\ worker.existing = {}
          /\ group' = [group EXCEPT ![n] = n]
       \/ \E m \in worker.existing :
            /\ daemon[m] = "mysql"
            /\ group' = [group EXCEPT ![n] = group[m]]
    /\ worker' = [worker EXCEPT !.on = @ \ {n}]
    /\ UNCHANGED <<state, config, up, balanced, emptied>>

\* The loop is over: the GLBs are told, those of the table only.
Started ==
    /\ At(Adds, "start_mysqld") /\ worker.on = {}
    /\ worker' = [worker EXCEPT !.pc = "add_glbd",
                     !.on = IF worker.sqls = {} THEN {} ELSE glb]
    /\ UNCHANGED <<state, config, up, agent, emptied>>

add_glbd_nodes(n) ==
    /\ At(Adds, "add_glbd") /\ n \in worker.on
    /\ daemon[n] = "glb"
    /\ balanced' = [balanced EXCEPT ![n] = @ \cup worker.sqls]
    /\ worker' = [worker EXCEPT !.on = @ \ {n}]
    /\ UNCHANGED <<state, config, up, daemon, group, emptied>>

\* addMySQLServiceNodes, and the new GLBs are started.
Joined ==
    /\ At(Adds, "add_glbd") /\ worker.on = {}
    /\ sql' = sql \cup worker.sqls
    /\ worker' = [worker EXCEPT !.pc = "start_glbd", !.on = worker.glbs]
    /\ UNCHANGED <<state, glb, up, agent, emptied>>

start_glbd(n) ==
    /\ At(Adds, "start_glbd") /\ n \in worker.on
    /\ daemon[n] = None
    /\ daemon' = [daemon EXCEPT ![n] = "glb"]
    /\ balanced' = [balanced EXCEPT ![n] = sql]
    /\ worker' = [worker EXCEPT !.on = @ \ {n}]
    /\ UNCHANGED <<state, config, up, group, emptied>>

\* addGLBServiceNodes; on_start or on_add_nodes returns True.
Added ==
    /\ At(Adds, "start_glbd") /\ worker.on = {}
    /\ glb' = glb \cup worker.glbs
    /\ state' = "RUNNING"
    /\ worker' = None
    /\ UNCHANGED <<sql, up, agent, emptied>>

\* on_remove_nodes and on_stop choose the nodes; all GLBs are called first.
_do_remove_nodes ==
    /\ At(Removes, "begin")
    /\ \E m \in CASE worker.op = "stop" -> {sql}
                  [] worker.op = "remove" -> Some(worker.want["mysql"], sql)
                  [] OTHER -> {worker.sqls},
          g \in CASE worker.op = "stop" -> {glb}
                  [] worker.op = "remove" -> Some(worker.want["glb"], glb)
                  [] OTHER -> {worker.glbs} :
         worker' = [worker EXCEPT !.pc = "remove_glbd", !.sqls = m, !.glbs = g,
                                  !.on = glb]
    /\ UNCHANGED <<state, config, up, agent, emptied>>

remove_glbd_nodes(n) ==
    /\ At(Removes, "remove_glbd") /\ n \in worker.on
    /\ daemon[n] = "glb"
    /\ balanced' = [balanced EXCEPT ![n] = @ \ worker.sqls]
    /\ worker' = [worker EXCEPT !.on = @ \ {n}]
    /\ UNCHANGED <<state, config, up, daemon, group, emptied>>

\* Mutant of Unbalanced: the daemons are stopped while GLBs are still told.
UnbalancedEarly == At(Removes, "remove_glbd")

\* All GLBs have been told.
Unbalanced == At(Removes, "remove_glbd") /\ worker.on = {}

Halt ==
    /\ Unbalanced
    /\ worker' = [worker EXCEPT !.pc = "stop", !.on = worker.sqls \cup worker.glbs]
    /\ UNCHANGED <<state, config, up, agent, emptied>>

\* The agent stops what it runs, which may be nothing.
stop(n) ==
    /\ At(Removes, "stop") /\ n \in worker.on
    /\ daemon' = [daemon EXCEPT ![n] = None]
    /\ group' = [group EXCEPT ![n] = None]
    /\ balanced' = [balanced EXCEPT ![n] = {}]
    /\ worker' = [worker EXCEPT !.on = @ \ {n}]
    /\ UNCHANGED <<state, config, up, emptied>>

\* Mutant of Returned: all machines of the service are handed back.
ReturnedAll == sql \cup glb

\* The virtual machines handed back to the director: remove_specific_nodes
\* runs beside the manager of the application, and hands back none.
Returned ==
    IF worker.op = "specific" THEN {} ELSE worker.sqls \cup worker.glbs

\* Daemons go with their machine.
Removed ==
    LET gone == worker.sqls \cup worker.glbs IN
    /\ At(Removes, "stop") /\ worker.on = {}
    /\ sql' = IF worker.op = "stop" THEN {} ELSE sql \ gone
    /\ glb' = IF worker.op = "stop" THEN {} ELSE glb \ gone
    /\ state' = IF worker.op = "stop" \/ sql' \cup glb' = {} THEN "STOPPED"
                ELSE "RUNNING"
    /\ up' = up \ Returned
    /\ emptied' = (/\ state' = "RUNNING"
                   /\ emptied \/ (worker.op = "specific" /\ sql' = {}))
    /\ worker' = None
    /\ UNCHANGED agent

\* A call fails or is refused, or no node came up.
Fail ==
    /\ worker # None
    /\ worker.pc = "begin" => worker.op \in Adds
    /\ worker.pc # "begin" => worker.on # {}
    /\ worker' = None
    /\ UNCHANGED <<state, config, up, agent, emptied>>

-----------------------------------------------------------------------------
(* The specification. *)

Handle ==
    \/ start_service \/ stop_service \/ remove_specific_nodes
    \/ \E w \in Wants : add_nodes(w) \/ remove_nodes(w)

Work ==
    \/ CreateNodes \/ Started \/ Joined \/ Added
    \/ _do_remove_nodes \/ Halt \/ Removed \/ Fail
    \/ \E n \in Node : \/ start_mysqld(n) \/ add_glbd_nodes(n) \/ start_glbd(n)
                       \/ remove_glbd_nodes(n) \/ stop(n)

Next == Handle \/ Work

Spec == Init /\ [][Next]_vars

-----------------------------------------------------------------------------
(* What the service promises. *)

\* The MySQL nodes of the service replicate each other: those that run, while
\* the service is up and until the last has been stopped, are of one group,
\* whatever failed before, though nodes join by addresses that were read before
\* their fellows started, and old daemons of failed additions are still about.
\* (Once the last has been removed by its address, two that are added together
\* each found a group: the exception.)
OneGroup ==
    ~emptied => \A m, n \in sql :
      daemon[m] = "mysql" /\ daemon[n] = "mysql" => group[m] = group[n]

\* A load balancer of the service never sends a client to a MySQL server that
\* does not run, at any step of an addition, a removal or a stop, failed or not.
NoDeadBackend ==
    \A g \in glb : \A n \in balanced[g] : n \in up /\ daemon[n] = "mysql"

\* manager.py:604 "at least one agent since state is S_RUNNING".
SomeNode == state = "RUNNING" => sql # {}

\* When the service shows S_RUNNING, every load balancer balances exactly the
\* MySQL nodes that the service lists, and unless they were removed by address
\* there is one at least.
Balanced ==
    state = "RUNNING" =>
      /\ ~emptied => sql # {}
      /\ \A n \in sql : daemon[n] = "mysql"
      /\ \A g \in glb : daemon[g] = "glb" /\ balanced[g] = sql
=============================================================================
