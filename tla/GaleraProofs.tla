----------------------------- MODULE GaleraProofs -----------------------------
(***************************************************************************)
(* Proofs about Galera, for every number of machines and every MaxCount:   *)
(* types, OneGroup, NoDeadBackend and Balanced.                            *)
(***************************************************************************)
EXTENDS Galera, FiniteSetTheorems, TLAPS

\* A load balancer that is listed has its daemon, or none any more.
Kinds == \A g \in glb : daemon[g] # "mysql"

\* A service that is not started has no nodes, and is not RUNNING while a
\* worker is alive: the state is the lock of the worker.
Idle ==
    /\ state \in {"INIT", "STOPPED"} => sql = {} /\ glb = {} /\ worker = None
    /\ worker # None => state # "RUNNING"

\* The daemons of the nodes in M and of the load balancers in G run.
Runs(M, G) ==
    /\ \A n \in M : daemon[n] = "mysql"
    /\ \A g \in G : daemon[g] = "glb"

\* The load balancers in G balance the MySQL nodes in M, no more and no less.
Balance(G, M) == \A g \in G : balanced[g] = M

\* The servers in M that run are of one group.
Together(M) ==
    \A m, n \in M :
      daemon[m] = "mysql" /\ daemon[n] = "mysql" => group[m] = group[n]

\* The nodes that a worker adds, and what has become of them so far.
Adding ==
    At(Adds, worker.pc) =>
      /\ worker.pc \in {"begin", "start_mysqld", "add_glbd", "start_glbd"}
      /\ Runs(sql, glb)
      /\ worker.op = "add" /\ ~emptied => sql # {}
      /\ worker.op = "start" =>
           /\ worker.want["mysql"] = 1 /\ worker.want["glb"] = 0
           /\ worker.pc # "begin" =>
                worker.sqls # {} /\ \A m, n \in worker.sqls : m = n
      /\ worker.sqls \cup worker.glbs \subseteq up
      /\ worker.sqls \cap worker.glbs = {}
      /\ worker.glbs \cap (sql \cup glb) = {} /\ worker.sqls \cap glb = {}
      /\ worker.pc = "begin" => Balance(glb, sql)
      /\ worker.pc = "start_mysqld" =>
           /\ worker.existing = sql
           /\ worker.on \subseteq worker.sqls
           /\ worker.sqls \cap sql = {}
           /\ Runs(worker.sqls \ worker.on, {})
           /\ ~emptied => Together(sql \cup (worker.sqls \ worker.on))
           /\ Balance(glb, sql)
      /\ worker.pc = "add_glbd" =>
           /\ worker.on \subseteq glb
           /\ worker.sqls \cap sql = {}
           /\ Runs(worker.sqls, {})
           /\ ~emptied => Together(sql \cup worker.sqls)
           /\ Balance(worker.on, sql)
           /\ Balance(glb \ worker.on, sql \cup worker.sqls)
      /\ worker.pc = "start_glbd" =>
           /\ worker.on \subseteq worker.glbs
           /\ worker.sqls \subseteq sql
           /\ Runs({}, worker.glbs \ worker.on)
           /\ Balance(glb \cup (worker.glbs \ worker.on), sql)

\* The nodes that a worker removes, and what has become of them so far.
Removing ==
    At(Removes, worker.pc) =>
      /\ worker.pc \in {"begin", "remove_glbd", "stop"}
      /\ worker.sqls \subseteq sql /\ worker.glbs \subseteq glb
      /\ worker.op = "stop" /\ worker.pc # "begin" =>
           worker.sqls = sql /\ worker.glbs = glb
      /\ worker.op = "remove" =>
           /\ worker.want["mysql"] < Cardinality(sql)
           /\ worker.pc # "begin" => worker.sqls # sql
      /\ worker.pc = "begin" => worker.on = {}
      /\ worker.pc = "remove_glbd" =>
           /\ worker.on \subseteq glb
           /\ \A g \in glb \ worker.on : balanced[g] \cap worker.sqls = {}
      /\ worker.pc = "stop" =>
           /\ worker.on \subseteq worker.sqls \cup worker.glbs
           /\ \A g \in glb : balanced[g] \cap worker.sqls = {}
      /\ worker.op # "stop" =>
           /\ Runs(sql \ worker.sqls, glb \ worker.glbs)
           /\ worker.pc = "begin" => Runs(sql, glb) /\ Balance(glb, sql)
           /\ worker.pc = "remove_glbd" =>
                /\ Balance(worker.on, sql)
                /\ Balance(glb \ worker.on, sql \ worker.sqls)
           /\ worker.pc = "stop" => Balance(glb \ worker.glbs, sql \ worker.sqls)

IInv ==
    /\ TypeOK /\ OneGroup /\ NoDeadBackend /\ Balanced
    /\ Kinds /\ Idle /\ Adding /\ Removing

-----------------------------------------------------------------------------
(* One lemma per action. *)

\* A start finds no nodes, and takes the lock.
LEMMA start_serviceStep ==
    ASSUME IInv, start_service
    PROVE  IInv'
<1> USE GaleraAssumption DEF IInv, At, Adds, Removes, config, agent,
         Start, Wants, Nothing, Role
<1>1. TypeOK'
  BY DEF start_service, TypeOK, Worker, Role, State
<1>2. OneGroup'
  BY DEF start_service, TypeOK, Worker, OneGroup, Adding, Removing, Together,
       Runs
<1>3. NoDeadBackend'
  BY DEF start_service, TypeOK, Worker, NoDeadBackend, Adding, Removing,
       Kinds, Runs, Balance
<1>4. Balanced'
  BY DEF start_service, TypeOK, Worker, Balanced, Adding, Removing, Runs,
       Balance, Idle
<1>5. Kinds'
  BY DEF start_service, TypeOK, Worker, Kinds, Adding, Removing, Runs
<1>6. Idle'
  BY DEF start_service, TypeOK, Worker, Idle, Adding, Removing
<1>7. Adding'
  BY DEF start_service, TypeOK, Worker, Adding, Runs, Balance, Together,
       OneGroup, Idle, Balanced
<1>8. Removing'
  BY DEF start_service, TypeOK, Worker, Removing, Runs, Balance, Idle,
       Balanced
<1> QED
  BY <1>1, <1>2, <1>3, <1>4, <1>5, <1>6, <1>7, <1>8

\* A stop takes the lock whatever the state was; nobody else is at work.
LEMMA stop_serviceStep ==
    ASSUME IInv, stop_service
    PROVE  IInv'
<1> USE GaleraAssumption DEF IInv, At, Adds, Removes, config, agent,
         Start, Wants, Nothing, Role
<1>1. TypeOK'
  BY DEF stop_service, TypeOK, Worker, Role, State
<1>2. OneGroup'
  BY DEF stop_service, TypeOK, Worker, OneGroup, Adding, Removing, Together,
       Runs
<1>3. NoDeadBackend'
  BY DEF stop_service, TypeOK, Worker, NoDeadBackend, Adding, Removing, Kinds,
       Runs, Balance
<1>4. Balanced'
  BY DEF stop_service, TypeOK, Worker, Balanced, Adding, Removing, Runs,
       Balance, Idle
<1>5. Kinds'
  BY DEF stop_service, TypeOK, Worker, Kinds, Adding, Removing, Runs
<1>6. Idle'
  BY DEF stop_service, TypeOK, Worker, Idle, Adding, Removing
<1>7. Adding'
  BY DEF stop_service, TypeOK, Worker, Adding, Runs, Balance, Together,
       OneGroup, Idle, Balanced
<1>8. Removing'
  BY DEF stop_service, TypeOK, Worker, Removing, Runs, Balance, Idle, Balanced
<1> QED
  BY <1>1, <1>2, <1>3, <1>4, <1>5, <1>6, <1>7, <1>8

\* An addition begins with a service that runs and is balanced.
LEMMA add_nodesStep ==
    ASSUME NEW w \in Wants, IInv, add_nodes(w)
    PROVE  IInv'
<1> USE GaleraAssumption DEF IInv, At, Adds, Removes, config, agent,
         Start, Wants, Nothing, Role
<1>1. TypeOK'
  BY DEF add_nodes, TypeOK, Worker, Role, State
<1>2. OneGroup'
  BY DEF add_nodes, TypeOK, Worker, OneGroup, Adding, Removing, Together, Runs
<1>3. NoDeadBackend'
  BY DEF add_nodes, TypeOK, Worker, NoDeadBackend, Adding, Removing, Kinds,
       Runs, Balance
<1>4. Balanced'
  BY DEF add_nodes, TypeOK, Worker, Balanced, Adding, Removing, Runs, Balance,
       Idle
<1>5. Kinds'
  BY DEF add_nodes, TypeOK, Worker, Kinds, Adding, Removing, Runs
<1>6. Idle'
  BY DEF add_nodes, TypeOK, Worker, Idle, Adding, Removing
<1>7. Adding'
  BY DEF add_nodes, TypeOK, Worker, Adding, Runs, Balance, Together, OneGroup,
       Idle, Balanced
<1>8. Removing'
  BY DEF add_nodes, TypeOK, Worker, Removing, Runs, Balance, Idle, Balanced
<1> QED
  BY <1>1, <1>2, <1>3, <1>4, <1>5, <1>6, <1>7, <1>8

\* A removal by number begins with more MySQL nodes than it will take.
LEMMA remove_nodesStep ==
    ASSUME NEW w \in Wants, IInv, remove_nodes(w)
    PROVE  IInv'
<1> USE GaleraAssumption DEF IInv, At, Adds, Removes, config, agent,
         Start, Wants, Nothing, Role
<1>1. TypeOK'
  BY DEF remove_nodes, TypeOK, Worker, Role, State
<1>2. OneGroup'
  BY DEF remove_nodes, TypeOK, Worker, OneGroup, Adding, Removing, Together,
       Runs
<1>3. NoDeadBackend'
  BY DEF remove_nodes, TypeOK, Worker, NoDeadBackend, Adding, Removing, Kinds,
       Runs, Balance
<1>4. Balanced'
  BY DEF remove_nodes, TypeOK, Worker, Balanced, Adding, Removing, Runs,
       Balance, Idle
<1>5. Kinds'
  BY DEF remove_nodes, TypeOK, Worker, Kinds, Adding, Removing, Runs
<1>6. Idle'
  BY DEF remove_nodes, TypeOK, Worker, Idle, Adding, Removing
<1>7. Adding'
  BY DEF remove_nodes, TypeOK, Worker, Adding, Runs, Balance, Together,
       OneGroup, Idle, Balanced
<1>8. Removing'
  BY DEF remove_nodes, check_remove_nodes, TypeOK, Worker, Removing, Runs,
       Balance, Idle, Balanced
<1> QED
  BY <1>1, <1>2, <1>3, <1>4, <1>5, <1>6, <1>7, <1>8

\* A removal by address begins with a node of the service, or leaves ADAPTING
\* behind.
LEMMA remove_specific_nodesStep ==
    ASSUME IInv, remove_specific_nodes
    PROVE  IInv'
<1> USE GaleraAssumption DEF IInv, At, Adds, Removes, config, agent,
         Start, Wants, Nothing, Role
<1>1. TypeOK'
  BY DEF remove_specific_nodes, TypeOK, Worker, Role, State
<1>2. OneGroup'
  BY DEF remove_specific_nodes, TypeOK, Worker, OneGroup, Adding, Removing,
       Together, Runs
<1>3. NoDeadBackend'
  BY DEF remove_specific_nodes, TypeOK, Worker, NoDeadBackend, Adding,
       Removing, Kinds, Runs, Balance
<1>4. Balanced'
  BY DEF remove_specific_nodes, TypeOK, Worker, Balanced, Adding, Removing,
       Runs, Balance, Idle
<1>5. Kinds'
  BY DEF remove_specific_nodes, TypeOK, Worker, Kinds, Adding, Removing, Runs
<1>6. Idle'
  BY DEF remove_specific_nodes, TypeOK, Worker, Idle, Adding, Removing
<1>7. Adding'
  BY DEF remove_specific_nodes, Adding
<1>8. Removing'
  BY DEF remove_specific_nodes, TypeOK, Worker, Removing, Runs, Balance, Idle,
       Balanced
<1> QED
  BY <1>1, <1>2, <1>3, <1>4, <1>5, <1>6, <1>7, <1>8

\* The new machines are none that the service has; a start gets one MySQL node.
LEMMA CreateNodesStep ==
    ASSUME IInv, CreateNodes
    PROVE  IInv'
<1> USE GaleraAssumption DEF IInv, At, Adds, Removes, config, agent
<1>0. PICK i \in 0..worker.want["mysql"], j \in 0..worker.want["glb"],
            m \in SUBSET (Node \ up), g \in SUBSET (Node \ up) :
        /\ m \cap g = {}
        /\ Cardinality(m) = i /\ Cardinality(g) = j
        /\ m \cup g # {}
        /\ up' = up \cup m \cup g
        /\ worker' = [worker EXCEPT !.pc = "start_mysqld", !.sqls = m,
                        !.glbs = g, !.existing = sql, !.on = m]
  BY DEF CreateNodes, Some, get_nodes_addr
<1>a. worker \in Worker /\ worker.op \in Adds /\ worker.pc = "begin"
  BY DEF CreateNodes, TypeOK
<1>b. /\ worker' \in Worker
      /\ worker'.op = worker.op /\ worker'.want = worker.want
      /\ worker'.pc = "start_mysqld" /\ worker'.sqls = m /\ worker'.glbs = g
      /\ worker'.existing = sql /\ worker'.on = m
  BY <1>0, <1>a DEF Worker, TypeOK
<1>c. worker.op = "start" => m # {} /\ \A x, y \in m : x = y
  <2> SUFFICES ASSUME worker.op = "start"
               PROVE  m # {} /\ \A x, y \in m : x = y
    OBVIOUS
  <2>1. IsFiniteSet(m) /\ IsFiniteSet(g)
    BY NodeAssumption, FS_Subset
  <2>2. worker.want["mysql"] = 1 /\ worker.want["glb"] = 0
    BY <1>a DEF Adding, CreateNodes
  <2>3. g = {}
    BY <1>0, <2>1, <2>2, FS_EmptySet
  <2>4. Cardinality(m) = 1
    BY <1>0, <2>1, <2>2, <2>3, FS_EmptySet
  <2> QED BY <2>1, <2>3, <2>4, <1>0, FS_Singleton
<1>1. TypeOK'
  BY <1>0, <1>b DEF CreateNodes, TypeOK
<1>2. OneGroup'
  BY DEF CreateNodes, TypeOK, Worker, OneGroup, Adding, Removing, Together,
       Runs
<1>3. NoDeadBackend'
  BY DEF CreateNodes, TypeOK, Worker, NoDeadBackend, Adding, Removing, Kinds,
       Runs, Balance
<1>4. Balanced'
  BY DEF CreateNodes, TypeOK, Worker, Balanced, Adding, Removing, Runs,
       Balance, Idle
<1>5. Kinds'
  BY DEF CreateNodes, TypeOK, Worker, Kinds, Adding, Removing, Runs
<1>6. Idle'
  BY DEF CreateNodes, TypeOK, Worker, Idle, Adding, Removing
<1>7. Adding'
  BY <1>0, <1>b, <1>c DEF CreateNodes, TypeOK, Adding, Runs, Balance, Together,
     OneGroup
<1>8. Removing'
  BY DEF CreateNodes, TypeOK, Worker, Removing, Runs, Balance, Idle, Balanced
<1> QED
  BY <1>1, <1>2, <1>3, <1>4, <1>5, <1>6, <1>7, <1>8

\* A new server joins the group of those listed, or is the only one.
LEMMA start_mysqldStep ==
    ASSUME NEW n \in Node, IInv, start_mysqld(n)
    PROVE  IInv'
<1> USE GaleraAssumption DEF IInv, At, Adds, Removes, config, agent
<1>1. TypeOK'
  BY DEF start_mysqld, TypeOK, Worker, Role, State
<1>2. OneGroup'
  BY DEF start_mysqld, TypeOK, Worker, OneGroup, Adding, Removing, Together,
       Runs
<1>3. NoDeadBackend'
  BY DEF start_mysqld, TypeOK, Worker, NoDeadBackend, Adding, Removing, Kinds,
       Runs, Balance
<1>4. Balanced'
  BY DEF start_mysqld, TypeOK, Worker, Balanced, Adding, Removing, Runs,
       Balance, Idle
<1>5. Kinds'
  BY DEF start_mysqld, TypeOK, Worker, Kinds, Adding, Removing, Runs
<1>6. Idle'
  BY DEF start_mysqld, TypeOK, Worker, Idle, Adding, Removing
<1>7. Adding'
  BY DEF start_mysqld, TypeOK, Worker, Adding, Runs, Balance, Together,
       OneGroup, Idle, Balanced
<1>8. Removing'
  BY DEF start_mysqld, TypeOK, Worker, Removing, Runs, Balance, Idle, Balanced
<1> QED
  BY <1>1, <1>2, <1>3, <1>4, <1>5, <1>6, <1>7, <1>8

\* All new servers run before a load balancer is told of them.
LEMMA StartedStep ==
    ASSUME IInv, Started
    PROVE  IInv'
<1> USE GaleraAssumption DEF IInv, At, Adds, Removes, config, agent
<1>1. TypeOK'
  BY DEF Started, TypeOK, Worker, Role, State
<1>2. OneGroup'
  BY DEF Started, TypeOK, Worker, OneGroup, Adding, Removing, Together, Runs
<1>3. NoDeadBackend'
  BY DEF Started, TypeOK, Worker, NoDeadBackend, Adding, Removing, Kinds,
       Runs, Balance
<1>4. Balanced'
  BY DEF Started, TypeOK, Worker, Balanced, Adding, Removing, Runs, Balance,
       Idle
<1>5. Kinds'
  BY DEF Started, TypeOK, Worker, Kinds, Adding, Removing, Runs
<1>6. Idle'
  BY DEF Started, TypeOK, Worker, Idle, Adding, Removing
<1>7. Adding'
  BY DEF Started, TypeOK, Worker, Adding, Runs, Balance, Together, OneGroup,
       Idle, Balanced
<1>8. Removing'
  BY DEF Started, TypeOK, Worker, Removing, Runs, Balance, Idle, Balanced
<1> QED
  BY <1>1, <1>2, <1>3, <1>4, <1>5, <1>6, <1>7, <1>8

\* A load balancer is given servers that run.
LEMMA add_glbd_nodesStep ==
    ASSUME NEW n \in Node, IInv, add_glbd_nodes(n)
    PROVE  IInv'
<1> USE GaleraAssumption DEF IInv, At, Adds, Removes, config, agent
<1>1. TypeOK'
  BY DEF add_glbd_nodes, TypeOK, Worker, Role, State
<1>2. OneGroup'
  BY DEF add_glbd_nodes, TypeOK, Worker, OneGroup, Adding, Removing, Together,
       Runs
<1>3. NoDeadBackend'
  BY DEF add_glbd_nodes, TypeOK, Worker, NoDeadBackend, Adding, Removing,
       Kinds, Runs, Balance
<1>4. Balanced'
  BY DEF add_glbd_nodes, TypeOK, Worker, Balanced, Adding, Removing, Runs,
       Balance, Idle
<1>5. Kinds'
  BY DEF add_glbd_nodes, TypeOK, Worker, Kinds, Adding, Removing, Runs
<1>6. Idle'
  BY DEF add_glbd_nodes, TypeOK, Worker, Idle, Adding, Removing
<1>7. Adding'
  BY DEF add_glbd_nodes, TypeOK, Worker, Adding, Runs, Balance, Together,
       OneGroup, Idle, Balanced
<1>8. Removing'
  BY DEF add_glbd_nodes, TypeOK, Worker, Removing, Runs, Balance, Idle,
       Balanced
<1> QED
  BY <1>1, <1>2, <1>3, <1>4, <1>5, <1>6, <1>7, <1>8

\* The new servers are listed when every load balancer balances them.
LEMMA JoinedStep ==
    ASSUME IInv, Joined
    PROVE  IInv'
<1> USE GaleraAssumption DEF IInv, At, Adds, Removes, config, agent
<1>1. TypeOK'
  BY DEF Joined, TypeOK, Worker, Role, State, Adding
<1>2. OneGroup'
  BY DEF Joined, TypeOK, Worker, OneGroup, Adding, Removing, Together, Runs
<1>3. NoDeadBackend'
  BY DEF Joined, TypeOK, Worker, NoDeadBackend, Adding, Removing, Kinds, Runs,
       Balance
<1>4. Balanced'
  BY DEF Joined, TypeOK, Worker, Balanced, Adding, Removing, Runs, Balance,
       Idle
<1>5. Kinds'
  BY DEF Joined, TypeOK, Worker, Kinds, Adding, Removing, Runs
<1>6. Idle'
  BY DEF Joined, TypeOK, Worker, Idle, Adding, Removing
<1>7. Adding'
  BY DEF Joined, TypeOK, Worker, Adding, Runs, Balance, Together, OneGroup,
       Idle, Balanced
<1>8. Removing'
  BY DEF Joined, TypeOK, Worker, Removing, Runs, Balance, Idle, Balanced
<1> QED
  BY <1>1, <1>2, <1>3, <1>4, <1>5, <1>6, <1>7, <1>8

\* A new load balancer starts with the servers that are listed.
LEMMA start_glbdStep ==
    ASSUME NEW n \in Node, IInv, start_glbd(n)
    PROVE  IInv'
<1> USE GaleraAssumption DEF IInv, At, Adds, Removes, config, agent
<1>1. TypeOK'
  BY DEF start_glbd, TypeOK, Worker, Role, State
<1>2. OneGroup'
  BY DEF start_glbd, TypeOK, Worker, OneGroup, Adding, Removing, Together,
       Runs
<1>3. NoDeadBackend'
  BY DEF start_glbd, TypeOK, Worker, NoDeadBackend, Adding, Removing, Kinds,
       Runs, Balance
<1>4. Balanced'
  BY DEF start_glbd, TypeOK, Worker, Balanced, Adding, Removing, Runs,
       Balance, Idle
<1>5. Kinds'
  BY DEF start_glbd, TypeOK, Worker, Kinds, Adding, Removing, Runs
<1>6. Idle'
  BY DEF start_glbd, TypeOK, Worker, Idle, Adding, Removing
<1>7. Adding'
  BY DEF start_glbd, TypeOK, Worker, Adding, Runs, Balance, Together,
       OneGroup, Idle, Balanced
<1>8. Removing'
  BY DEF start_glbd, TypeOK, Worker, Removing, Runs, Balance, Idle, Balanced
<1> QED
  BY <1>1, <1>2, <1>3, <1>4, <1>5, <1>6, <1>7, <1>8

\* An addition ends with a service that is balanced.
LEMMA AddedStep ==
    ASSUME IInv, Added
    PROVE  IInv'
<1> USE GaleraAssumption DEF IInv, At, Adds, Removes, config, agent
<1>1. TypeOK'
  BY DEF Added, TypeOK, Worker, Role, State, Adding
<1>2. OneGroup'
  BY DEF Added, TypeOK, Worker, OneGroup, Adding, Removing, Together, Runs
<1>3. NoDeadBackend'
  BY DEF Added, TypeOK, Worker, NoDeadBackend, Adding, Removing, Kinds, Runs,
       Balance
<1>4. Balanced'
  BY DEF Added, TypeOK, Worker, Balanced, Adding, Removing, Runs, Balance,
       Idle
<1>5. Kinds'
  BY DEF Added, TypeOK, Worker, Kinds, Adding, Removing, Runs
<1>6. Idle'
  BY DEF Added, TypeOK, Worker, Idle, Adding, Removing
<1>7. Adding'
  BY DEF Added, TypeOK, Worker, Adding, Runs, Balance, Together, OneGroup,
       Idle, Balanced
<1>8. Removing'
  BY DEF Added, TypeOK, Worker, Removing, Runs, Balance, Idle, Balanced
<1> QED
  BY <1>1, <1>2, <1>3, <1>4, <1>5, <1>6, <1>7, <1>8

\* The nodes that go are some of those listed, and not all MySQL nodes unless
\* the service stops or the node was named.
LEMMA do_remove_nodesStep ==
    ASSUME IInv, _do_remove_nodes
    PROVE  IInv'
<1> USE GaleraAssumption DEF IInv, At, Adds, Removes, config, agent
<1>0. PICK m \in SUBSET sql, g \in SUBSET glb :
        /\ worker.op = "stop" => m = sql /\ g = glb
        /\ worker.op = "remove" => Cardinality(m) = worker.want["mysql"]
        /\ worker.op = "specific" => m = worker.sqls /\ g = worker.glbs
        /\ worker' = [worker EXCEPT !.pc = "remove_glbd", !.sqls = m, !.glbs = g,
                                    !.on = glb]
  <2>1. CASE worker.op = "stop"
    <3>1. \E m \in {sql}, g \in {glb} :
            worker' = [worker EXCEPT !.pc = "remove_glbd", !.sqls = m, !.glbs = g,
                                     !.on = glb]
      BY <2>1 DEF _do_remove_nodes
    <3> QED BY <2>1, <3>1
  <2>2. CASE worker.op = "remove"
    BY <2>2 DEF _do_remove_nodes, Some
  <2>3. CASE worker.op = "specific"
    <3>1. \E m \in {worker.sqls}, g \in {worker.glbs} :
            worker' = [worker EXCEPT !.pc = "remove_glbd", !.sqls = m, !.glbs = g,
                                     !.on = glb]
      BY <2>3 DEF _do_remove_nodes
    <3>2. worker.sqls \subseteq sql /\ worker.glbs \subseteq glb
      BY <2>3 DEF _do_remove_nodes, Removing
    <3> QED BY <2>3, <3>1, <3>2
  <2> QED BY <2>1, <2>2, <2>3 DEF _do_remove_nodes
<1>a. worker \in Worker /\ worker.op \in Removes /\ worker.pc = "begin"
  BY DEF _do_remove_nodes, TypeOK
<1>b. /\ worker' \in Worker
      /\ worker'.op = worker.op /\ worker'.want = worker.want
      /\ worker'.pc = "remove_glbd" /\ worker'.sqls = m /\ worker'.glbs = g
      /\ worker'.on = glb
  BY <1>0, <1>a DEF Worker, TypeOK
<1>c. worker.op = "remove" => m # sql
  BY <1>0, <1>a DEF Removing, _do_remove_nodes, Worker, Role
<1>1. TypeOK'
  BY <1>b DEF _do_remove_nodes, TypeOK
<1>2. OneGroup'
  BY DEF _do_remove_nodes, TypeOK, Worker, OneGroup, Adding, Removing,
       Together, Runs
<1>3. NoDeadBackend'
  BY DEF _do_remove_nodes, TypeOK, Worker, NoDeadBackend, Adding, Removing,
       Kinds, Runs, Balance
<1>4. Balanced'
  BY DEF _do_remove_nodes, TypeOK, Worker, Balanced, Adding, Removing, Runs,
       Balance, Idle
<1>5. Kinds'
  BY DEF _do_remove_nodes, TypeOK, Worker, Kinds, Adding, Removing, Runs
<1>6. Idle'
  BY DEF _do_remove_nodes, TypeOK, Worker, Idle, Adding, Removing
<1>7. Adding'
  BY DEF _do_remove_nodes, TypeOK, Worker, Adding, Runs, Balance, Together,
       OneGroup, Idle, Balanced
<1>8. Removing'
  <2>1. UNCHANGED <<sql, glb, daemon, balanced>>
    BY DEF _do_remove_nodes
  <2>2. worker.op = "remove" => worker.want["mysql"] < Cardinality(sql)
    BY <1>a DEF Removing, _do_remove_nodes
  <2>3. worker.op # "stop" => Runs(sql, glb) /\ Balance(glb, sql)
    BY <1>a DEF Removing, _do_remove_nodes, Runs
  <2> QED
    BY <1>0, <1>a, <1>b, <1>c, <2>1, <2>2, <2>3 DEF Removing, Runs, Balance
<1> QED
  BY <1>1, <1>2, <1>3, <1>4, <1>5, <1>6, <1>7, <1>8

\* A load balancer forgets the servers that go.
LEMMA remove_glbd_nodesStep ==
    ASSUME NEW n \in Node, IInv, remove_glbd_nodes(n)
    PROVE  IInv'
<1> USE GaleraAssumption DEF IInv, At, Adds, Removes, config, agent
<1>1. TypeOK'
  BY DEF remove_glbd_nodes, TypeOK, Worker, Role, State
<1>2. OneGroup'
  BY DEF remove_glbd_nodes, TypeOK, Worker, OneGroup, Adding, Removing,
       Together, Runs
<1>3. NoDeadBackend'
  BY DEF remove_glbd_nodes, TypeOK, Worker, NoDeadBackend, Adding, Removing,
       Kinds, Runs, Balance
<1>4. Balanced'
  BY DEF remove_glbd_nodes, TypeOK, Worker, Balanced, Adding, Removing, Runs,
       Balance, Idle
<1>5. Kinds'
  BY DEF remove_glbd_nodes, TypeOK, Worker, Kinds, Adding, Removing, Runs
<1>6. Idle'
  BY DEF remove_glbd_nodes, TypeOK, Worker, Idle, Adding, Removing
<1>7. Adding'
  BY DEF remove_glbd_nodes, TypeOK, Worker, Adding, Runs, Balance, Together,
       OneGroup, Idle, Balanced
<1>8. Removing'
  BY DEF remove_glbd_nodes, TypeOK, Worker, Removing, Runs, Balance, Idle,
       Balanced
<1> QED
  BY <1>1, <1>2, <1>3, <1>4, <1>5, <1>6, <1>7, <1>8

\* Servers are stopped when no load balancer balances them any more.
LEMMA HaltStep ==
    ASSUME IInv, Halt
    PROVE  IInv'
<1> USE GaleraAssumption DEF IInv, At, Adds, Removes, config, agent
<1>1. TypeOK'
  BY DEF Halt, Unbalanced, TypeOK, Worker, Role, State
<1>2. OneGroup'
  BY DEF Halt, Unbalanced, TypeOK, Worker, OneGroup, Adding, Removing,
       Together, Runs
<1>3. NoDeadBackend'
  BY DEF Halt, Unbalanced, TypeOK, Worker, NoDeadBackend, Adding, Removing,
       Kinds, Runs, Balance
<1>4. Balanced'
  BY DEF Halt, Unbalanced, TypeOK, Worker, Balanced, Adding, Removing, Runs,
       Balance, Idle
<1>5. Kinds'
  BY DEF Halt, Unbalanced, TypeOK, Worker, Kinds, Adding, Removing, Runs
<1>6. Idle'
  BY DEF Halt, Unbalanced, TypeOK, Worker, Idle, Adding, Removing
<1>7. Adding'
  BY DEF Halt, Unbalanced, TypeOK, Worker, Adding, Runs, Balance, Together,
       OneGroup, Idle, Balanced
<1>8. Removing'
  BY DEF Halt, Unbalanced, TypeOK, Worker, Removing, Runs, Balance, Idle,
       Balanced
<1> QED
  BY <1>1, <1>2, <1>3, <1>4, <1>5, <1>6, <1>7, <1>8

\* Stopping a daemon leaves no load balancer with a dead server.
LEMMA stopStep ==
    ASSUME NEW n \in Node, IInv, stop(n)
    PROVE  IInv'
<1> USE GaleraAssumption DEF IInv, At, Adds, Removes, config, agent
<1>1. TypeOK'
  BY DEF stop, TypeOK, Worker, Role, State
<1>2. OneGroup'
  BY DEF stop, TypeOK, Worker, OneGroup, Adding, Removing, Together, Runs
<1>3. NoDeadBackend'
  BY DEF stop, TypeOK, Worker, NoDeadBackend, Adding, Removing, Kinds, Runs,
       Balance
<1>4. Balanced'
  BY DEF stop, TypeOK, Worker, Balanced, Adding, Removing, Runs, Balance, Idle
<1>5. Kinds'
  BY DEF stop, TypeOK, Worker, Kinds, Adding, Removing, Runs
<1>6. Idle'
  BY DEF stop, TypeOK, Worker, Idle, Adding, Removing
<1>7. Adding'
  BY DEF stop, TypeOK, Worker, Adding, Runs, Balance, Together, OneGroup,
       Idle, Balanced
<1>8. Removing'
  BY DEF stop, TypeOK, Worker, Removing, Runs, Balance, Idle, Balanced
<1> QED
  BY <1>1, <1>2, <1>3, <1>4, <1>5, <1>6, <1>7, <1>8

\* The nodes that have gone leave the tables: nothing refers to them.
LEMMA RemovedStep ==
    ASSUME IInv, Removed
    PROVE  IInv'
<1> USE GaleraAssumption DEF IInv, At, Adds, Removes, config, agent
<1>1. TypeOK'
  BY DEF Removed, Returned, TypeOK, Worker, Role, State, Removing
<1>2. OneGroup'
  BY DEF Removed, Returned, TypeOK, Worker, OneGroup, Adding, Removing,
       Together, Runs
<1>3. NoDeadBackend'
  BY DEF Removed, Returned, TypeOK, Worker, NoDeadBackend, Adding, Removing,
       Kinds, Runs, Balance
<1>4. Balanced'
  <2> SUFFICES ASSUME state' = "RUNNING" PROVE Balanced'
    BY DEF Balanced
  <2>1. worker \in Worker /\ worker.op \in {"remove", "specific"} /\ worker.pc = "stop"
    BY DEF Removed, TypeOK, Worker
  <2>2. /\ sql' = sql \ (worker.sqls \cup worker.glbs)
        /\ glb' = glb \ (worker.sqls \cup worker.glbs)
    BY <2>1 DEF Removed
  <2>3. sql' = sql \ worker.sqls /\ glb' = glb \ worker.glbs
    BY <2>1, <2>2 DEF Removing, TypeOK, Removed
  <2>4. ~emptied' => sql' # {}
    <3>1. CASE worker.op = "remove"
      BY <2>1, <2>3, <3>1 DEF Removing, Removed
    <3>2. CASE worker.op = "specific"
      BY <2>1, <3>2 DEF Removed
    <3> QED BY <2>1, <3>1, <3>2
  <2>5. Runs(sql', glb') /\ Balance(glb', sql')
    BY <2>1, <2>3 DEF Removing, Removed
  <2>6. UNCHANGED <<daemon, balanced>>
    BY DEF Removed
  <2> QED BY <2>4, <2>5, <2>6 DEF Balanced, Runs, Balance
<1>5. Kinds'
  BY DEF Removed, Returned, TypeOK, Worker, Kinds, Adding, Removing, Runs
<1>6. Idle'
  BY DEF Removed, Returned, TypeOK, Worker, Idle, Adding, Removing
<1>7. Adding'
  BY DEF Removed, Returned, TypeOK, Worker, Adding, Runs, Balance, Together,
       OneGroup, Idle, Balanced
<1>8. Removing'
  BY DEF Removed, Returned, TypeOK, Worker, Removing, Runs, Balance, Idle,
       Balanced
<1> QED
  BY <1>1, <1>2, <1>3, <1>4, <1>5, <1>6, <1>7, <1>8

\* A worker that dies leaves the rest as it is, and the state locked.
LEMMA FailStep ==
    ASSUME IInv, Fail
    PROVE  IInv'
<1> USE GaleraAssumption DEF IInv, At, Adds, Removes, config, agent
<1>1. TypeOK'
  BY DEF Fail, TypeOK, Worker, Role, State
<1>2. OneGroup'
  BY DEF Fail, TypeOK, Worker, OneGroup, Adding, Removing, Together, Runs
<1>3. NoDeadBackend'
  BY DEF Fail, TypeOK, Worker, NoDeadBackend, Adding, Removing, Kinds, Runs,
       Balance
<1>4. Balanced'
  BY DEF Fail, TypeOK, Worker, Balanced, Adding, Removing, Runs, Balance, Idle
<1>5. Kinds'
  BY DEF Fail, TypeOK, Worker, Kinds, Adding, Removing, Runs
<1>6. Idle'
  BY DEF Fail, TypeOK, Worker, Idle, Adding, Removing
<1>7. Adding'
  BY DEF Fail, TypeOK, Worker, Adding, Runs, Balance, Together, OneGroup,
       Idle, Balanced
<1>8. Removing'
  BY DEF Fail, TypeOK, Worker, Removing, Runs, Balance, Idle, Balanced
<1> QED
  BY <1>1, <1>2, <1>3, <1>4, <1>5, <1>6, <1>7, <1>8
-----------------------------------------------------------------------------
(* The theorems. *)

\* Nothing is wrong with a service that was never started.
LEMMA InitInv == Init => IInv
BY DEF Init, IInv, TypeOK, OneGroup, NoDeadBackend, Balanced, Kinds, Idle,
   Adding, Removing, At, State

\* A step that changes nothing preserves everything.
LEMMA StutterInv == IInv /\ UNCHANGED vars => IInv'
BY DEF IInv, vars, config, agent, TypeOK, OneGroup, NoDeadBackend, Balanced,
   Kinds, Idle, Adding, Removing, At, Runs, Balance, Together

\* Every request and every step of a worker preserves the invariant.
LEMMA NextInv == IInv /\ [Next]_vars => IInv'
<1> SUFFICES ASSUME IInv, [Next]_vars PROVE IInv'
  OBVIOUS
<1>1. CASE Handle
  BY <1>1, start_serviceStep, stop_serviceStep, add_nodesStep,
     remove_nodesStep, remove_specific_nodesStep DEF Handle
<1>2. CASE Work
  BY <1>2, CreateNodesStep, StartedStep, JoinedStep, AddedStep,
     do_remove_nodesStep, HaltStep, RemovedStep, FailStep, start_mysqldStep,
     add_glbd_nodesStep, start_glbdStep, remove_glbd_nodesStep, stopStep DEF
     Work
<1>3. CASE UNCHANGED vars
  BY <1>3, StutterInv
<1> QED BY <1>1, <1>2, <1>3 DEF Next

\* The invariant holds always: what a worker has done so far is what its place
\* in _start_mysqld, _start_glbd or _do_remove_nodes says.
THEOREM Inductive == Spec => []IInv
BY InitInv, NextInv, PTL DEF Spec

\* The tables of the MySQL manager, its agents and its worker keep their types,
\* and no node is both a MySQL node and a load balancer.
THEOREM TypeCorrect == Spec => []TypeOK
<1>1. IInv => TypeOK
  BY DEF IInv
<1> QED BY Inductive, <1>1, PTL

\* The MySQL nodes that run are one replication group: start_mysqld is given the
\* addresses of nodes that are all of the group the new ones will be in.
THEOREM OneGroupAlways == Spec => []OneGroup
<1>1. IInv => OneGroup
  BY DEF IInv
<1> QED BY Inductive, <1>1, PTL

\* No load balancer of the service sends a client to a dead server:
\* _do_remove_nodes has told every one of them before it stops the first server.
THEOREM NoDeadBackendAlways == Spec => []NoDeadBackend
<1>1. IInv => NoDeadBackend
  BY DEF IInv
<1> QED BY Inductive, <1>1, PTL

\* A service that shows S_RUNNING is balanced: whatever failed before has left it
\* in a state from which only a stop leads on.
THEOREM RunningIsBalanced == Spec => []Balanced
<1>1. IInv => Balanced
  BY DEF IInv
<1> QED BY Inductive, <1>1, PTL
=============================================================================
