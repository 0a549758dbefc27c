------------------------------ MODULE AppManager ------------------------------
(***************************************************************************)
(* The application manager of ConPaaS (conpaas.core.manager) with services *)
(* of the Generic type (conpaas.services.generic.manager).                 *)
(*                                                                         *)
(* One HTTPS server thread takes requests one at a time.  A handler checks *)
(* its arguments and the state of the service, commits the request by      *)
(* setting a transient state, and starts a worker thread (_do_...) that    *)
(* talks to the director and to the agents.  Workers run concurrently with *)
(* each other and with the server thread and share, without a lock, the    *)
(* lists of nodes, the table of volumes and the state of every service.    *)
(*                                                                         *)
(* A call to the director or to an agent may fail; a worker whose          *)
(* exception nobody catches ends where it is (its service joins `died').   *)
(* A request that is refused changes nothing and is no step.               *)
(***************************************************************************)
EXTENDS Naturals, Sequences, SequencesExt

CONSTANTS
    Node,         \* the virtual machines the clouds can give
    VolName,      \* names of storage volumes
    Thread,       \* slots for the worker threads alive together (bound)
    MaxService,   \* how many services are ever added (bound)
    MaxCount,     \* the largest number of nodes asked for at once (bound)
    MaxDev,       \* the last device letter of a node (bound)
    Junk,         \* the key 'error' of an error reply, taken for a node
    None          \* Python's None

ASSUME NodeAssumption == /\ Junk \notin Node
                         /\ None \notin Node
                         /\ Junk # None
                         /\ None \notin VolName
ASSUME BoundAssumption == /\ MaxService \in Nat
                          /\ MaxCount \in Nat \ {0}
                          /\ MaxDev \in Nat
ASSUME NoneAssumption == None \notin 1..MaxService

VARIABLES
    mstate,     \* self.state of the ApplicationManager
    service_id, \* self.service_id, the last identifier given out
    instances,  \* keys of httpsserver.instances, without 0
    state,      \* service_manager.state, for each service
    nodes,      \* self.nodes, the nodes of the whole application
    snodes,     \* service_manager.nodes, in order, for each service
    master,     \* the node behind GenericManager.master_ip
    agents,     \* the length of GenericManager.agents_info
    volumes,    \* self.volumes, by name
    request,    \* the request the server thread has checked, not committed
    thread,     \* the worker threads
    up,         \* the nodes of which the director keeps a Resource
    owner,      \* Resource.service_id of every node ever created
    stops,      \* history: services a stop or a removal was asked for
    died        \* history: services a worker died for or whose call failed

vars == <<mstate, service_id, instances, state, nodes, snodes, master, agents,
          volumes, request, thread, up, owner, stops, died>>

-----------------------------------------------------------------------------
(* Types. *)

Service == 1..MaxService

State == {"INIT", "PROLOGUE", "RUNNING", "ADAPTING", "EPILOGUE", "STOPPED",
          "ERROR"}

Transient == {"PROLOGUE", "ADAPTING", "EPILOGUE"}

Item == Node \cup {Junk}

\* {'error': msg}, the director's refusal, is used where a list of nodes is
\* expected: all that the manager sees of it is its one key.
ErrorReply == <<Junk>>

Op == {"start", "add", "remove", "stop", "unregister", "mkvol", "rmvol"}

Pc == {"begin", "call", "hook", "notify", "clear", "drop", "release",
       "forget", "mount"}

Request == [op : Op, sid : Service, count : 0..MaxCount,
            vol : VolName \cup {None}, at : Node \cup {None}]

\* A worker: what it does and where it is, the service it was started for, the
\* number of nodes it was asked for, its local list `nodes' (those it has still
\* to take off the lists, when it removes), the nodes it has taken off, and the
\* volume (name, node, device) it works on.
Worker == [op : Op, pc : Pc, sid : Service, count : 0..MaxCount,
           nodes : Seq(Item), gone : SUBSET Node,
           vol : VolName \cup {None}, at : Node \cup {None}, dev : 0..MaxDev]

ASSUME WorkerAssumption == None \notin Worker

TypeOK ==
    /\ mstate \in State
    /\ service_id \in 0..MaxService
    /\ instances \subseteq 1..service_id
    /\ state \in [Service -> State]
    /\ nodes \subseteq Item
    /\ snodes \in [Service -> Seq(Item)]
    /\ master \in [Service -> Node \cup {None}]
    /\ agents \in [Service -> Nat]
    /\ volumes \in [VolName -> [node : Node, dev : 0..MaxDev] \cup {None}]
    /\ request \in Request \cup {None}
    /\ thread \in [Thread -> Worker \cup {None}]
    /\ up \subseteq Node
    /\ owner \in [Node -> Service \cup {None}]
    /\ stops \subseteq Service
    /\ died \subseteq Service

Init ==
    /\ mstate = "RUNNING"
    /\ service_id = 0
    /\ instances = {}
    /\ state = [s \in Service |-> "INIT"]
    /\ nodes = {}
    /\ snodes = [s \in Service |-> <<>>]
    /\ master = [s \in Service |-> None]
    /\ agents = [s \in Service |-> 0]
    /\ volumes = [v \in VolName |-> None]
    /\ request = None
    /\ thread = [t \in Thread |-> None]
    /\ up = {}
    /\ owner = [n \in Node |-> None]
    /\ stops = {}
    /\ died = {}

-----------------------------------------------------------------------------
(* The server thread.  A handler's checks read the state of the service; a  *)
(* call to the director (check_credits) or to the agents (scripts running?) *)
(* is part of them, so workers move between the checks and the commit.      *)

Checked(op, s, k, v, n) ==
    /\ request = None
    /\ s \in instances
    /\ request' = [op |-> op, sid |-> s, count |-> k, vol |-> v, at |-> n]
    /\ UNCHANGED <<mstate, service_id, instances, state, nodes, snodes, master,
                   agents, volumes, thread, up, owner, stops, died>>

\* A new service; the request is served at once and restores S_RUNNING.
add_service ==
    /\ request = None
    /\ service_id < MaxService
    /\ service_id' = service_id + 1
    /\ instances' = instances \cup {service_id'}
    /\ mstate' = "RUNNING"
    /\ UNCHANGED <<state, nodes, snodes, master, agents, volumes, request,
                   thread, up, owner, stops, died>>

\* get_starting_nodes asks for one node, the master.
start_service(s) ==
    /\ state[s] \in {"INIT", "STOPPED"}
    /\ Checked("start", s, 1, None, None)

stop_service(s) == Checked("stop", s, 0, None, None)

remove_service(s) == Checked("unregister", s, 0, None, None)

add_nodes(s, k) ==
    /\ state[s] = "RUNNING"
    /\ Checked("add", s, k, None, None)

\* check_remove_nodes: at least one node has to stay.
remove_nodes(s, k) ==
    /\ state[s] = "RUNNING"
    /\ k < Len(snodes[s])
    /\ Checked("remove", s, k, None, None)

\* Mutant of create_volume: nobody asks whether the name is taken.
create_volumeAny(s, v, n) ==
    /\ Junk \notin nodes
    /\ n \in nodes \cap ToSet(snodes[s])
    /\ state[s] = "RUNNING"
    /\ Checked("mkvol", s, 0, v, n)

\* The handler raises at once when an 'error' is among the nodes; the service
\* is the one that lists the node (get_service_id_by_vm_id).
create_volume(s, v, n) ==
    /\ Junk \notin nodes
    /\ n \in nodes \cap ToSet(snodes[s])
    /\ volumes[v] = None
    /\ state[s] = "RUNNING"
    /\ Checked("mkvol", s, 0, v, n)

delete_volume(s, v) ==
    /\ Junk \notin nodes
    /\ volumes[v] # None
    /\ volumes[v].node \in nodes \cap ToSet(snodes[s])
    /\ state[s] = "RUNNING"
    /\ Checked("rmvol", s, 0, v, volumes[v].node)

\* Mutant of CommitState: only start and stop set a transient state.
CommitStateOnlyLifecycle(op, old) ==
    CASE op = "start" -> "PROLOGUE"
      [] op = "stop" -> "EPILOGUE"
      [] OTHER -> old

\* The state a handler sets before it starts its worker; remove_service sets
\* the state of the application manager instead.
CommitState(op, old) ==
    CASE op = "start" -> "PROLOGUE"
      [] op = "stop" -> "EPILOGUE"
      [] op = "unregister" -> old
      [] OTHER -> "ADAPTING"

\* Where the worker of a request begins: start and add look the service up
\* first, the volume workers are handed the service.
FirstPc(op) ==
    CASE op \in {"start", "add"} -> "begin"
      [] op \in {"mkvol", "rmvol"} -> "call"
      [] OTHER -> "hook"

\* stop_service looks the service up again after its check: gone, KeyError.
Vanished == request.op = "stop" /\ request.sid \notin instances

Refuse ==
    /\ request # None
    /\ Vanished
    /\ request' = None
    /\ UNCHANGED <<mstate, service_id, instances, state, nodes, snodes, master,
                   agents, volumes, thread, up, owner, stops, died>>

Commit(t) ==
    /\ request # None
    /\ ~Vanished
    /\ thread[t] = None
    /\ request' = None
    /\ thread' = [thread EXCEPT ![t] =
           [op |-> request.op, pc |-> FirstPc(request.op), sid |-> request.sid,
            count |-> request.count, nodes |-> <<>>, gone |-> {},
            vol |-> request.vol, at |-> request.at, dev |-> 0]]
    /\ state' = [state EXCEPT ![request.sid] = CommitState(request.op, @)]
    /\ mstate' = IF request.op = "unregister" THEN "ADAPTING" ELSE mstate
    /\ stops' = IF request.op \in {"stop", "unregister"}
                THEN stops \cup {request.sid} ELSE stops
    /\ UNCHANGED <<service_id, instances, nodes, snodes, master, agents,
                   volumes, up, owner, died>>

-----------------------------------------------------------------------------
(* The workers. *)

At(t, ops, pc) ==
    /\ thread[t] # None
    /\ thread[t].op \in ops
    /\ thread[t].pc = pc

Goto(t, pc) == thread' = [thread EXCEPT ![t].pc = pc]

\* The worker returns.
Done(t) == thread' = [thread EXCEPT ![t] = None] /\ died' = died

\* An exception that nobody catches ends the worker.
Die(t) == /\ thread' = [thread EXCEPT ![t] = None]
          /\ died' = died \cup {thread[t].sid}

\* The worker returns after it has set the state of its service.
Finish(t, st) == Done(t) /\ state' = [state EXCEPT ![thread[t].sid] = st]

\* service_manager = self.httpsserver.instances[service_id]
Begin(t) ==
    /\ At(t, {"start", "add"}, "begin")
    /\ IF thread[t].sid \in instances
       THEN Goto(t, "call") /\ UNCHANGED died
       ELSE Die(t)
    /\ UNCHANGED <<mstate, service_id, instances, state, nodes, snodes, master,
                   agents, volumes, request, up, owner, stops>>

\* The lists of k virtual machines that never existed before.
Fresh(k) == {q \in [1..k -> {n \in Node : owner[n] = None}] :
               \A i, j \in 1..k : q[i] = q[j] => i = j}

\* The director starts the nodes of q for service s.
Launch(q, s) ==
    /\ up' = up \cup ToSet(q)
    /\ owner' = [n \in Node |-> IF n \in ToSet(q) THEN s ELSE owner[n]]

\* Mutant of Deliver: nodes that are added replace the list of the service.
DeliverReplacing(t, q) ==
    /\ nodes' = nodes \cup ToSet(q)
    /\ thread' = [thread EXCEPT ![t].pc = "hook", ![t].nodes = q]
    /\ snodes' = [snodes EXCEPT ![thread[t].sid] = q]
    /\ UNCHANGED died

\* What the worker does with a reply: self.nodes += nodes, then the list of the
\* service is replaced (start) or extended (add; the extension of an error
\* reply by a list is a TypeError).
Deliver(t, q) ==
    LET s == thread[t].sid IN
    /\ nodes' = nodes \cup ToSet(q)
    /\ IF thread[t].op = "add" /\ snodes[s] = ErrorReply
       THEN Die(t) /\ UNCHANGED snodes
       ELSE /\ thread' = [thread EXCEPT ![t].pc = "hook", ![t].nodes = q]
            /\ snodes' = [snodes EXCEPT ![s] =
                             IF thread[t].op = "add" THEN @ \o q ELSE q]
            /\ UNCHANGED died

\* callbacker.create_nodes: all or some of the nodes came up.
CreateNodes(t) ==
    /\ At(t, {"start", "add"}, "call")
    /\ \E k \in 1..thread[t].count : \E q \in Fresh(k) :
          Launch(q, thread[t].sid) /\ Deliver(t, q)
    /\ UNCHANGED <<mstate, service_id, instances, state, master, agents,
                   volumes, request, stops>>

\* The credit ran out after the manager checked it: an error reply.
CreateRefused(t) ==
    /\ At(t, {"start", "add"}, "call")
    /\ Deliver(t, ErrorReply)
    /\ UNCHANGED <<mstate, service_id, instances, state, master, agents,
                   volumes, request, up, owner, stops>>

\* The call failed, or no node came up: None is not a list, a TypeError.
CreateFailed(t) ==
    /\ At(t, {"start", "add"}, "call")
    /\ Die(t)
    /\ UNCHANGED <<mstate, service_id, instances, state, nodes, snodes, master,
                   agents, volumes, request, up, owner, stops>>

\* The nodes came up but the answer was lost.
CreateLost(t) ==
    /\ At(t, {"start", "add"}, "call")
    /\ \E k \in 1..thread[t].count : \E q \in Fresh(k) :
          Launch(q, thread[t].sid)
    /\ Die(t)
    /\ UNCHANGED <<mstate, service_id, instances, state, nodes, snodes, master,
                   agents, volumes, request, stops>>

\* GenericManager.on_start: every exception is caught and means S_ERROR.
on_start(t) ==
    LET s == thread[t].sid
        new == thread[t].nodes IN
    /\ At(t, {"start"}, "hook")
    /\ \/ /\ Junk \notin ToSet(new)
          /\ agents' = [agents EXCEPT ![s] = @ + 1]
          /\ master' = [master EXCEPT ![s] = new[1]]
          /\ Finish(t, "RUNNING")
       \/ Finish(t, "ERROR") /\ UNCHANGED <<agents, master>>
    /\ UNCHANGED <<mstate, service_id, instances, nodes, snodes, volumes,
                   request, up, owner, stops>>

\* GenericManager.on_add_nodes, up to the first call to an agent: an 'error'
\* among the nodes is an AttributeError.
on_add_nodes(t) ==
    LET s == thread[t].sid IN
    /\ At(t, {"add"}, "hook")
    /\ IF Junk \in ToSet(thread[t].nodes) \cup ToSet(snodes[s])
       THEN Die(t) /\ UNCHANGED agents
       ELSE /\ agents' = [agents EXCEPT ![s] = @ + Len(thread[t].nodes)]
            /\ Goto(t, "notify")
            /\ UNCHANGED died
    /\ UNCHANGED <<mstate, service_id, instances, state, nodes, snodes, master,
                   volumes, request, up, owner, stops>>

\* The agents are initialised, given the code and notified.  A failed call
\* raises Exception, never the AgentException that would mean S_ERROR.
AddNotify(t) ==
    /\ At(t, {"add"}, "notify")
    /\ \/ Finish(t, "RUNNING")
       \/ Die(t) /\ UNCHANGED state
    /\ UNCHANGED <<mstate, service_id, instances, nodes, snodes, master, agents,
                   volumes, request, up, owner, stops>>

\* Mutant of Popped: nodes are taken from the front of the list.
PoppedFromFront(q, k) == [i \in 1..k |-> q[i]]

\* The last k elements of q, from the end, and what stays.
Popped(q, k) == [i \in 1..k |-> q[Len(q) + 1 - i]]
Kept(q, k) == SubSeq(q, 1, Len(q) - k)

\* Mutant of Fits: agents_info is taken to be as long as the list of nodes.
FitsBlindly(s, k) ==
    s \in instances /\ Junk \notin ToSet(snodes[s]) /\ k <= Len(snodes[s])

\* k nodes can be popped from the lists of service s: the service is still
\* registered, no 'error' is among its nodes and both lists are long enough.
Fits(s, k) ==
    /\ s \in instances
    /\ Junk \notin ToSet(snodes[s])
    /\ k <= Len(snodes[s])
    /\ k <= agents[s]

\* GenericManager.on_remove_nodes works on a copy of the list of nodes.  When
\* it fails it may have popped some entries of agents_info; a service left
\* without nodes is stopped, the nodes that stay are notified.
on_remove_nodes(t) ==
    LET s == thread[t].sid
        k == thread[t].count
        cp == snodes[s] IN
    /\ At(t, {"remove"}, "hook")
    /\ \/ /\ ~Fits(s, k)
          /\ Die(t)
          /\ \E left \in 0..agents[s] : agents' = [agents EXCEPT ![s] = left]
          /\ UNCHANGED <<state, master>>
       \/ /\ Fits(s, k)
          /\ agents' = [agents EXCEPT ![s] = @ - k]
          /\ thread' = [thread EXCEPT ![t].nodes = Popped(cp, k),
                            ![t].pc = IF Kept(cp, k) = <<>>
                                      THEN "drop" ELSE "notify"]
          /\ IF Kept(cp, k) = <<>>
             THEN /\ master' = [master EXCEPT ![s] = None]
                  /\ state' = [state EXCEPT ![s] = "STOPPED"]
             ELSE UNCHANGED <<master, state>>
          /\ UNCHANGED died
    /\ UNCHANGED <<mstate, service_id, instances, nodes, snodes, volumes,
                   request, up, owner, stops>>

\* Mutant of RemoveNotify: the state is not set.
RemoveNotifySilent(t) ==
    /\ At(t, {"remove"}, "notify")
    /\ Goto(t, "drop")
    /\ UNCHANGED <<mstate, service_id, instances, state, nodes, snodes, master,
                   agents, volumes, request, up, owner, stops, died>>

\* The nodes that stay are notified, then the service is S_RUNNING: the nodes
\* that go are still on the lists.
RemoveNotify(t) ==
    /\ At(t, {"remove"}, "notify")
    /\ \/ /\ Goto(t, "drop")
          /\ state' = [state EXCEPT ![thread[t].sid] = "RUNNING"]
          /\ UNCHANGED died
       \/ Die(t) /\ UNCHANGED state
    /\ UNCHANGED <<mstate, service_id, instances, nodes, snodes, master, agents,
                   volumes, request, up, owner, stops>>

\* GenericManager.on_stop; a service that was never started is just S_STOPPED.
on_stop(t) ==
    LET s == thread[t].sid
        after == IF thread[t].op = "unregister"
                 THEN Goto(t, "forget") /\ UNCHANGED died ELSE Done(t) IN
    /\ At(t, {"stop", "unregister"}, "hook")
    /\ \/ /\ s \in instances /\ state[s] = "INIT"
          /\ state' = [state EXCEPT ![s] = "STOPPED"]
          /\ after
          /\ UNCHANGED <<master, agents>>
       \/ /\ s \in instances /\ state[s] # "INIT" /\ Junk \notin ToSet(snodes[s])
          /\ master' = [master EXCEPT ![s] = None]
          /\ agents' = [agents EXCEPT ![s] = 0]
          /\ thread' = [thread EXCEPT ![t].nodes = snodes[s], ![t].pc = "clear"]
          /\ UNCHANGED <<state, died>>
       \/ /\ \/ s \notin instances
             \/ state[s] # "INIT" /\ Junk \in ToSet(snodes[s])
          /\ Die(t)
          /\ UNCHANGED <<state, master, agents>>
    /\ UNCHANGED <<mstate, service_id, instances, nodes, snodes, volumes,
                   request, up, owner, stops>>

\* Mutant of ClearService: the list of the service is not emptied.
ClearServiceNot(t) ==
    /\ At(t, {"stop", "unregister"}, "clear")
    /\ state' = [state EXCEPT ![thread[t].sid] = "STOPPED"]
    /\ Goto(t, IF thread[t].nodes = <<>> THEN "release" ELSE "drop")
    /\ UNCHANGED <<mstate, service_id, instances, nodes, snodes, master, agents,
                   volumes, request, up, owner, stops, died>>

\* service_manager.nodes = []; state_set(S_STOPPED)
ClearService(t) ==
    LET s == thread[t].sid IN
    /\ At(t, {"stop", "unregister"}, "clear")
    /\ snodes' = [snodes EXCEPT ![s] = <<>>]
    /\ state' = [state EXCEPT ![s] = "STOPPED"]
    /\ Goto(t, IF thread[t].nodes = <<>> THEN "release" ELSE "drop")
    /\ UNCHANGED <<mstate, service_id, instances, nodes, master, agents,
                   volumes, request, up, owner, stops, died>>

\* The volumes of node n leave the table.
DeleteVolumes(n) ==
    volumes' = [v \in VolName |->
                  IF volumes[v] # None /\ volumes[v].node = n
                  THEN None ELSE volumes[v]]

\* The worker goes on to its next node, or to the director.
NextNode(t, n) ==
    thread' = [thread EXCEPT ![t].nodes = Tail(@), ![t].gone = @ \cup {n},
                   ![t].pc = IF Tail(thread[t].nodes) = <<>>
                             THEN "release" ELSE "drop"]

\* Mutant of Listed: a node that is no longer there is no error.
ListedOrNot(n) == Junk \notin nodes

\* filter(lambda n: n.id == node.id, self.nodes) finds the node.
Listed(n) == Junk \notin nodes /\ n \in nodes

\* One round of the loop of _do_stop_service or _do_remove_nodes: the volumes
\* of the node go, then the node leaves self.nodes and (remove) the list of
\* the service; a node that is not there is an IndexError.
DropNode(t) ==
    LET s == thread[t].sid
        n == Head(thread[t].nodes)
        places == {i \in 1..Len(snodes[s]) : snodes[s][i] = n} IN
    /\ At(t, {"remove", "stop", "unregister"}, "drop")
    /\ DeleteVolumes(n)
    /\ nodes' = IF Listed(n) THEN nodes \ {n} ELSE nodes
    /\ \/ /\ Listed(n) /\ thread[t].op # "remove"
          /\ NextNode(t, n)
          /\ UNCHANGED <<snodes, died>>
       \/ /\ Listed(n) /\ thread[t].op = "remove"
          /\ \E i \in places : snodes' = [snodes EXCEPT ![s] = RemoveAt(@, i)]
          /\ NextNode(t, n)
          /\ UNCHANGED died
       \/ /\ ~Listed(n) \/ (thread[t].op = "remove" /\ places = {})
          /\ Die(t)
          /\ UNCHANGED snodes
    /\ UNCHANGED <<mstate, service_id, instances, state, master, agents,
                   request, up, owner, stops>>

\* callbacker.remove_nodes: its result, a failure too, is ignored.
Release(t) ==
    /\ At(t, {"remove", "stop", "unregister"}, "release")
    /\ \/ up' = up \ thread[t].gone /\ died' = died
       \/ up' = up /\ died' = died \cup {thread[t].sid}
    /\ thread' = [thread EXCEPT ![t] =
                     IF @.op = "unregister"
                     THEN [@ EXCEPT !.pc = "forget", !.gone = {}]
                     ELSE None]
    /\ UNCHANGED <<mstate, service_id, instances, state, nodes, snodes, master,
                   agents, volumes, request, owner, stops>>

\* Mutant of Forget: the application manager stays S_ADAPTING.
ForgetQuietly(t) ==
    /\ At(t, {"unregister"}, "forget")
    /\ instances' = instances \ {thread[t].sid}
    /\ Done(t)
    /\ UNCHANGED <<mstate, service_id, state, nodes, snodes, master, agents,
                   volumes, request, up, owner, stops>>

\* del self.httpsserver.instances[service_id], a KeyError the second time.
Forget(t) ==
    LET s == thread[t].sid IN
    /\ At(t, {"unregister"}, "forget")
    /\ IF s \in instances
       THEN instances' = instances \ {s} /\ mstate' = "RUNNING" /\ Done(t)
       ELSE Die(t) /\ UNCHANGED <<instances, mstate>>
    /\ UNCHANGED <<service_id, state, nodes, snodes, master, agents, volumes,
                   request, up, owner, stops>>

-----------------------------------------------------------------------------
(* The workers of volumes. *)

\* Mutant of dev_names_in_use: no device is ever in use.
dev_names_unused(n) == {}

\* The devices that the table gives to node n.
dev_names_in_use(n) ==
    {volumes[v].dev : v \in {w \in VolName :
                               volumes[w] # None /\ volumes[w].node = n}}

\* The volume is created in the cloud and the first device of the node that
\* the table does not use is chosen; any exception means S_ERROR.
CreateVolume(t) ==
    LET n == thread[t].at IN
    /\ At(t, {"mkvol"}, "call")
    /\ \/ /\ Junk \notin nodes /\ n \in nodes
          /\ \E d \in 0..MaxDev :
                /\ d \notin dev_names_in_use(n)
                /\ \A e \in 0..MaxDev : e < d => e \in dev_names_in_use(n)
                /\ thread' = [thread EXCEPT ![t].pc = "mount", ![t].dev = d]
          /\ UNCHANGED <<state, died>>
       \/ Finish(t, "ERROR")
    /\ UNCHANGED <<mstate, service_id, instances, nodes, snodes, master, agents,
                   volumes, request, up, owner, stops>>

\* The volume is attached (whose failure goes unseen) and mounted.
MountVolume(t) ==
    /\ At(t, {"mkvol"}, "mount")
    /\ \/ /\ volumes' = [volumes EXCEPT ![thread[t].vol] =
                           [node |-> thread[t].at, dev |-> thread[t].dev]]
          /\ Finish(t, "RUNNING")
       \/ Finish(t, "ERROR") /\ UNCHANGED volumes
    /\ UNCHANGED <<mstate, service_id, instances, nodes, snodes, master, agents,
                   request, up, owner, stops>>

\* Unmounting and detaching may fail unseen; a failed destruction is a
\* TypeError, and so is an entry that left the table meanwhile (KeyError).
DestroyVolume(t) ==
    LET v == thread[t].vol IN
    /\ At(t, {"rmvol"}, "call")
    /\ \/ /\ volumes[v] # None
          /\ volumes' = [volumes EXCEPT ![v] = None]
          /\ Finish(t, "RUNNING")
       \/ Die(t) /\ UNCHANGED <<volumes, state>>
    /\ UNCHANGED <<mstate, service_id, instances, nodes, snodes, master, agents,
                   request, up, owner, stops>>

-----------------------------------------------------------------------------
(* The specification. *)

Handle ==
    \/ add_service
    \/ \E s \in Service :
         \/ start_service(s)
         \/ stop_service(s)
         \/ remove_service(s)
         \/ \E k \in 1..MaxCount : add_nodes(s, k) \/ remove_nodes(s, k)
         \/ \E v \in VolName :
              \/ \E n \in Node : create_volume(s, v, n)
              \/ delete_volume(s, v)

Serve == Refuse \/ \E t \in Thread : Commit(t)

Work(t) ==
    \/ Begin(t) \/ CreateNodes(t) \/ CreateRefused(t) \/ CreateFailed(t)
    \/ CreateLost(t) \/ on_start(t) \/ on_add_nodes(t) \/ AddNotify(t)
    \/ on_remove_nodes(t) \/ RemoveNotify(t) \/ on_stop(t) \/ ClearService(t)
    \/ DropNode(t) \/ Release(t) \/ Forget(t)
    \/ CreateVolume(t) \/ MountVolume(t) \/ DestroyVolume(t)

Next == Handle \/ Serve \/ \E t \in Thread : Work(t)

Spec == Init /\ [][Next]_vars

\* Threads run and calls return, if only by failing; nobody has to send a
\* request.
Fairness == WF_vars(Serve) /\ \A t \in Thread : WF_vars(Work(t))

FairSpec == Spec /\ Fairness

-----------------------------------------------------------------------------
(* What the manager promises. *)

\* The worker in slot t, of service s, has still to set the state it will
\* leave the service in.
Busy(t, s) ==
    /\ thread[t] # None
    /\ thread[t].sid = s
    /\ thread[t].pc \in {"begin", "call", "hook", "notify", "mount"}

\* The state of a service that nobody stops is a lock (check_state in the
\* handlers): at most one worker is busy for it and the service shows it, and
\* what a handler has checked is still true when it commits.
StateIsLock ==
    \A s \in Service \ stops :
      /\ \A t, u \in Thread : Busy(t, s) /\ Busy(u, s) => t = u
      /\ \A t \in Thread : Busy(t, s) =>
           state[s] = IF thread[t].op = "start" THEN "PROLOGUE" ELSE "ADAPTING"
      /\ (/\ request # None /\ request.sid = s
          /\ request.op \notin {"stop", "unregister"}) =>
           /\ \A t \in Thread : ~Busy(t, s)
           /\ IF request.op = "start" THEN state[s] \in {"INIT", "STOPPED"}
              ELSE state[s] = "RUNNING"

\* Whatever races with what, the manager lists no virtual machine that it has
\* handed back to the director, nor one of another service.
NodesLive ==
    /\ nodes \subseteq up \cup {Junk}
    /\ \A s \in Service :
         /\ ToSet(snodes[s]) \subseteq nodes
         /\ \A n \in ToSet(snodes[s]) \ {Junk} : owner[n] = s

\* No virtual machine is handed back twice or for another service: leaving
\* self.nodes is what gives a worker the right to release a node.
ReleasedOnce ==
    \A t \in Thread : thread[t] # None =>
      /\ thread[t].gone \subseteq up \ nodes
      /\ \A n \in thread[t].gone : owner[n] = thread[t].sid
      /\ \A u \in Thread \ {t} :
           thread[u] # None => thread[t].gone \cap thread[u].gone = {}

\* While no call fails and nobody stops the service, the user pays for no node
\* that the service has lost sight of.
NoLeak ==
    \A n \in up : owner[n] \notin stops \cup died =>
      \/ n \in nodes \cap ToSet(snodes[owner[n]])
      \/ \E t \in Thread : /\ thread[t] # None
                           /\ thread[t].sid = owner[n]
                           /\ n \in thread[t].gone \cup ToSet(thread[t].nodes)

\* A running Generic service that nobody stops has nodes, and the first is the
\* master: concurrent removals never leave a running service without it.
RunningHasMaster ==
    \A s \in Service \ stops : state[s] = "RUNNING" =>
      /\ snodes[s] # <<>>
      /\ master[s] = Head(snodes[s])

\* Two volumes of a node have different devices, as long as nobody stops the
\* service of the node.
DevicesDistinct ==
    \A v, w \in VolName :
      (/\ v # w
       /\ volumes[v] # None /\ volumes[w] # None
       /\ volumes[v].node = volumes[w].node
       /\ owner[volumes[v].node] \notin stops)
        => volumes[v].dev # volumes[w].dev

\* userguide.rst:856 calls the name of a volume unique: create_volume checks it
\* against a table that its worker fills minutes later, and yet an entry is never
\* overwritten, except by a volume of another service or of one that was stopped.
NamesKept ==
    [][\A v \in VolName :
         volumes[v] # None /\ volumes'[v] \notin {None, volumes[v]} =>
           \/ owner[volumes'[v].node] # owner[volumes[v].node]
           \/ owner[volumes'[v].node] \in stops]_vars

\* The life of a virtual machine is that of NodePool: given once, listed, taken
\* off the list by one worker and handed back at most once, by that worker.
Pool == INSTANCE NodePool WITH
          given <- {n \in Node : owner[n] # None},
          running <- up,
          listed <- nodes \ {Junk},
          leaving <- UNION {IF thread[t] = None THEN {} ELSE thread[t].gone :
                              t \in Thread}

ImplementsNodePool == Pool!Spec

\* A service leaves its transient state unless a worker died or a call failed.
TransientEnds ==
    \A s \in Service :
      state[s] \in Transient ~> (state[s] \notin Transient \/ s \in died)

\* The application manager leaves S_ADAPTING unless a worker died.
RemovalEnds == mstate = "ADAPTING" ~> (mstate = "RUNNING" \/ died # {})

-----------------------------------------------------------------------------
(* What a comment says of the manager and the code does not do. *)

\* manager.py:50 "manager is in a transient state - frontend will keep polling
\* until manager out of transient state": the manager gets out of it, if nobody
\* stops or removes the service in the meantime.
PollingEnds ==
    \A s \in Service :
      state[s] \in Transient ~> (state[s] \notin Transient \/ s \in stops)
=============================================================================
