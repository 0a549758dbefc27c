------------------------------- MODULE WebHosting -------------------------------
(***************************************************************************)
(* The web hosting service: BasicWebserversManager and PHPManager          *)
(* (conpaas.services.webservers.manager) with the agents on their nodes.   *)
(*                                                                         *)
(* A node has one or more roles: proxy, web and backend.  A small service  *)
(* packs all three on one node; when the first stand-alone node of a role  *)
(* is added the packed one loses that role, and when the last stand-alone  *)
(* node is removed a proxy takes the role back.  The manager records roles *)
(* first and then calls the agents one after the other: daemons are        *)
(* started, proxies told which nodes to route to, daemons stopped.         *)
(*                                                                         *)
(* A worker is the program of the calls that its hook still has to make.   *)
(* Beside it the server thread itself updates the proxies (cdn_enable and  *)
(* update_nodes_weight).  A call may fail: an agent that refuses it makes   *)
(* the state S_ERROR, one that cannot be reached leaves the state alone,   *)
(* and both end the worker.                                                *)
(* Nobody stops the service while a worker is alive: AppManager is about   *)
(* such stops.  Uploads and deletions of code are as in GenericCode.       *)
(***************************************************************************)
EXTENDS Naturals, Sequences, FiniteSets

CONSTANTS
    Node,       \* the virtual machines that can be up together (bound)
    Version,    \* code versions
    MaxCount,   \* the most nodes of a role asked for at once (bound)
    None        \* Python's None: no worker, no request, no code

ASSUME WebAssumption == /\ IsFiniteSet(Node)
                        /\ MaxCount \in Nat \ {0}
                        /\ None \notin Node \cup Version

VARIABLES
    state,      \* self.state of the service
    count,      \* config.proxy_count, web_count and backend_count
    roles,      \* isRunningProxy, isRunningWeb, isRunningBackend of every node
    nodes,      \* keys of config.serviceNodes
    up,         \* the virtual machines of the service
    current,    \* config.currentCodeVersion
    cdn,        \* config.cdn is an address
    daemons,    \* the daemons every agent runs (its class files)
    routes,     \* the web_list and fpm_list every agent's proxy was given
    code,       \* the code version of every agent
    worker,     \* the worker thread
    request,    \* the request that updates the proxies in the server thread
    failed,     \* history: since the last stop a call failed, or a start got
                \* fewer nodes than it asked for
    raced,      \* history: cdn_enable ran beside a worker
    misplaced   \* history: a start gave nobody the backend role

config == <<count, roles, nodes, up, current, cdn>>
agent == <<daemons, routes, code>>
history == <<failed, raced, misplaced>>
vars == <<state, config, agent, worker, request, history>>

-----------------------------------------------------------------------------
(* Types. *)

Role == {"proxy", "web", "backend"}

State == {"INIT", "PROLOGUE", "RUNNING", "ADAPTING", "EPILOGUE", "STOPPED", "ERROR"}

\* What a proxy routes to.
Route == [web : SUBSET Node, backend : SUBSET Node]
NoRoute == [web |-> {}, backend |-> {}]

\* A loop over the agents of some nodes that makes the same call to each.
Call == [do : {"scalaris", "create", "update", "stop", "code"}, role : Role \cup {None},
         on : SUBSET Node]

Worker == [op : {"start", "add", "remove", "stop", "configure"},
           want : [Role -> Nat], version : Version \cup {None}, php : BOOLEAN,
           todo : Seq(Call) \cup {None}]

ASSUME NoneAssumption == /\ None \notin Role
                         /\ None \notin Worker
                         /\ None \notin Seq(Call)
                         /\ None \notin [route : Route, cdn : BOOLEAN, on : SUBSET Node]

TypeOK ==
    /\ state \in State
    /\ count \in [Role -> Nat]
    /\ roles \in [Node -> SUBSET Role]
    /\ nodes \subseteq up
    /\ up \subseteq Node
    /\ current \in Version
    /\ cdn \in BOOLEAN
    /\ daemons \in [Node -> SUBSET Role]
    /\ routes \in [Node -> Route]
    /\ code \in [Node -> Version \cup {None}]
    /\ worker \in Worker \cup {None}
    /\ request \in [route : Route, cdn : BOOLEAN, on : SUBSET Node] \cup {None}
    /\ failed \in BOOLEAN /\ raced \in BOOLEAN /\ misplaced \in BOOLEAN

\* One of each packed on one node is what a new service asks for.
Init ==
    /\ state = "INIT"
    /\ count = [r \in Role |-> IF r = "proxy" THEN 1 ELSE 0]
    /\ roles = [n \in Node |-> {}]
    /\ nodes = {}
    /\ up = {}
    /\ current \in Version
    /\ cdn = FALSE
    /\ daemons = [n \in Node |-> {}]
    /\ routes = [n \in Node |-> NoRoute]
    /\ code = [n \in Node |-> None]
    /\ worker = None
    /\ request = None
    /\ failed = FALSE /\ raced = FALSE /\ misplaced = FALSE

-----------------------------------------------------------------------------
(* The configuration. *)

\* getProxyServiceNodes, getWebServiceNodes, getBackendServiceNodes; ns and rs
\* are the nodes and their roles.  The order of the dictionary is arbitrary.
Having(r, ns, rs) == {n \in ns : r \in rs[n]}
With(r) == Having(r, nodes, roles)

\* What getWebTuples and getBackendTuples tell a proxy.
TuplesNow == [web |-> With("web"), backend |-> With("backend")]

\* Mutant of Recount: a packed node counts as a stand-alone one.
RecountPacked(ns, rs) == [r \in Role |-> Cardinality(Having(r, ns, rs))]

\* The counts after an addition or a removal: one web or backend node that is
\* a proxy too is packed, and counts for nothing.
Recount(ns, rs) ==
    [r \in Role |->
       LET h == Having(r, ns, rs) IN
       IF r # "proxy" /\ Cardinality(h) = 1 /\ h \subseteq Having("proxy", ns, rs)
       THEN 0 ELSE Cardinality(h)]

\* get_starting_nodes: how many nodes of which roles a start asks for.  With a
\* packed backend beside stand-alone web nodes the proxy gets the web role.
StartingNodes(c) ==
    CASE c["proxy"] = 1 /\ c["web"] = 0 /\ c["backend"] = 0 ->
           <<Role>>
      [] c["proxy"] = 1 /\ c["web"] = 0 /\ c["backend"] > 0 ->
           <<{"proxy", "web"}>> \o [i \in 1..c["backend"] |-> {"backend"}]
      [] c["proxy"] = 1 /\ c["web"] > 0 /\ c["backend"] = 0 ->
           <<{"proxy", "web"}>> \o [i \in 1..c["web"] |-> {"web"}]
      [] OTHER ->
           [i \in 1..c["proxy"] |-> {"proxy"}]
             \o [i \in 1..c["web"] |-> {"web"}]
             \o [i \in 1..c["backend"] |-> {"backend"}]

\* A start that packs nothing has at least one node of every role.
StartingCounts(c) ==
    IF c["proxy"] = 1 /\ (c["web"] = 0 \/ c["backend"] = 0) THEN c
    ELSE [r \in Role |-> IF c[r] < 1 THEN 1 ELSE c[r]]

\* The role of every node of an addition.
AddedNodes(want) ==
    [i \in 1..want["proxy"] |-> {"proxy"}]
      \o [i \in 1..want["web"] |-> {"web"}]
      \o [i \in 1..want["backend"] |-> {"backend"}]

-----------------------------------------------------------------------------
(* The requests. *)

Wants == {w \in [Role -> 0..MaxCount] : \E r \in Role : w[r] > 0}

Nothing == [r \in Role |-> 0]

\* The handler sets the state and starts a worker whose program is worked out
\* when its hook begins (todo = None until then).  Bound: all that is asked of a
\* service after a failure is a stop.
Start(op, st, want, v, php) ==
    /\ request = None /\ worker = None
    /\ failed => op = "stop"
    /\ state' = st
    /\ worker' = [op |-> op, want |-> want, version |-> v,
                   php |-> php, todo |-> None]
    /\ UNCHANGED <<config, agent, request, history>>

start_service == /\ state \in {"INIT", "STOPPED"}
                 /\ Start("start", "PROLOGUE", Nothing, None, FALSE)

stop_service == Start("stop", "EPILOGUE", Nothing, None, FALSE)

\* check_add_nodes: several proxies need stand-alone web and backend nodes.
add_nodes(w) ==
    /\ state = "RUNNING"
    /\ ~ /\ w["proxy"] + count["proxy"] > 1
         /\ w["web"] + count["web"] = 0 \/ w["backend"] + count["backend"] = 0
    /\ Start("add", "ADAPTING", w, None, FALSE)

\* check_remove_nodes: a proxy stays, and unless it will be the only one a
\* stand-alone node of each other role stays too.
Enough(w) ==
    /\ count["proxy"] > w["proxy"]
    /\ \A r \in {"web", "backend"} :
         /\ count[r] >= w[r]
         /\ count["proxy"] - w["proxy"] > 1 => count[r] > w[r]

remove_nodes(w) ==
    /\ state = "RUNNING"
    /\ Enough(w)
    /\ Start("remove", "ADAPTING", w, None, FALSE)

\* A code version, settings of PHP, or both.
update_php_configuration(v, php) ==
    /\ v # None \/ php
    /\ \/ /\ state \in {"INIT", "STOPPED"}
          /\ request = None /\ worker = None
          /\ current' = IF v = None THEN current ELSE v
          /\ UNCHANGED <<state, count, roles, nodes, up, cdn, agent, worker,
                         request, history>>
       \/ /\ state = "RUNNING"
          /\ Start("configure", "ADAPTING", Nothing, v, php)

\* _update_proxy in the server thread: the lists are made once, then every
\* proxy is called.
UpdateProxies(c) ==
    /\ request = None /\ ~failed
    /\ request' = [route |-> TuplesNow, cdn |-> c, on |-> With("proxy")]
    /\ cdn' = c
    /\ UNCHANGED <<state, count, roles, nodes, up, current, agent, worker, failed,
                   misplaced>>

update_nodes_weight ==
    /\ state = "RUNNING"
    /\ UpdateProxies(cdn)
    /\ UNCHANGED raced

\* cdn_enable looks at no state, and keeps the address whatever the proxies say.
cdn_enable(address) ==
    /\ UpdateProxies(address)
    /\ raced' = (raced \/ worker # None)

\* A call to an agent fails.  Refused, it is an AgentException, and the manager
\* sets S_ERROR before it raises it again; unanswered, it is another exception.
CallError == state' \in {state, "ERROR"}

\* The server thread calls one proxy, ends the request when all are called, or
\* gives up when a call fails: then the service may be in S_ERROR, whatever its
\* worker has made of it meanwhile.
ServerCall ==
    /\ request # None
    /\ \/ \E n \in request.on :
            /\ "proxy" \in daemons[n] /\ ~request.cdn
            /\ routes' = [routes EXCEPT ![n] = request.route]
            /\ request' = [request EXCEPT !.on = @ \ {n}]
            /\ UNCHANGED state
       \/ request.on = {} /\ request' = None /\ UNCHANGED <<state, routes>>
       \/ request.on # {} /\ CallError /\ request' = None /\ UNCHANGED routes
    /\ UNCHANGED <<config, daemons, code, worker, history>>

-----------------------------------------------------------------------------
(* The hooks: roles are recorded and the program of calls is made. *)

Hook(op) == worker # None /\ worker.op = op /\ worker.todo = None

Do(do, r, on) == [do |-> do, role |-> r, on |-> on]

Program(calls) == worker' = [worker EXCEPT !.todo = calls]

\* The worker ends with an exception.
Die == worker' = None

\* The cloud gives nodes for some entries of the list of roles q: each way to
\* put the entries `came' on virtual machines.
Placed(q, came) == {f \in [came -> Node \ up] :
                      \A i, j \in came : f[i] = f[j] => i = j}

\* The roles of the nodes after those of q were placed by f.
RolesPlaced(q, f) ==
    [n \in Node |-> IF \E i \in DOMAIN f : f[i] = n
                    THEN q[CHOOSE i \in DOMAIN f : f[i] = n] ELSE roles[n]]

\* No node came up, or the call to the director failed.
NodesFailed ==
    /\ Hook("start") \/ Hook("add")
    /\ Die
    /\ failed' = TRUE
    /\ count' = IF worker.op = "start" THEN StartingCounts(count) ELSE count
    /\ UNCHANGED <<state, roles, nodes, up, current, cdn, agent, request, raced,
                   misplaced>>

on_start ==
    LET c == StartingCounts(count)
        q == StartingNodes(c) IN
    /\ Hook("start")
    /\ count' = c
    /\ \E came \in (SUBSET (1..Len(q))) \ {{}} : \E f \in Placed(q, came) :
         /\ roles' = RolesPlaced(q, f)
         /\ nodes' = {f[i] : i \in came}
         /\ up' = up \cup nodes'
         /\ failed' = (failed \/ came # 1..Len(q))
    /\ misplaced' = (misplaced \/ \A i \in 1..Len(q) : "backend" \notin q[i])
    /\ Program(<<Do("scalaris", None, nodes'),
                 Do("create", "backend", Having("backend", nodes', roles')),
                 Do("code", None, nodes'),
                 Do("create", "web", Having("web", nodes', roles')),
                 Do("create", "proxy", Having("proxy", nodes', roles'))>>)
    /\ UNCHANGED <<state, current, cdn, agent, request, raced>>

\* The node that loses role r when stand-alone nodes new get it: the packed one,
\* at place 0 of a list that is empty when nobody has the role.
Unpacked(r, new) ==
    IF new # {} /\ count[r] = 0 THEN {{n} : n \in With(r)} ELSE {{}}

\* Mutant of AddCalls: the old daemons are stopped before the proxies know.
AddCallsStopFirst(new, b, w, p, killB, killW) ==
    <<Do("create", "backend", b), Do("code", None, new),
      Do("create", "web", w), Do("create", "proxy", p),
      Do("stop", "backend", killB), Do("stop", "web", killW),
      Do("update", "proxy", IF w \cup b = {} THEN {} ELSE With("proxy"))>>

\* Mutant of AddCalls: the old daemons are stopped before the new ones start.
AddCallsBreakFirst(new, b, w, p, killB, killW) ==
    <<Do("stop", "backend", killB), Do("stop", "web", killW),
      Do("create", "backend", b), Do("code", None, new),
      Do("create", "web", w), Do("create", "proxy", p),
      Do("update", "proxy", IF w \cup b = {} THEN {} ELSE With("proxy"))>>

\* The calls of an addition of nodes new (b, w, p by role).
AddCalls(new, b, w, p, killB, killW) ==
    <<Do("scalaris", None, new),
      Do("create", "backend", b), Do("code", None, new),
      Do("create", "web", w), Do("create", "proxy", p),
      Do("update", "proxy", IF w \cup b = {} THEN {} ELSE With("proxy")),
      Do("stop", "backend", killB), Do("stop", "web", killW)>>

on_add_nodes ==
    LET q == AddedNodes(worker.want) IN
    /\ Hook("add")
    /\ \E came \in (SUBSET (1..Len(q))) \ {{}} : \E f \in Placed(q, came) :
         LET new == {f[i] : i \in came}
             rs == RolesPlaced(q, f)
             b == Having("backend", new, rs)
             w == Having("web", new, rs)
             p == Having("proxy", new, rs) IN
         /\ up' = up \cup new
         /\ \/ /\ Unpacked("backend", b) = {} \/ Unpacked("web", w) = {}
               /\ Die
               /\ UNCHANGED <<roles, nodes>>
            \/ \E killB \in Unpacked("backend", b), killW \in Unpacked("web", w) :
                 /\ roles' = [n \in Node |->
                      rs[n] \ ((IF n \in killB THEN {"backend"} ELSE {})
                               \cup (IF n \in killW THEN {"web"} ELSE {}))]
                 /\ nodes' = nodes \cup new
                 /\ Program(AddCalls(new, b, w, p, killB, killW))
    /\ UNCHANGED <<state, count, current, cdn, agent, request, history>>

\* The last k nodes of role r, in the arbitrary order of the dictionary.
LastOf(r, k) ==
    {S \in SUBSET With(r) :
       Cardinality(S) = IF k < Cardinality(With(r)) THEN k
                        ELSE Cardinality(With(r))}

\* Mutant of Packing: nobody takes the role of the last stand-alone node.
PackingNever(want) == {}

\* The roles that lose their last stand-alone node.
Packing(want) == {r \in {"web", "backend"} : want[r] > 0 /\ count[r] = want[r]}

\* Roles are taken from the nodes that go and, when no stand-alone node of a
\* role is left, given to the first proxy.
on_remove_nodes ==
    LET want == worker.want
        packing == Packing(want) IN
    /\ Hook("remove")
    /\ \E killW \in LastOf("web", want["web"]),
          killB \in LastOf("backend", want["backend"]),
          killP \in LastOf("proxy", want["proxy"]), pack \in With("proxy") :
         LET gone(n) == (IF n \in killW THEN {"web"} ELSE {})
                          \cup (IF n \in killB THEN {"backend"} ELSE {})
                          \cup (IF n \in killP THEN {"proxy"} ELSE {})
             onPack(r) == IF r \in packing THEN {pack} ELSE {} IN
         /\ killP # With("proxy") => pack \notin killP
         /\ roles' = [n \in Node |-> (roles[n] \ gone(n))
                         \cup (IF n = pack THEN packing ELSE {})]
         /\ Program(<<Do("create", "backend", onPack("backend")),
                      Do("code", None, onPack("backend")),
                      Do("create", "web", onPack("web")),
                      Do("update", "proxy",
                         IF killW \cup killB = {} THEN {}
                         ELSE Having("proxy", nodes, roles')),
                      Do("stop", "backend", killB),
                      Do("stop", "web", killW),
                      Do("stop", "proxy", killP)>>)
    /\ UNCHANGED <<state, count, nodes, up, current, cdn, agent, request, history>>

StopCalls ==
    <<Do("stop", "proxy", With("proxy")), Do("stop", "web", With("web")),
      Do("stop", "backend", With("backend"))>>

on_stop ==
    /\ Hook("stop")
    /\ Program(StopCalls)
    /\ UNCHANGED <<state, config, agent, request, history>>

do_update_configuration ==
    /\ Hook("configure")
    /\ current' = IF worker.version = None THEN current ELSE worker.version
    /\ LET onCode(ns) == IF worker.version = None THEN {} ELSE ns IN
       Program(<<Do("update", "backend", IF worker.php THEN With("backend") ELSE {}),
                 Do("code", None, onCode(nodes)),
                 Do("update", "web", onCode(With("web"))),
                 Do("update", "proxy", onCode(With("proxy")))>>)
    /\ UNCHANGED <<state, count, roles, nodes, up, cdn, agent, request, history>>

-----------------------------------------------------------------------------
(* The calls. *)

HasProgram == worker # None /\ worker.todo # None

\* The loop that the worker is in: those before it are done.
Turn(i) == /\ i \in DOMAIN worker.todo
           /\ worker.todo[i].on # {}
           /\ \A j \in 1..(i - 1) : worker.todo[j].on = {}

\* The agent takes the call: it creates only what it has not, updates and stops
\* only what it has (_create, _update, _stop), and no proxy is without web nodes.
Takes(n, c) ==
    /\ c.do = "create" => c.role \notin daemons[n]
    /\ c.do \in {"update", "stop"} => c.role \in daemons[n]
    /\ c.do # "stop" /\ c.role = "proxy" => With("web") # {}

\* An agent takes "yes" or "no" for the parameter cdn, and never an address.
CdnOK(c) == c.do # "stop" /\ c.role = "proxy" => ~cdn

\* One call; the program goes on with the next node or the next loop.
AgentCall ==
    /\ HasProgram
    /\ \E i \in DOMAIN worker.todo : \E n \in worker.todo[i].on :
         LET c == worker.todo[i] IN
         /\ Turn(i) /\ Takes(n, c) /\ CdnOK(c)
         /\ daemons' = [daemons EXCEPT ![n] =
                          CASE c.do = "create" -> @ \cup {c.role}
                            [] c.do = "stop" -> @ \ {c.role}
                            [] OTHER -> @]
         /\ routes' = [routes EXCEPT ![n] =
                         IF c.role # "proxy" THEN @
                         ELSE IF c.do = "stop" THEN NoRoute ELSE TuplesNow]
         /\ code' = [code EXCEPT ![n] = IF c.do = "code" THEN current ELSE @]
         /\ worker' = [worker EXCEPT !.todo[i].on = @ \ {n}]
    /\ UNCHANGED <<state, config, request, history>>

\* The agent refuses the call or cannot be reached.  Only a removal that has
\* come to stopping daemons catches that: it sets S_RUNNING over S_ERROR, but its
\* worker dies on the list of nodes it has not made.
CallFails ==
    /\ HasProgram
    /\ \E i \in DOMAIN worker.todo :
         LET c == worker.todo[i] IN
         /\ Turn(i)
         /\ failed' = (failed \/ \E n \in c.on : Takes(n, c))
         /\ IF worker.op = "remove" /\ c.do = "stop" THEN state' = "RUNNING" ELSE CallError
    /\ Die
    /\ UNCHANGED <<config, agent, request, raced, misplaced>>

\* Mutant of Destroy: all of the service's machines are handed back.
DestroyAll(gone) ==
    /\ up' = up \ nodes
    /\ UNCHANGED <<roles, agent>>

\* The virtual machines of gone are handed back.
Destroy(gone) ==
    /\ up' = up \ gone
    /\ roles' = [n \in Node |-> IF n \in gone THEN {} ELSE roles[n]]
    /\ daemons' = [n \in Node |-> IF n \in gone THEN {} ELSE daemons[n]]
    /\ routes' = [n \in Node |-> IF n \in gone THEN NoRoute ELSE routes[n]]
    /\ code' = [n \in Node |-> IF n \in gone THEN None ELSE code[n]]

\* All calls are made.  A removal lets the nodes without a role go; the counts
\* are made anew; a stop lets all nodes go and keeps the counts.
Finish ==
    LET gone == CASE worker.op = "stop" -> nodes
                  [] worker.op = "remove" -> {n \in nodes : roles[n] = {}}
                  [] OTHER -> {} IN
    /\ HasProgram /\ \A i \in DOMAIN worker.todo : worker.todo[i].on = {}
    /\ worker' = None
    /\ nodes' = nodes \ gone
    /\ Destroy(gone)
    /\ count' = IF worker.op \in {"add", "remove"} THEN Recount(nodes', roles)
                ELSE count
    /\ state' = IF worker.op = "stop" THEN "STOPPED" ELSE "RUNNING"
    /\ failed' = (failed /\ worker.op # "stop")
    /\ UNCHANGED <<current, cdn, request, raced, misplaced>>

-----------------------------------------------------------------------------
(* The specification. *)

Handle ==
    \/ start_service \/ stop_service
    \/ \E w \in Wants : add_nodes(w) \/ remove_nodes(w)
    \/ \E v \in Version \cup {None}, php \in BOOLEAN :
         update_php_configuration(v, php)
    \/ update_nodes_weight \/ (\E a \in BOOLEAN : cdn_enable(a)) \/ ServerCall

Work ==
    \/ NodesFailed \/ on_start \/ on_add_nodes \/ on_remove_nodes \/ on_stop
    \/ do_update_configuration \/ AgentCall \/ CallFails \/ Finish

Next == Handle \/ Work

Spec == Init /\ [][Next]_vars

-----------------------------------------------------------------------------
(* What the service promises. *)

\* No call has failed, and no start has left out the backend.
Sound == ~failed /\ ~misplaced

Serving(r) == {n \in up : r \in daemons[n]}

\* Reconfiguration makes before it breaks: from the first S_RUNNING on, through
\* every step of an addition, a removal or an update, each role is served by a
\* running daemon.
AlwaysServed ==
    Sound /\ state \in {"RUNNING", "ADAPTING"} =>
      \A r \in Role : Serving(r) # {}

\* At no time, while the service starts, adapts or stops, does a proxy route to
\* a web or backend daemon that is not running.  Two exceptions: a proxy that
\* is about to be removed is told nothing, and cdn_enable may bring old lists
\* back after a worker has changed them.
RoutesAlive ==
    Sound /\ ~raced => \A n \in Serving("proxy") \cap With("proxy") :
      /\ routes[n].web # {}
      /\ routes[n].web \subseteq Serving("web")
      /\ routes[n].backend \subseteq Serving("backend")

\* A service at rest is what its configuration says: daemons and code on every
\* node, the numbers of stand-alone nodes that a restart will ask for, and
\* (unless cdn_enable interfered) the lists of every proxy.
Settled ==
    Sound /\ state = "RUNNING" =>
      /\ count["proxy"] = Cardinality(With("proxy"))
      /\ \A r \in {"web", "backend"} :
           count[r] = Cardinality(With(r) \ With("proxy"))
      /\ \A n \in nodes : daemons[n] = roles[n] /\ code[n] = current
      /\ ~raced => \A n \in Serving("proxy") : routes[n] = TuplesNow

\* An agent never refuses a call that reaches it: nothing is created twice, and
\* only what runs is updated or stopped, whatever was packed and unpacked before.
\* (Proxies refuse the address of a CDN; that counts as a failure.)
NothingRefused ==
    Sound /\ HasProgram =>
      \A i \in DOMAIN worker.todo : Turn(i) =>
        \A n \in worker.todo[i].on : Takes(n, worker.todo[i])
=============================================================================
