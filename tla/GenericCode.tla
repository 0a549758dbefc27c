------------------------------ MODULE GenericCode ------------------------------
(***************************************************************************)
(* Code versions and user scripts of a Generic service: the manager        *)
(* (conpaas.services.generic.manager) and its agents                       *)
(* (conpaas.services.generic.agent).                                       *)
(*                                                                         *)
(* The manager keeps the code versions and the active one.  Activating a   *)
(* version, adding and removing nodes and executing a script each run in a *)
(* worker that calls the agents one after the other, walking over a list   *)
(* of nodes that other workers change meanwhile.  An agent replaces its    *)
(* code, starts init.sh, and runs the scripts notify.sh, run.sh and        *)
(* interrupt.sh as processes; an interruption has a thread of its own.     *)
(* (cleanup.sh is handled exactly as run.sh; "run" stands for both.)       *)
(*                                                                         *)
(* A call to an agent may fail: it raises Exception, never AgentException, *)
(* so nobody catches it but on_start.  AppManager models what becomes of   *)
(* the virtual machines, and stops; here a node is the agent on it, and    *)
(* nobody stops the service.                                               *)
(***************************************************************************)
EXTENDS Naturals, Sequences, SequencesExt

CONSTANTS
    Node,       \* the virtual machines that can be created
    Version,    \* identifiers of code versions
    Default,    \* 'code-default', the version a service is created with
    Thread,     \* slots for the worker threads alive together (bound)
    MaxCount,   \* the largest number of nodes asked for at once (bound)
    MaxIntr,    \* how many interruption threads of an agent have still to
                \* start their script (bound)
    None        \* Python's None, also a script's or a worker's absence

ASSUME VersionAssumption == Default \in Version /\ None \notin Version
ASSUME CountAssumption == MaxCount \in Nat \ {0} /\ MaxIntr \in Nat \ {0}

VARIABLES
    state,      \* self.state of the service
    versions,   \* keys of config.codeVersions
    current,    \* config.currentCodeVersion
    nodes,      \* self.nodes, in order
    created,    \* the nodes ever created
    up,         \* those of them that have not been handed back
    request,    \* the request that the server thread is probing agents for
    thread,     \* the worker threads
    code,       \* the version in CODE_DIR of every agent
    running,    \* the scripts in self.processes that run, on every agent: one
                \* of the code before, which SIGTERM has not ended when the code
                \* is replaced, is not kept there, and no check sees it
    begun,      \* the agents whose code has been given to init.sh
    intr,       \* the threads of _do_interrupt that have still to start
                \* their script, on every agent
    crossed     \* history: nodes were added to the list behind nodes that a
                \* removal, done but for that, had still to take off

manager == <<state, versions, current, nodes, created, up>>
agent == <<code, running, begun, intr>>
vars == <<manager, request, thread, agent, crossed>>

-----------------------------------------------------------------------------
(* Types. *)

State == {"INIT", "PROLOGUE", "RUNNING", "ADAPTING", "STOPPED", "ERROR"}

Command == {"init", "notify", "run", "interrupt"}

Op == {"start", "add", "remove", "enable", "script"}

Pc == {"begin", "update", "init", "call", "drop"}

\* A loop over a list of nodes: the list itself, or None for self.nodes as long
\* as nobody assigns another list to it, and the index of the next node.
Walk == [over : Seq(Node) \cup {None}, i : Nat \ {0}]

\* A worker: its operation and place, the number of nodes, the version or
\* command, its loop, the agent that is in the middle of its call, and the
\* nodes it comes to after the loop: those to notify (add) or to take off the
\* list (remove).
Worker == [op : Op, pc : Pc, count : 0..MaxCount,
           arg : Version \cup Command \cup {None},
           walk : Walk, at : Node \cup {None}, later : Seq(Node)]

\* None is no worker, no node and no list.
ASSUME NoneAssumption == None \notin Worker /\ None \notin Node /\ None \notin Seq(Node)

TypeOK ==
    /\ state \in State
    /\ versions \subseteq Version
    /\ current \in Version
    /\ nodes \in Seq(Node)
    /\ created \subseteq Node
    /\ up \subseteq created
    /\ request \in [op : {"enable", "script"}, arg : Version \cup Command,
                    walk : Walk] \cup {None}
    /\ thread \in [Thread -> Worker \cup {None}]
    /\ code \in [Node -> Version \cup {None}]
    /\ running \in [Node -> SUBSET Command]
    /\ begun \subseteq Node
    /\ intr \in [Node -> 0..MaxIntr]
    /\ crossed \in BOOLEAN

Init ==
    /\ state = "INIT"
    /\ versions = {Default}
    /\ current = Default
    /\ nodes = <<>>
    /\ created = {}
    /\ up = {}
    /\ request = None
    /\ thread = [t \in Thread |-> None]
    /\ code = [n \in Node |-> None]
    /\ running = [n \in Node |-> {}]
    /\ begun = {}
    /\ intr = [n \in Node |-> 0]
    /\ crossed = FALSE

-----------------------------------------------------------------------------
(* Loops over lists that change under them. *)

Walking(over) == [over |-> over, i |-> 1]

\* The list behind a loop, whether the loop is over, and its next node.
ListOf(w) == IF w.over = None THEN nodes ELSE w.over
Over(w) == w.i > Len(ListOf(w))
NodeOf(w) == ListOf(w)[w.i]

\* self.nodes becomes another list: loops over the old one stay with it.
Detach(w) == IF w.over = None THEN [w EXCEPT !.over = nodes] ELSE w
DetachAll(f) ==
    [t \in Thread |-> IF f[t] = None THEN None
                      ELSE [f[t] EXCEPT !.walk = Detach(@)]]

\* The agent is there and serves the request now: it takes one at a time, and
\* is not busy with update_code.
Free(n) == n \in up /\ \A t \in Thread : thread[t] # None => thread[t].at # n

-----------------------------------------------------------------------------
(* The agent. *)

\* GenericAgent._are_scripts_running
ScriptsRun(n) == running[n] # {}

\* _kill_all_processes only sends SIGTERM to every script: any of them may end
\* now, and the others later (ScriptEnds) or never.
KillAll(n) ==
    \E S \in SUBSET running[n] : running' = [running EXCEPT ![n] = S]

\* update_code, first part: the scripts are sent SIGTERM and forgotten, whether
\* they end or not; the old code is removed and the new one unpacked.
\* Interruptions are not held back.
ReplaceCode(n, v) ==
    /\ running' = [running EXCEPT ![n] = {}]
    /\ code' = [code EXCEPT ![n] = v]
    /\ begun' = begun \ {n}
    /\ UNCHANGED intr

\* _execute_script: a script that the code lacks is not started.
ExecuteScript(n, c) ==
    IF code[n] = None THEN UNCHANGED <<running, begun>>
    ELSE /\ running' = [running EXCEPT ![n] = @ \cup {c}]
         /\ begun' = IF c = "init" THEN begun \cup {n} ELSE begun

\* Mutant of execute_script: the agent does not look whether a script runs.
execute_scriptAnyway(n, c) ==
    /\ ExecuteScript(n, c)
    /\ UNCHANGED <<code, intr>>

\* GenericAgent.execute_script: every call that finds interrupt.sh not running
\* starts a thread for it.
execute_script(n, c) ==
    \/ /\ c = "interrupt" /\ ~ScriptsRun(n)
       /\ UNCHANGED agent
    \/ /\ c = "interrupt" /\ "interrupt" \in running[n]
       /\ KillAll(n)
       /\ UNCHANGED <<code, begun, intr>>
    \/ /\ c = "interrupt" /\ ScriptsRun(n) /\ "interrupt" \notin running[n]
       /\ intr[n] < MaxIntr
       /\ intr' = [intr EXCEPT ![n] = @ + 1]
       /\ UNCHANGED <<code, running, begun>>
    \/ /\ c # "interrupt" /\ ScriptsRun(n)
       /\ UNCHANGED agent
    \/ /\ c # "interrupt" /\ ~ScriptsRun(n)
       /\ ExecuteScript(n, c)
       /\ UNCHANGED <<code, intr>>

\* _do_interrupt starts interrupt.sh, whatever has happened since the request;
\* when that ends it sends SIGTERM to all other scripts (a signal that comes
\* later has the effect of ScriptEnds, and so has that of a thread whose script
\* update_code has forgotten).
DoInterrupt(n) ==
    /\ \/ /\ intr[n] > 0
          /\ ExecuteScript(n, "interrupt")
          /\ intr' = [intr EXCEPT ![n] = @ - 1]
       \/ /\ "interrupt" \in running[n]
          /\ \E S \in SUBSET (running[n] \ {"interrupt"}) :
               running' = [running EXCEPT ![n] = S]
          /\ UNCHANGED <<begun, intr>>
    /\ UNCHANGED <<code, manager, request, thread, crossed>>

\* A script ends, by itself or by a signal.
ScriptEnds(n, c) ==
    /\ c \in running[n]
    /\ running' = [running EXCEPT ![n] = @ \ {c}]
    /\ UNCHANGED <<code, begun, intr, manager, request, thread, crossed>>

-----------------------------------------------------------------------------
(* The requests, in the one thread of the manager's server. *)

Begin(t, op, k) ==
    /\ request = None
    /\ thread[t] = None
    /\ thread' = [thread EXCEPT ![t] =
           [op |-> op, pc |-> "begin", count |-> k, arg |-> None,
            walk |-> Walking(None), at |-> None, later |-> <<>>]]

\* A new version is uploaded as an archive or pushed to the git repository.
upload_code_version(v) ==
    /\ request = None
    /\ versions' = versions \cup {v}
    /\ UNCHANGED <<state, current, nodes, created, up, request, thread, agent,
                   crossed>>

\* Mutant of delete_code_version: the active version is not protected.
delete_code_versionAny(v) ==
    /\ request = None
    /\ v \in versions
    /\ versions' = versions \ {v}
    /\ UNCHANGED <<state, current, nodes, created, up, request, thread, agent,
                   crossed>>

delete_code_version(v) ==
    /\ request = None
    /\ v \in versions \ {current}
    /\ versions' = versions \ {v}
    /\ UNCHANGED <<state, current, nodes, created, up, request, thread, agent,
                   crossed>>

start_service(t) ==
    /\ state \in {"INIT", "STOPPED"}
    /\ Begin(t, "start", 1)
    /\ state' = "PROLOGUE"
    /\ UNCHANGED <<versions, current, nodes, created, up, request, agent, crossed>>

add_nodes(t, k) ==
    /\ state = "RUNNING"
    /\ Begin(t, "add", k)
    /\ state' = "ADAPTING"
    /\ UNCHANGED <<versions, current, nodes, created, up, request, agent, crossed>>

remove_nodes(t, k) ==
    /\ state = "RUNNING"
    /\ k < Len(nodes)
    /\ Begin(t, "remove", k)
    /\ state' = "ADAPTING"
    /\ UNCHANGED <<versions, current, nodes, created, up, request, agent, crossed>>

\* Mutant of enable_code: a request without a version is taken as it is.
enable_codeBlindly(v) ==
    /\ request = None
    /\ state \in {"INIT", "STOPPED"}
    /\ current' \in {v, None}
    /\ UNCHANGED <<state, versions, nodes, created, up, request, thread, agent,
                   crossed>>

\* enable_code: without nodes the version is just recorded; a running service
\* asks every agent first whether scripts run.
enable_code(v) ==
    /\ request = None
    /\ v \in versions
    /\ \/ /\ state \in {"INIT", "STOPPED"}
          /\ current' = v
          /\ UNCHANGED request
       \/ /\ state = "RUNNING"
          /\ request' = [op |-> "enable", arg |-> v, walk |-> Walking(None)]
          /\ UNCHANGED current
    /\ UNCHANGED <<state, versions, nodes, created, up, thread, agent, crossed>>

\* GenericManager.execute_script, the users' request, asks the agents too.
RequestScript(c) ==
    /\ request = None
    /\ state = "RUNNING"
    /\ request' = [op |-> "script", arg |-> c, walk |-> Walking(None)]
    /\ UNCHANGED <<manager, thread, agent, crossed>>

\* GenericManager._are_scripts_running goes on to the next agent.
Probe ==
    LET w == request.walk IN
    /\ request # None /\ ~Over(w)
    /\ Free(NodeOf(w)) /\ ~ScriptsRun(NodeOf(w))
    /\ request' = [request EXCEPT !.walk.i = @ + 1]
    /\ UNCHANGED <<manager, thread, agent, crossed>>

\* The request is refused: a script runs (or, for an interruption, none does),
\* or an agent does not answer.
Refuse ==
    LET w == request.walk IN
    /\ request # None
    /\ IF Over(w) THEN request.arg = "interrupt"
       ELSE Free(NodeOf(w)) /\ (request.arg # "interrupt" \/ ~ScriptsRun(NodeOf(w)))
    /\ request' = None
    /\ UNCHANGED <<manager, thread, agent, crossed>>

\* Only an activation sets the state; a script runs beside everything else.
EnableState(op) == IF op = "enable" THEN "ADAPTING" ELSE state

\* The probe has the right answer: the worker is started.
Commit(t) ==
    LET w == request.walk IN
    /\ request # None
    /\ IF Over(w) THEN request.arg # "interrupt"
       ELSE /\ request.arg = "interrupt"
            /\ Free(NodeOf(w)) /\ ScriptsRun(NodeOf(w))
    /\ thread[t] = None
    /\ thread' = [thread EXCEPT ![t] =
           [op |-> request.op, count |-> 0, arg |-> request.arg,
            walk |-> Walking(None),
            pc |-> IF request.op = "enable" THEN "begin" ELSE "call",
            at |-> None, later |-> <<>>]]
    /\ state' = EnableState(request.op)
    /\ request' = None
    /\ UNCHANGED <<versions, current, nodes, created, up, agent, crossed>>

-----------------------------------------------------------------------------
(* The workers. *)

At(t, ops, pc) == thread[t] # None /\ thread[t].op \in ops /\ thread[t].pc = pc

\* The nodes of q are new and pairwise different.
Fresh(k) == {q \in [1..k -> Node \ created] :
               \A i, j \in 1..k : q[i] = q[j] => i = j}

\* The nodes come up.  A start makes them the list of the service and walks
\* over that list, an addition extends the list in place and walks over its
\* own; the others are notified afterwards.
CreateNodes(t) ==
    /\ At(t, {"start", "add"}, "begin")
    /\ \E k \in 1..thread[t].count : \E q \in Fresh(k) :
         /\ created' = created \cup ToSet(q)
         /\ up' = up \cup ToSet(q)
         /\ IF thread[t].op = "start"
            THEN /\ nodes' = q
                 /\ thread' = [DetachAll(thread) EXCEPT ![t].pc = "update",
                                   ![t].walk = Walking(None)]
                 /\ request' = IF request = None THEN None
                               ELSE [request EXCEPT !.walk = Detach(@)]
            ELSE /\ nodes' = nodes \o q
                 /\ thread' = [thread EXCEPT ![t].pc = "update",
                                   ![t].walk = Walking(q), ![t].later = nodes]
                 /\ UNCHANGED request
    /\ crossed' = \/ crossed
                  \/ \E u \in Thread : thread[u] # None /\ thread[u].pc = "drop"
    /\ UNCHANGED <<state, versions, current, agent>>

\* _do_enable_code begins.
Activate(t) ==
    /\ At(t, {"enable"}, "begin")
    /\ current' = thread[t].arg
    /\ thread' = [thread EXCEPT ![t].pc = "update", ![t].walk = Walking(None)]
    /\ UNCHANGED <<state, versions, nodes, created, up, request, agent, crossed>>

\* _update_code: the version is looked up again for every node (a KeyError when
\* it has been deleted); the call keeps the agent busy until init.sh has begun.
UpdateCode(t) ==
    LET w == thread[t].walk IN
    /\ At(t, {"start", "add", "enable"}, "update")
    /\ ~Over(w) /\ Free(NodeOf(w))
    /\ current \in versions
    /\ ReplaceCode(NodeOf(w), current)
    /\ thread' = [thread EXCEPT ![t].pc = "init", ![t].at = NodeOf(w),
                                ![t].walk.i = @ + 1]
    /\ UNCHANGED <<manager, request, crossed>>

\* update_code, second part: every new code version starts with init.sh.
StartInit(t) ==
    /\ At(t, {"start", "add", "enable"}, "init")
    /\ ExecuteScript(thread[t].at, "init")
    /\ thread' = [thread EXCEPT ![t].pc = "update", ![t].at = None]
    /\ UNCHANGED <<code, intr, manager, request, crossed>>

\* Every agent has the code: start and enable are through, an addition goes on
\* to notify the nodes that were there before.
Updated(t) ==
    /\ At(t, {"start", "add", "enable"}, "update")
    /\ Over(thread[t].walk)
    /\ IF thread[t].op = "add"
       THEN /\ thread' = [thread EXCEPT ![t].pc = "call", ![t].later = <<>>,
                                        ![t].walk = Walking(thread[t].later)]
            /\ UNCHANGED state
       ELSE /\ thread' = [thread EXCEPT ![t] = None]
            /\ state' = "RUNNING"
    /\ UNCHANGED <<versions, current, nodes, created, up, request, agent, crossed>>

\* The script that a worker's calls execute.
CommandOf(w) == IF w.op = "script" THEN w.arg ELSE "notify"

\* _do_execute_script calls one agent after the other.
CallScript(t) ==
    LET w == thread[t].walk IN
    /\ At(t, {"add", "remove", "script"}, "call")
    /\ ~Over(w) /\ Free(NodeOf(w))
    /\ execute_script(NodeOf(w), CommandOf(thread[t]))
    /\ thread' = [thread EXCEPT ![t].walk.i = @ + 1]
    /\ UNCHANGED <<manager, request, crossed>>

\* All were called.  A removal makes the service S_RUNNING while the nodes that
\* go are still on the list.
Called(t) ==
    /\ At(t, {"add", "remove", "script"}, "call")
    /\ Over(thread[t].walk)
    /\ thread' = [thread EXCEPT ![t] =
                     IF @.op = "remove" THEN [@ EXCEPT !.pc = "drop"] ELSE None]
    /\ state' = IF thread[t].op = "script" THEN state ELSE "RUNNING"
    /\ UNCHANGED <<versions, current, nodes, created, up, request, agent, crossed>>

\* Mutant of Leaving: nodes are taken from the front of the list.
LeavingFirst(q, k) == [i \in 1..k |-> q[i]]

\* The nodes that on_remove_nodes pops, last first.
Leaving(q, k) == [i \in 1..k |-> q[Len(q) + 1 - i]]

\* on_remove_nodes works on a copy of the list; too short a list (two removals
\* of the same nodes) is an IndexError.
on_remove_nodes(t) ==
    LET k == thread[t].count
        kept == SubSeq(nodes, 1, Len(nodes) - k) IN
    /\ At(t, {"remove"}, "begin")
    /\ IF k > Len(nodes)
       THEN thread' = [thread EXCEPT ![t] = None] /\ UNCHANGED state
       ELSE /\ thread' = [thread EXCEPT ![t].later = Leaving(nodes, k),
                    ![t].pc = IF kept = <<>> THEN "drop" ELSE "call",
                    ![t].walk = Walking(kept)]
            /\ state' = IF kept = <<>> THEN "STOPPED" ELSE state
    /\ UNCHANGED <<versions, current, nodes, created, up, request, agent, crossed>>

\* The node is handed back to the director, and its agent with it.
Destroy(n) ==
    /\ up' = up \ {n}
    /\ code' = [code EXCEPT ![n] = None]
    /\ running' = [running EXCEPT ![n] = {}]
    /\ begun' = begun \ {n}
    /\ intr' = [intr EXCEPT ![n] = 0]

\* _do_remove_nodes takes one node off the list, in place; a node that another
\* worker has taken off is an IndexError.
DropNode(t) ==
    LET q == thread[t].later IN
    /\ At(t, {"remove"}, "drop")
    /\ nodes' = RemoveFirst(nodes, Head(q))
    /\ IF Head(q) \in ToSet(nodes) THEN Destroy(Head(q)) ELSE UNCHANGED <<up, agent>>
    /\ thread' = [thread EXCEPT ![t] =
           IF Tail(q) = <<>> \/ Head(q) \notin ToSet(nodes) THEN None
           ELSE [@ EXCEPT !.later = Tail(q)]]
    /\ UNCHANGED <<state, versions, current, created, request, crossed>>

\* A call fails, or the version to send has been deleted: on_start turns the
\* exception into S_ERROR, any other worker ends where it is.
Fail(t) ==
    /\ thread[t] # None
    /\ \/ thread[t].op \in {"start", "add"} /\ thread[t].pc = "begin"
       \/ thread[t].pc \in {"update", "call"} /\ ~Over(thread[t].walk)
    /\ thread' = [thread EXCEPT ![t] = None]
    /\ state' = IF At(t, {"start"}, "update") THEN "ERROR" ELSE state
    /\ UNCHANGED <<versions, current, nodes, created, up, request, agent, crossed>>

-----------------------------------------------------------------------------
(* The specification. *)

Handle ==
    \/ \E v \in Version :
         upload_code_version(v) \/ delete_code_version(v) \/ enable_code(v)
    \/ \E c \in {"run", "interrupt"} : RequestScript(c)
    \/ \E t \in Thread :
         \/ start_service(t)
         \/ \E k \in 1..MaxCount : add_nodes(t, k) \/ remove_nodes(t, k)
    \/ Probe \/ Refuse \/ \E t \in Thread : Commit(t)

Work(t) ==
    \/ CreateNodes(t) \/ Activate(t) \/ UpdateCode(t) \/ StartInit(t)
    \/ Updated(t) \/ CallScript(t) \/ Called(t) \/ on_remove_nodes(t)
    \/ DropNode(t) \/ Fail(t)

Agent(n) == DoInterrupt(n) \/ \E c \in Command : ScriptEnds(n, c)

Next == Handle \/ (\E t \in Thread : Work(t)) \/ \E n \in Node : Agent(n)

Spec == Init /\ [][Next]_vars

-----------------------------------------------------------------------------
(* What the service promises. *)

\* userguide.rst:656 "both run the same version of the application's code": when
\* the service shows S_RUNNING, every agent it lists has the active version,
\* whichever activations, additions, removals and failures came before and
\* though an activation walks over a list that a removal is shortening: nodes
\* leave at its end.  (Nodes added behind those that leave are the exception.)
SameCode ==
    state = "RUNNING" /\ ~crossed =>
      \A n \in ToSet(nodes) : code[n] = current

\* userguide.rst:674 and 690: init.sh is "called before any other scripts in a
\* specific code version" and "already finished execution before run.sh is
\* called", though init.sh is not waited for and notify and run come from other
\* workers.  The one exception to the first is interrupt.sh, whose thread may
\* start it while update_code is between the new code and its init.sh.  Of the
\* scripts of that code that an agent keeps, one runs at a time, interrupt.sh
\* apart (what is left of the code before may run beside them).
InitFirst ==
    \A n \in Node : \A c \in running[n] :
      /\ \/ n \in begun
         \/ c = "interrupt" /\ \E t \in Thread : thread[t] # None /\ thread[t].at = n
      /\ c # "interrupt" => running[n] \subseteq {c, "interrupt"}

\* userguide.rst:740 "the active code version cannot be deleted": while the service
\* runs, the version it will give to new nodes is kept, though a deletion looks
\* neither at the state nor at the activations under way.
ActiveKept == state = "RUNNING" => current \in versions
=============================================================================
