------------------------------- MODULE Director -------------------------------
(***************************************************************************)
(* The director's applications and virtual machines                        *)
(* (cpsdirector.application, cpsdirector.cloud, the Controller of          *)
(* cpsdirector.iaas and check_sanity of cpsdirector.credits).              *)
(*                                                                         *)
(* Requests are served by several threads, each with its own database      *)
(* session; starting an application or adding nodes takes minutes, in      *)
(* which the application may be stopped or deleted.  The Resource table    *)
(* has a row for every virtual machine the director knows of.              *)
(***************************************************************************)
EXTENDS FiniteSets, Naturals

CONSTANTS
    App,        \* applications
    VM,         \* the virtual machines the clouds can give
    Job,        \* slots for the requests under way together (bound)
    MaxNodes,   \* how many nodes a manager asks for at once (bound)
    None

ASSUME DirectorAssumption == MaxNodes \in Nat \ {0}
ASSUME VMAssumption == IsFiniteSet(VM)

VARIABLES
    status,     \* Application.status; "NEW" before, "GONE" after its row
    vm,         \* the virtual machines started so far, in the cloud
    rows,       \* the virtual machines that have a row in Resource
    job,        \* the requests under way
    known,      \* those that have had a row: a manager can be told of them
    doomed,     \* those a delete_nodes thread has still to kill
    released,   \* the batches of nodes that managers have asked to remove
    lost,       \* history: those given up because a call or a thread failed
    taken,      \* history: those whose rows a stop or a deletion removed
    crossed     \* history: the applications with requests that cross

vars == <<status, vm, rows, job, known, doomed, released, lost, taken, crossed>>

Status == {"NEW", "INIT", "PROLOGUE", "RUNNING", "STOPPED", "GONE"}

Machine == [app : App, role : {"manager", "agent"}, up : BOOLEAN]

Work == [kind : {"start", "agents", "stop", "delete", "remove"}, app : App,
         pc : {"checked", "request", "wait", "register", "read", "drop",
               "status", "kill", "rows"},
         vms : SUBSET VM]

\* None is neither a virtual machine nor a request.
ASSUME NoneAssumption == None \notin Machine \cup Work

TypeOK ==
    /\ status \in [App -> Status]
    /\ vm \in [VM -> Machine \cup {None}]
    /\ known \subseteq {v \in VM : vm[v] # None}
    /\ job \in [Job -> Work \cup {None}]
    /\ rows \subseteq known
    /\ doomed \subseteq known
    /\ released \subseteq SUBSET known
    /\ lost \subseteq VM
    /\ taken \subseteq known
    /\ crossed \subseteq App

Init ==
    /\ status = [a \in App |-> "NEW"]
    /\ vm = [v \in VM |-> None]
    /\ rows = {}
    /\ job = [j \in Job |-> None]
    /\ known = {}
    /\ doomed = {}
    /\ released = {}
    /\ lost = {}
    /\ taken = {}
    /\ crossed = {}

Up(v) == vm[v] # None /\ vm[v].up

OfApp(a, role) == {v \in VM : vm[v] # None /\ vm[v].app = a /\ vm[v].role = role}

InJob(v) == \E j \in Job : job[j] # None /\ v \in job[j].vms

UnderWay(a, kinds) ==
    \E j \in Job : job[j] # None /\ job[j].app = a /\ job[j].kind \in kinds

At(j, kinds, pc) == job[j] # None /\ job[j].kind \in kinds /\ job[j].pc = pc

Begin(j, kind, a, pc, S) ==
    /\ job[j] = None
    /\ job' = [job EXCEPT ![j] = [kind |-> kind, app |-> a, pc |-> pc, vms |-> S]]

Goto(j, pc, S) == job' = [job EXCEPT ![j].pc = pc, ![j].vms = S]

End(j) == job' = [job EXCEPT ![j] = None]

\* Mutant of Destroy: the cloud's record goes with the virtual machine.
DestroyForgets(K) == vm' = [v \in VM |-> IF v \in K THEN None ELSE vm[v]]

\* The virtual machines of K are destroyed.
Destroy(K) == vm' = [v \in VM |-> IF v \in K THEN [vm[v] EXCEPT !.up = FALSE]
                                  ELSE vm[v]]

-----------------------------------------------------------------------------
(* Applications. *)

createapp(a) ==
    /\ status[a] = "NEW"
    /\ status' = [status EXCEPT ![a] = "INIT"]
    /\ UNCHANGED <<vm, rows, job, doomed, known, released, lost, taken, crossed>>

\* Mutant of startapp: ignore_status is always set.
startappAny(j, a) ==
    /\ status[a] \notin {"NEW", "GONE"}
    /\ Begin(j, "start", a, "checked", {})
    /\ crossed' = IF UnderWay(a, {"start", "stop", "delete"})
                  THEN crossed \cup {a} ELSE crossed
    /\ UNCHANGED <<status, vm, rows, doomed, known, released, lost, taken>>

\* _startapp checks the status it has read ...
startapp(j, a) ==
    /\ status[a] \in {"INIT", "STOPPED"}
    /\ Begin(j, "start", a, "checked", {})
    /\ crossed' = IF UnderWay(a, {"start", "stop", "delete"})
                  THEN crossed \cup {a} ELSE crossed
    /\ UNCHANGED <<status, vm, rows, doomed, known, released, lost, taken>>

\* ... and commits the new one, unless the row has been deleted meanwhile.
StartCommit(j) ==
    LET a == job[j].app IN
    /\ At(j, {"start"}, "checked")
    /\ IF status[a] = "GONE"
       THEN End(j) /\ UNCHANGED status
       ELSE Goto(j, "request", {}) /\ status' = [status EXCEPT ![a] = "PROLOGUE"]
    /\ UNCHANGED <<vm, rows, doomed, known, released, lost, taken, crossed>>

\* stopapp and deleteapp.
deleteapp(j, a, kind) ==
    /\ status[a] \notin {"NEW", "GONE"}
    /\ Begin(j, kind, a, "read", {})
    /\ crossed' = IF UnderWay(a, {"start", "agents"})
                  THEN crossed \cup {a} ELSE crossed
    /\ UNCHANGED <<status, vm, rows, doomed, known, released, lost, taken>>

\* Mutant of ReadRows: only the manager is stopped.
ReadRowsManager(j) ==
    LET a == job[j].app IN
    /\ At(j, {"stop", "delete"}, "read")
    /\ Goto(j, "drop", rows \cap OfApp(a, "manager"))
    /\ UNCHANGED <<status, vm, rows, doomed, known, released, lost, taken, crossed>>

\* _deleteapp queries the rows of the application ...
ReadRows(j) ==
    LET a == job[j].app IN
    /\ At(j, {"stop", "delete"}, "read")
    /\ Goto(j, "drop", rows \cap (OfApp(a, "manager") \cup OfApp(a, "agent")))
    /\ UNCHANGED <<status, vm, rows, doomed, known, released, lost, taken, crossed>>

\* Mutant of DropRows: the agents are left to the manager, which is killed.
DropRowsKillManager(j) ==
    LET S == job[j].vms IN
    /\ At(j, {"stop", "delete"}, "drop")
    /\ S \subseteq rows
    /\ rows' = rows \ S
    /\ taken' = taken \cup S
    /\ doomed' = doomed \cup (S \cap OfApp(job[j].app, "manager"))
    /\ Goto(j, "status", {})
    /\ UNCHANGED <<status, vm, known, released, lost, crossed>>

\* ... removes them one by one and starts a thread that kills the machines.
\* Every removal commits and thereby expires the rows that are left: one that
\* another request has removed meanwhile raises, and no thread is started.
DropRows(j) ==
    LET S == job[j].vms IN
    /\ At(j, {"stop", "delete"}, "drop")
    /\ \/ /\ S \subseteq rows
          /\ rows' = rows \ S /\ taken' = taken \cup S
          /\ doomed' = doomed \cup S
          /\ Goto(j, "status", {})
          /\ UNCHANGED lost
       \/ /\ ~(S \subseteq rows)
          /\ \E T \in SUBSET (S \cap rows) :
               /\ rows' = rows \ T /\ taken' = taken \cup T
               /\ lost' = lost \cup {v \in T : Up(v)}
          /\ End(j)
          /\ UNCHANGED doomed
    /\ UNCHANGED <<status, vm, known, released, crossed>>

\* The rows of its services go in the same way (see Services): one that another
\* request has removed raises, and the status stays what it was.
DeleteEnd(j) ==
    LET a == job[j].app IN
    /\ At(j, {"stop", "delete"}, "status")
    /\ \/ status' = [status EXCEPT ![a] =
                       IF @ = "GONE" \/ job[j].kind = "delete" THEN "GONE"
                       ELSE "STOPPED"]
       \/ UNCHANGED status
    /\ End(j)
    /\ UNCHANGED <<vm, rows, doomed, known, released, lost, taken, crossed>>

-----------------------------------------------------------------------------
(* Nodes.  A manager that users could reach calls as long as it runs. *)

Calls(a) == \E v \in known \cap OfApp(a, "manager") : Up(v)

create_nodes(j, a) ==
    /\ Calls(a)
    /\ Begin(j, "agents", a, "request", {})
    /\ crossed' = IF UnderWay(a, {"stop", "delete"}) \/ rows \cap OfApp(a, "manager") = {}
                  THEN crossed \cup {a} ELSE crossed
    /\ UNCHANGED <<status, vm, rows, doomed, known, released, lost, taken>>

\* Controller.create_nodes: a cloud that raises makes it forget what the others
\* have started.
NewInstances(j) ==
    LET w == job[j] IN
    /\ At(j, {"start", "agents"}, "request")
    /\ \E S \in SUBSET {v \in VM : vm[v] = None} :
         /\ Cardinality(S) <= IF w.kind = "start" THEN 1 ELSE MaxNodes
         /\ vm' = [v \in VM |-> IF v \notin S THEN vm[v] ELSE
                     [app |-> w.app, up |-> TRUE,
                      role |-> IF w.kind = "start" THEN "manager" ELSE "agent"]]
         /\ \/ S # {} /\ Goto(j, "wait", S) /\ UNCHANGED lost
            \/ End(j) /\ lost' = lost \cup S
    /\ UNCHANGED <<status, rows, doomed, known, released, taken, crossed>>

\* _wait_for_nodes: those that have not come up in time are deleted; a node
\* that cannot be killed is forgotten.
WaitForNodes(j) ==
    /\ At(j, {"start", "agents"}, "wait")
    /\ \E ready \in SUBSET job[j].vms : \E K \in SUBSET (job[j].vms \ ready) :
         /\ Destroy(K)
         /\ lost' = lost \cup (job[j].vms \ (ready \cup K))
         /\ Goto(j, "register", ready)
    /\ UNCHANGED <<status, rows, doomed, known, released, taken, crossed>>

\* _create_nodes enters the rows and, for a manager, the status; it raises when
\* the application is gone, and commits nothing when no node came up.
Register(j) ==
    LET w == job[j]
        raises == w.kind = "start" /\ status[w.app] = "GONE" IN
    /\ At(j, {"start", "agents"}, "register")
    /\ End(j)
    /\ lost' = IF raises THEN lost \cup w.vms ELSE lost
    /\ rows' = IF raises THEN rows ELSE rows \cup w.vms
    /\ known' = IF raises THEN known ELSE known \cup w.vms
    /\ status' = IF w.kind = "start" /\ ~raises /\ w.vms # {}
                 THEN [status EXCEPT ![w.app] = "RUNNING"] ELSE status
    /\ UNCHANGED <<vm, doomed, released, taken, crossed>>

\* remove_nodes, with nodes that a manager has (AppManager!ReleasedOnce).
remove_nodes(j, a, S) ==
    /\ Calls(a)
    /\ S # {} /\ S \subseteq (known \cap OfApp(a, "agent")) \ UNION released
    /\ Begin(j, "remove", a, "kill", S)
    /\ released' = released \cup {S}
    /\ UNCHANGED <<status, vm, rows, doomed, known, lost, taken, crossed>>

\* Controller.delete_nodes, in the request itself.
KillNodes(j) ==
    LET S == job[j].vms IN
    /\ At(j, {"remove"}, "kill")
    /\ \E K \in SUBSET {v \in S : Up(v)} :
         Destroy(K) /\ lost' = lost \cup {v \in S \ K : Up(v)}
    /\ Goto(j, "rows", S)
    /\ UNCHANGED <<status, rows, doomed, known, released, taken, crossed>>

\* Mutant of RemoveRows: the first row is removed, the others are not.
RemoveRowsOnce(j) ==
    LET S == job[j].vms IN
    /\ At(j, {"remove"}, "rows")
    /\ \E v \in S : rows' = rows \ {v}
    /\ End(j)
    /\ UNCHANGED <<status, vm, doomed, known, released, lost, taken, crossed>>

\* The rows go one by one, up to the first that is not there any more.
RemoveRows(j) ==
    LET S == job[j].vms IN
    /\ At(j, {"remove"}, "rows")
    /\ \/ S \subseteq rows /\ rows' = rows \ S
       \/ ~(S \subseteq rows) /\ \E T \in SUBSET (S \cap rows) : rows' = rows \ T
    /\ End(j)
    /\ UNCHANGED <<status, vm, doomed, known, released, lost, taken, crossed>>

-----------------------------------------------------------------------------
(* The background. *)

\* The thread of _deleteapp: kill_instance may fail, which is only logged.
Kill(v) ==
    /\ v \in doomed
    /\ doomed' = doomed \ {v}
    /\ \/ Destroy({v}) /\ UNCHANGED lost
       \/ lost' = (IF Up(v) THEN lost \cup {v} ELSE lost) /\ UNCHANGED vm
    /\ UNCHANGED <<status, rows, job, known, released, taken, crossed>>

\* The age of a listed virtual machine: list_vms makes a new ServiceNode, and
\* ServiceNode.created is the time of its own creation.
mins_from_creation(v) == 0

\* check_sanity deletes the virtual machines that have no row and are older
\* than a minute.
check_sanity ==
    /\ Destroy({v \in VM : Up(v) /\ v \notin rows /\ mins_from_creation(v) > 1})
    /\ UNCHANGED <<status, rows, job, doomed, known, released, lost, taken, crossed>>

-----------------------------------------------------------------------------
Step(j) ==
    \/ StartCommit(j) \/ ReadRows(j) \/ DropRows(j) \/ DeleteEnd(j)
    \/ NewInstances(j) \/ WaitForNodes(j) \/ Register(j) \/ KillNodes(j) \/ RemoveRows(j)

Request(j, a) ==
    \/ startapp(j, a)
    \/ deleteapp(j, a, "stop") \/ deleteapp(j, a, "delete")
    \/ create_nodes(j, a)
    \/ \E S \in SUBSET VM : remove_nodes(j, a, S)

Next ==
    \/ \E a \in App : createapp(a)
    \/ \E j \in Job : Step(j) \/ \E a \in App : Request(j, a)
    \/ \E v \in VM : Kill(v)
    \/ check_sanity

Spec == Init /\ [][Next]_vars

-----------------------------------------------------------------------------
(* What the director promises. *)

\* Every virtual machine that runs has a row (and is paid for), or a request is
\* at work on it, or a thread will kill it, or a call has failed for it:
\* stopping, deleting and adding may race in any way.
Accounted ==
    \A v \in VM : Up(v) => v \in rows \cup doomed \cup lost \/ InJob(v)

\* A removal of nodes has killed v and has still to remove its row.
Removal(v) == \E j \in Job : At(j, {"remove"}, "rows") /\ v \in job[j].vms

\* The user is not charged for a virtual machine that the director has killed,
\* although it kills machines and removes their rows in two steps, with stops,
\* deletions and other removals between them.  The one exception is a batch of
\* nodes of which a stop has taken a row: the removal breaks off at that row
\* (get_resource_by_id returns None) and the rows after it stay.
NoCorpseCharged ==
    \A v \in rows : Up(v) \/ Removal(v)
                      \/ \E S \in released : v \in S /\ S \cap taken # {}

\* internals.rst:11 "The application manager represents the single control
\* point for the entire application": an application has one manager, however
\* nodes are added and removed while it is started and stopped, and whatever
\* fails.  The exception is a start that crosses another start or a stop.
SingleManager ==
    \A a \in App \ crossed : Cardinality(rows \cap OfApp(a, "manager")) <= 1

\* userguide.rst:193 "To stop using any credits you must also stop all your
\* applications": a stopped application has no machines that are charged, even
\* if stops crossed removals of nodes and broke off half-way.  The exception is
\* a start or an addition of nodes that crosses the stop.
StoppedCostsNothing ==
    \A a \in App \ crossed :
      status[a] = "STOPPED" /\ ~UnderWay(a, {"stop", "delete"}) =>
        rows \cap (OfApp(a, "manager") \cup OfApp(a, "agent")) = {}
=============================================================================
