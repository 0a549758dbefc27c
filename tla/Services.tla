------------------------------- MODULE Services -------------------------------
(***************************************************************************)
(* The director's list of services (cpsdirector.service) beside the        *)
(* services that the manager of the application has.                       *)
(*                                                                         *)
(* To add or to remove a service the director calls the manager and, when  *)
(* the answer has come, changes the Service table: two steps, in several   *)
(* request threads, of which either may fail.  Meanwhile the application   *)
(* may be stopped and started again, with a new manager that numbers its   *)
(* services from 1 as the old one did.  A row holds the number only.       *)
(*                                                                         *)
(* One application.  Its starts and stops do not cross each other and have *)
(* one manager at a time (Director is about those that do not).  Users     *)
(* remove services that they see in the list.                              *)
(***************************************************************************)
EXTENDS Naturals

CONSTANTS
    Job,        \* slots for the requests under way together (bound)
    MaxManager, \* how often the application is started (bound)
    MaxSid,     \* how many services a manager is asked for (bound)
    None

ASSUME ServicesAssumption == MaxManager \in Nat /\ MaxSid \in Nat

Manager == 1..MaxManager
Sid == 1..MaxSid

VARIABLES
    status,     \* Application.status
    manager,    \* Application.manager: the manager that has a row, or None
    started,    \* how many managers have been started
    alive,      \* the managers whose virtual machine runs
    service_id, \* the counter of each manager
    instances,  \* httpsserver.instances of each manager
    removing,   \* the services that workers of a manager are removing
    rows,       \* the Service table, with the manager that answered
    job,        \* the requests under way
    failed,     \* history: the services for which a call or a worker failed
    late        \* history: the numbers for which the answer of a manager came
                \* when the application had been stopped

managers == <<alive, service_id, instances, removing>>
vars == <<status, manager, started, managers, rows, job, failed, late>>

Of(m, s) == [mgr |-> m, sid |-> s]

Service == [mgr : Manager, sid : Sid]

\* A request: its kind, where it is, the manager it calls, the number of the
\* service, and for a stop the rows it has read.
Request == [kind : {"add", "remove", "stop"},
            pc : {"call", "answer", "read", "drop"},
            mgr : Manager \cup {None}, sid : Sid \cup {None},
            read : SUBSET Service]

\* None is neither a manager, nor a number, nor a request.
ASSUME NoneAssumption == None \notin Nat /\ None \notin Request

TypeOK ==
    /\ status \in {"INIT", "RUNNING", "STOPPED"}
    /\ manager \in alive \cup {None}
    /\ started \in 0..MaxManager
    /\ alive \subseteq 1..started
    /\ service_id \in [Manager -> 0..MaxSid]
    /\ instances \in [Manager -> SUBSET Sid]
    /\ removing \subseteq Service
    /\ rows \subseteq Service
    /\ job \in [Job -> Request \cup {None}]
    /\ failed \subseteq Service
    /\ late \subseteq Sid

Init ==
    /\ status = "INIT"
    /\ manager = None
    /\ started = 0
    /\ alive = {}
    /\ service_id = [m \in Manager |-> 0]
    /\ instances = [m \in Manager |-> {}]
    /\ removing = {}
    /\ rows = {}
    /\ job = [j \in Job |-> None]
    /\ failed = {}
    /\ late = {}

Begin(j, kind, pc, m, s) ==
    /\ job[j] = None
    /\ job' = [job EXCEPT ![j] = [kind |-> kind, pc |-> pc, mgr |-> m, sid |-> s,
                                  read |-> {}]]

At(j, kind, pc) == job[j] # None /\ job[j].kind = kind /\ job[j].pc = pc

End(j) == job' = [job EXCEPT ![j] = None]

Stopping == \E j \in Job : job[j] # None /\ job[j].kind = "stop"

-----------------------------------------------------------------------------
(* The application. *)

startapp ==
    /\ status \in {"INIT", "STOPPED"} /\ ~Stopping
    /\ started < MaxManager
    /\ status' = "RUNNING"
    /\ started' = started + 1
    /\ manager' = started + 1
    /\ alive' = alive \cup {started + 1}
    /\ UNCHANGED <<service_id, instances, removing, rows, job, failed, late>>

\* _deleteapp: the manager's row goes ...
stopapp(j) ==
    /\ ~Stopping
    /\ Begin(j, "stop", "read", None, None)
    /\ manager' = None
    /\ UNCHANGED <<status, started, managers, rows, failed, late>>

\* ... the rows of the services are read ...
ReadServices(j) ==
    /\ At(j, "stop", "read")
    /\ job' = [job EXCEPT ![j].pc = "drop", ![j].read = rows]
    /\ UNCHANGED <<status, manager, started, managers, rows, failed, late>>

\* Mutant of DropServices: the services are left to the manager.
DropServicesNot(j) ==
    /\ At(j, "stop", "drop")
    /\ status' = "STOPPED"
    /\ End(j)
    /\ UNCHANGED <<manager, started, managers, rows, failed, late>>

\* ... and removed one by one.  Each removal commits, and a row that a request
\* has removed meanwhile raises, which leaves the status as it was.
DropServices(j) ==
    /\ At(j, "stop", "drop")
    /\ \/ job[j].read \subseteq rows /\ rows' = rows \ job[j].read /\ status' = "STOPPED"
       \/ /\ ~(job[j].read \subseteq rows)
          /\ \E S \in SUBSET (job[j].read \cap rows) : rows' = rows \ S
          /\ UNCHANGED status
    /\ End(j)
    /\ UNCHANGED <<manager, started, managers, failed, late>>

\* Mutant of Kill: the manager of a running application is killed, too.
KillAny(m) ==
    /\ m \in alive
    /\ alive' = alive \ {m}
    /\ UNCHANGED <<status, manager, started, service_id, instances, removing, rows,
                   job, failed, late>>

\* The thread of _deleteapp kills the manager, and all it knew goes with it.
Kill(m) ==
    /\ m \in alive /\ m # manager
    /\ alive' = alive \ {m}
    /\ service_id' = [service_id EXCEPT ![m] = 0]
    /\ instances' = [instances EXCEPT ![m] = {}]
    /\ removing' = {r \in removing : r.mgr # m}
    /\ UNCHANGED <<status, manager, started, rows, job, failed, late>>

-----------------------------------------------------------------------------
(* Services: the director. *)

\* callmanager refuses when the application has no manager.
_add(j) ==
    /\ manager # None
    /\ Begin(j, "add", "call", manager, None)
    /\ UNCHANGED <<status, manager, started, managers, rows, failed, late>>

_remove(j, s) ==
    /\ manager # None
    /\ \E r \in rows : r.sid = s
    /\ Begin(j, "remove", "call", manager, s)
    /\ UNCHANGED <<status, manager, started, managers, rows, failed, late>>

\* The answer is applied whatever has happened to its manager.
Late(m, s) == late' = IF m = manager THEN late ELSE late \cup {s}

\* The manager has answered with the number of the new service.
InsertRow(j) ==
    LET w == job[j] IN
    /\ At(j, "add", "answer")
    /\ rows' = rows \cup {Of(w.mgr, w.sid)}
    /\ Late(w.mgr, w.sid)
    /\ End(j)
    /\ UNCHANGED <<status, manager, started, managers, failed>>

\* Mutant of get_service: the first row of the application.
get_serviceAny(s) == rows

\* The rows with the number; which of them is the first is not said.
get_service(s) == {r \in rows : r.sid = s}

\* The manager has agreed to remove the service.  Without a row, get_service
\* returns None and the request raises.
DropRow(j) ==
    LET w == job[j] IN
    /\ At(j, "remove", "answer")
    /\ \/ \E r \in get_service(w.sid) : rows' = rows \ {r}
       \/ get_service(w.sid) = {} /\ UNCHANGED rows
    /\ Late(w.mgr, w.sid)
    /\ End(j)
    /\ UNCHANGED <<status, manager, started, managers, failed>>

-----------------------------------------------------------------------------
(* Services: the manager. *)

\* The request goes on with the answer, or the answer is lost.
Answer(j, m, s) ==
    \/ job' = [job EXCEPT ![j].pc = "answer", ![j].sid = s] /\ UNCHANGED failed
    \/ End(j) /\ failed' = failed \cup {Of(m, s)}

add_service(j) ==
    LET m == job[j].mgr IN
    /\ At(j, "add", "call")
    /\ m \in alive
    /\ service_id[m] < MaxSid
    /\ service_id' = [service_id EXCEPT ![m] = @ + 1]
    /\ instances' = [instances EXCEPT ![m] = @ \cup {service_id'[m]}]
    /\ Answer(j, m, service_id'[m])
    /\ UNCHANGED <<status, manager, started, alive, removing, rows, late>>

\* A worker is started; the answer does not wait for it.
remove_service(j) ==
    LET m == job[j].mgr  s == job[j].sid IN
    /\ At(j, "remove", "call")
    /\ m \in alive
    /\ s \in instances[m]
    /\ removing' = removing \cup {Of(m, s)}
    /\ Answer(j, m, s)
    /\ UNCHANGED <<status, manager, started, alive, service_id, instances, rows, late>>

\* The call fails, or the manager does not know the service: nothing is changed.
CallFails(j) ==
    /\ At(j, "add", "call") \/ At(j, "remove", "call")
    /\ End(j)
    /\ UNCHANGED <<status, manager, started, managers, rows, failed, late>>

\* _do_stop_service ends and deletes the instance (another worker for the same
\* service meets a KeyError), or dies of a failed call (another may go on).
_do_stop_service(r) ==
    /\ r \in removing
    /\ \/ /\ instances' = [instances EXCEPT ![r.mgr] = @ \ {r.sid}]
          /\ removing' = removing \ {r}
          /\ UNCHANGED failed
       \/ /\ removing' \in {removing, removing \ {r}}
          /\ failed' = failed \cup {r}
          /\ UNCHANGED instances
    /\ UNCHANGED <<status, manager, started, alive, service_id, rows, job, late>>

-----------------------------------------------------------------------------
Next ==
    \/ startapp
    \/ \E m \in Manager : Kill(m)
    \/ \E j \in Job : \/ stopapp(j) \/ ReadServices(j) \/ DropServices(j)
                      \/ _add(j) \/ (\E s \in Sid : _remove(j, s))
                      \/ InsertRow(j) \/ DropRow(j)
                      \/ add_service(j) \/ remove_service(j) \/ CallFails(j)
    \/ \E r \in Service : _do_stop_service(r)

Spec == Init /\ [][Next]_vars

-----------------------------------------------------------------------------
(* What the list promises. *)

\* A request that the manager has served and that has not changed the table yet.
Answering(kind, r) ==
    \E j \in Job : At(j, kind, "answer") /\ Of(job[j].mgr, job[j].sid) = r

\* service.py:299 "List running ConPaaS services": every service that the
\* manager of the application has is listed, or is about to be, or is being
\* removed, however requests, stops and starts cross and answers are lost.  The
\* exceptions are services for which a call or a worker failed, and numbers for
\* which an earlier manager answered when its application had been stopped.
Listed ==
    manager # None =>
      \A s \in instances[manager] \ late :
        LET r == Of(manager, s) IN
        r \in rows \cup failed \cup removing \/ Answering("add", r)

\* No ghosts: whatever is listed is a service that the manager of the
\* application has, or one whose removal is about to be entered in the table,
\* and a stopped application lists none.  The exceptions are the same.
NoGhost ==
    \A r \in rows : r \notin failed /\ r.sid \notin late =>
      /\ manager # None =>
           r.mgr = manager /\ (r.sid \in instances[manager] \/ Answering("remove", r))
      /\ status = "STOPPED" => Stopping
=============================================================================
