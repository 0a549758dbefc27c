# ConPaaS in TLA+

ConPaaS runs applications on virtual machines of one or several clouds. A
**director** keeps users, applications and virtual machines in a database; every
application has one **application manager** in a virtual machine of its own, and
the manager runs the **services** of the application on further virtual machines
(nodes), each with an **agent**. This project models the parts that hold state
and run concurrently, checks them with TLC and proves the central invariants
with TLAPS.

Paths: `core/`, `services/` are below `src/conpaas-services/src/conpaas/`;
`application.py`, `service.py`, `cloud.py`, `credits.py`, `iaas/` below
`src/conpaas-director/cpsdirector/`; `userguide.rst`, `internals.rst` in `src/docs/`.

## 1. Inventory

| part | state | operations | talks to | what is hard | correct when |
|---|---|---|---|---|---|
| application manager, `core/manager.py` | `state`, `service_id`, `nodes`, `volumes`, `httpsserver.instances` | add/remove/start/stop service, add/remove nodes, create/delete volume | director (callbacker), agents, service managers | one server thread, a worker thread per request, no lock but the state; failing calls | lists name live nodes; nothing released twice or leaked; transient states end |
| Generic service manager, `services/generic/manager/manager.py` | `state`, `nodes`, `agents_info`, `master_ip`, code versions | hooks `on_start`, `on_stop`, `on_add_nodes`, `on_remove_nodes`; code versions; scripts | agents | runs inside the workers; loops over lists that other workers change; scripts that run on | a running service has its master; all nodes run the active code; `init.sh` comes first |
| callbacker, `core/callbacker.py` | none | calls to the director | director | `False` for a failure, a dictionary for a refusal | - |
| HTTPS server, `core/https/server.py` | table of instances and methods | dispatch | handlers | one thread; the table changes under it | - |
| applications, `application.py` | `Application` rows | create, start, stop, delete | cloud requests, threads | five request threads (`WSGIDaemonProcess ... threads=5`), minutes between steps | one manager; a stopped application costs nothing |
| resources, `cloud.py` | `Resource` rows | create/remove nodes, volumes | controller, billing | rows removed by others | every running machine has a row or somebody at work on it |
| IaaS controller, `iaas/controller.py` | lists of a call | create, wait, delete | cloud drivers | partial failure, timeouts | failed nodes are killed |
| billing, `credits.py` | `User.credit`, `Resource.charged` | `check_credits`, `check_sanity` | all of the above | sessions that overlap, last commit wins | nobody pays twice, nobody runs for free |
| director services, `service.py` | `Service` rows | add, remove, call a manager | manager | two steps, one fails | rows match the manager's instances |
| manifests, `manifest.py` | none | start a described application | services | waits for states | - |
| users and certificates, `user.py`, `idp.py`, `x509cert.py` | `User` rows | accounts, credit | billing | credit is shared with billing | - |
| web hosting manager, `services/webservers/` | roles of every node, counts, code version | hooks, updates of configuration, weights, CDN | agents | roles that are packed and unpacked, call by call; the server thread updates proxies too | every role is served throughout; proxies route to running daemons |
| MySQL manager, `services/mysql/` | MySQL nodes, load balancers | hooks, removal by address | agents, Galera | nodes join by addresses read earlier; load balancers are told by separate calls | one replication group; no dead server behind a load balancer |
| XtreemFS manager, `services/xtreemfs/` | lists of DIR, MRC, OSD | hooks, snapshot | agents, clients' files | calls that fail half-way, drains | daemons have their directory; files survive removals |
| agents | class files, processes | create, update, stop a daemon; scripts | manager | they refuse what does not fit their state | nothing is refused in normal operation |
| monitoring, VPN, git | files | start, stop, configure | manager | - | - |
| clients, frontend, blueprints, vendored libcloud | none | - | director | - | - |

`PROJECT.json` lists the components with their status, and under `hazards` the
places where this code is hard to test.

## 2. Modules

| module | models |
|---|---|
| `AppManager` | application manager, callbacker, server thread and the hooks of the Generic manager |
| `AppManagerProofs` | theorems about the machines of `AppManager`, for all values of the constants; `AppManager` implements `NodePool` |
| `LifecycleProofs` | theorems about the services and volumes of `AppManager`, likewise |
| `NodePool` | abstract specification: what a manager promises about virtual machines |
| `GenericCode` | code versions and scripts of the Generic service, manager and agents |
| `WebHosting` | the web hosting (PHP) manager and its agents |
| `Galera` | the MySQL manager, its agents, replication groups and load balancers |
| `XtreemFS` | the XtreemFS manager, its agents and the files of clients |
| `Director` | applications, the Resource table, the controller, the sanity check |
| `Services` | the director's list of services beside the manager's instances |
| `Billing` | `check_credits` in overlapping database sessions |
| `GenericCodeProofs`, `WebHostingProofs`, `GaleraProofs`, `XtreemFSProofs`, `DirectorProofs`, `ServicesProofs` | theorems about these six modules, likewise |
| `MC...` | instances for TLC with their symmetry; constants are in the `.cfg` files |

`AppManager` is about the part that all services share (state, lists, workers,
machines, stops that interrupt) and has the hooks of the Generic service. The four
modules after it each take one service and look inside the hooks, at the calls to
the agents one by one; there the application manager is the same in outline
(checks, transient state, worker), one service is running and nobody stops it while
a worker is alive. `Director`, `Services` and `Billing` are the other side of the
calls to the director.

### AppManager

*State.* `mstate`, `service_id`, `instances`, `nodes`, `volumes` are the fields
of `ApplicationManager`; `state`, `snodes`, `master`, `agents` those of the
service managers, as functions of the service; `request` is what the server
thread has checked and not yet committed; `thread` the workers with their local
variables; `up` and `owner` what the director knows. `stops` and `died` are
history: services somebody stopped, and services for which a call failed or a
worker died of an exception.

*Actions.* A handler is two steps, its checks (`start_service`, `add_nodes`,
...) and its commit (`Commit`: transient state, new thread): the checks call the
director or agents, so workers move in between. A worker is split where it calls
out or where another thread can see the difference: `Begin`, `CreateNodes` (and
its failures `CreateRefused`, `CreateFailed`, `CreateLost`), the hooks
(`on_start`, `on_add_nodes` and `AddNotify`, `on_remove_nodes` and
`RemoveNotify`, `on_stop` and `ClearService`), `DropNode` for every node,
`Release`, `Forget`; volumes have `CreateVolume`, `MountVolume`, `DestroyVolume`.

*Abstractions.* A refused request changes nothing and is no step. The credit is
the director's: a check that passes and a later refusal are both possible. An
error reply (a dictionary) and the list of its keys are both `<<Junk>>`. A
failed `on_remove_nodes` may have popped any number of `agents_info`. The volumes
in the cloud are not modelled, only the manager's table. `stopall` raises before
it changes anything. Service 0, the application manager itself, is not in
`instances`. The deletion of the volumes of a node is one step with the removal
of the node. `self.nodes` is a set: its order is never used.

### NodePool

Four sets: machines `given`, `running`, `listed` and `leaving`. `Give`, `TakeOff`,
`Return` and `Lose` are all that may happen to them. `AppManager!Pool` maps `given`
to the machines with an owner, `running` to `up`, `listed` to `self.nodes` and
`leaving` to what workers have taken off the list and not handed back; a start, an
addition, a removal, a stop, a lost answer and a worker that dies are each one of
the four or a stutter (`ImplementsNodePool`).

### GenericCode

*State.* `state`, `versions`, `current`, `nodes` of the manager; `code`, `running`
(the scripts that `self.processes` knows), `begun` (init.sh was given the code),
`intr` (the threads of `_do_interrupt` that have still to start their script) of
every agent; `request` is the probe of `_are_scripts_running`
that the server thread is in; `thread` the workers. `crossed` is history.

*Actions.* `_update_code` and `_do_execute_script` walk over a list by index, one
agent at a time, as a Python `for` does over a list that shrinks or grows in place:
`UpdateCode` and `StartInit`, `CallScript`. `Probe`, `Refuse` and `Commit` are the
check-then-act of `enable_code` and `execute_script`. An agent is busy during
`update_code`; `DoInterrupt` and `ScriptEnds` are its own steps. A kill is a SIGTERM
that nobody waits for: any of the scripts may live on. `update_code` then forgets the
processes of the old version, so that no later check sees them; those are not in
`running`.

*Abstractions.* `cleanup.sh` is as `run.sh`. Uploads by archive and by git are one
action. A call fails at any point (`Fail`).

### WebHosting

*State.* `count`, `roles`, `nodes`, `current`, `cdn` of the configuration; `daemons`,
`routes`, `code` of every agent. A worker is the sequence of loops over agents
(`todo`) that its hook makes, worked out as the hook does, each with the nodes it has
still to call; `Turn(i)` is the loop it is in. `request` is an update of the
proxies from the server thread. History: `failed`, `raced`, `misplaced`.

*Actions.* The handlers; the hooks `on_start`, `on_add_nodes`, `on_remove_nodes`,
`on_stop`, `do_update_configuration`, which write the roles and leave the calls to
`AgentCall` (one agent that takes the call: `Takes`, `CdnOK`) and `CallFails`, a call that is
refused (the manager catches the `AgentException`, sets `S_ERROR` and raises it again)
or lost (another exception, which leaves the state: `CallError`); `Finish` and
`Destroy`; `UpdateProxies`, `ServerCall` for `update_nodes_weight` and `cdn_enable`.

*Abstractions.* Weights, ports and PHP settings are left out, so that
`update_nodes_weight` only sends the lists again. The Java manager differs in the
backend's calls only.

### Galera

*State.* `sql` and `glb` are the two tables; `daemon`, `group`, `balanced` say what
every agent runs, which node founded its group and what its load balancer balances.
A worker reads the addresses of the nodes (`existing`) when it begins, starts the
servers one by one (`start_mysqld`: joins when `existing` is not empty, founds a
group otherwise), tells the load balancers (`add_glbd_nodes`), writes the table
(`Joined`), and so on; removals the other way round. `Fail` ends a worker anywhere.

### XtreemFS

*State.* The lists `dirNodes`, `mrcNodes`, `osdNodes`; `nodes`, the machines on
`self.nodes`, and `leaving`, those that are being handed back; `runs`, the class files
of the agents; `holds`, the OSDs with files. A worker has a sequence of `calls`. `Serve` is
a call that the agent does, `Refuse` one that it refuses, `Fail` one that fails
before or after it was done. `Drain` moves the files of an OSD that is stopped to
others that run. `Removed` shows `S_RUNNING`; only then `DropNode` takes the machines
off `self.nodes` one by one, and the director kills them (`Killed`), with any request
in between. `StartRefused` is a start whose reply from the director is an error
dictionary: its key, `Junk`, goes on all three lists. History: `failed`, `refused`,
`undrained`.

### Director

*State.* `status` of the applications, `vm` the machines in the clouds, `rows`
the Resource table, `job` the requests under way, `doomed` what `delete_nodes`
threads have still to kill. History: `known` (had a row, so a manager can have
been told), `released` (the batches that managers asked to remove), `taken` (a stop or
a deletion removed the row), `lost` (a call failed and
nobody holds the machine any more), `crossed` (a start was under way
together with another start or a stop, or an addition of nodes with a stop).

*Actions.* `startapp` reads the status and `StartCommit` writes it; the start of
a manager and `create_nodes` share `NewInstances`, `WaitForNodes`, `Register`;
stop and delete are `deleteapp`, `ReadRows`, `DropRows`, `DeleteEnd` and later
`Kill`; `remove_nodes` goes on with `KillNodes` and `RemoveRows`;
`check_sanity` runs in the background. A row that another request has removed
makes `DropRows` and `RemoveRows` stop half-way, and a row of a service that is gone
makes `DeleteEnd` leave the status. Since check_credits stops
applications through the same `_deleteapp`, a stop by the billing is a
`deleteapp` that may come at any time.

*Abstractions.* Clouds are not told apart. A machine is never started twice with
one identifier. Managers ask to remove only nodes they were given, each once:
that is what `AppManager!ReleasedOnce` proves of them. The removal of the rows
of one request is one step; the part that is removed before an exception is any
part.

### Services

One application that is started, stopped and started again. `rows` is the Service
table, `instances` and `service_id` what each manager has; a row records which
manager answered, which the code cannot see. An addition or removal is a call
(`"call"`), the manager's answer (`"answer"`) and the change of the table; a stop
reads the rows, drops them and kills the machine. Answers are lost, workers of a
removal die, and requests go on while the application is stopped and started.
History: `failed` and `late` (see the properties).

### Billing

One user. `created`, `charged`, `ended` are the Resource rows, `session` the
sessions inside `check_credits` (the background thread `"daemon"` and the
requests that created nodes): each reads the credit (`ReadUser`), then the rows
(`ReadRows`), then commits (`Commit`), and a session that must update a row
that is gone fails. SQLAlchemy writes attributes that changed, with the value
the session worked out; that is `NewCharge`. The clock is `now`; `Unit` ticks are an
hour. `Slow` says whether the clock may move while a check is between its first
read and its commit. Applications are not told apart, and the removal of rows is
a step that may come at any time.

## 3. Runs

`AppManager`:

- `nodes` (one service, three nodes, two workers, up to two nodes at once): the
  state is a lock (`StateIsLock`), lists are live (`NodesLive`), no double release
  (`ReleasedOnce`), no leak without a failure (`NoLeak`), the master is there
  (`RunningHasMaster`). Three nodes are the least with which two overlapping
  removals of different sizes meet; races between two workers and the server
  thread need two slots.
- `volumes` (two volumes, two nodes, two devices): `DevicesDistinct`; `NamesKept`
  (an entry of the table is never overwritten within a service, although the name
  is checked long before it is entered); `ImplementsNodePool`.
- `live`: under fairness every transient state ends (`TransientEnds`) and the
  manager leaves `ADAPTING` (`RemovalEnds`), unless a call failed or a worker died.
- `stuck` (violation): a comment says that a service leaves its transient states
  (`core/manager.py:50`). `PollingEnds` excepts services that somebody stops or
  removes, and still fails: `add_service`, `start_service`, the call to the director
  fails, `create_nodes` returns `None`, `self.nodes += nodes` raises `TypeError`, and
  the service is in `PROLOGUE` for ever.

`GenericCode`: `code` (three nodes, two versions, two workers) checks `SameCode`,
`InitFirst` and `ActiveKept`. `InitFirst` is about all scripts that an agent keeps:
none of them starts before `init.sh` of its version, except `interrupt.sh`, and then
only while a worker is in `update_code` of that node. Two workers and the probing server thread are what is
needed for an activation to overlap a removal, an addition or a script.

`WebHosting`: `web` (four nodes, two versions) checks `AlwaysServed`, `RoutesAlive`,
`Settled` and `NothingRefused`. Four nodes give every way to pack and unpack both
roles, and two proxies with both roles separate.

`Galera`: `galera` (five nodes, two at once) checks `OneGroup`, `NoDeadBackend` and
`Balanced`: two MySQL nodes that join two others, with a load balancer. `last`
(violation): the last MySQL node can be removed by its address, and the service is
`RUNNING` without one, against a comment at `services/mysql/manager/manager.py:604`.

`XtreemFS`: `xtreemfs` (five nodes, two at once) checks `Rooted`, `Settled`,
`DataKept` and `NothingRefused`. `Settled` says of a service that shows `S_RUNNING`
that its lists name what runs, and every machine of `self.nodes` that no removal is
still handing back.

`Director`: `machines` (three machines, two requests at once) checks `Accounted`,
`NoCorpseCharged`, `SingleManager` and `StoppedCostsNothing`. The last two except
applications that are in `crossed`, and `NoCorpseCharged` excepts the batches of nodes
of which a stop has taken a row; the section below says what happens to those.

`Services`: `services` (two requests at once, two managers, two services each)
checks `Listed` and `NoGhost`.

`Billing`: `charges` (two machines, a request thread beside the background thread,
two hours) checks `NeverOvercharged` for sessions that overlap in any order
between two ticks of the clock, and `EveryVMCharged` under fairness.

### Disagreements without a run

Where a property has an exception, the exception is a history variable, and TLC
shows the property violated without it. These are the disagreements between the
code and its documents, comments or evident purpose that the models contain.

Application manager:

- A removal sets `S_RUNNING` before its nodes leave the list; a second removal is
  checked against the old list and takes the master
  (`services/generic/manager/manager.py:266`, against `userguide.rst:660`).
- `_do_create_volume` enters a volume whose node was removed meanwhile
  (`core/manager.py:709`, against the comment at line 549). Two services create a
  volume of the same name at once (`core/manager.py:641`, against
  `userguide.rst:856`). A deletion in the loop at line 550 raises `KeyError` when
  another worker has just deleted the entry.

Generic service:

- A node that is added behind one that a removal has still to take off the list is
  skipped by an activation that walks over the list (`crossed`).
- `interrupt.sh` of a new version may start before its `init.sh`: the thread that the
  agent starts for an interruption (`generic/agent/agent.py:343`) does not wait for an
  `update_code` that is under way (against `userguide.rst:674-675`). A script of the
  old version that does not end at SIGTERM runs on beside the new ones, and no check
  sees it (`generic/agent/agent.py:138` and `:382-391`).
- `interrupt.sh` is started though nothing runs any more, an activation kills a
  `run.sh` that started after the probe, and a late interruption kills the `init.sh`
  of the next version: in each case the check and the act are two steps.
- An activation ends with `S_RUNNING` whatever a stop has set meanwhile (line 491;
  `GenericCode` has no stop).

Web hosting:

- `get_starting_nodes` (`internal/__init__.py:131-134`) gives nobody the backend
  role after a stop with separate web nodes and a packed backend (`misplaced`).
- When a web node and a proxy are removed together, the proxy that leaves still
  routes to the web node that was stopped.
- `cdn_enable` checks no state (`raced`), and the agents expect a boolean where the
  manager sends an address (`agent/internals.py:225-260`): while a CDN is set, every
  creation and update of a proxy is refused, and the service is in `S_ERROR`. A request
  to update the proxies that ends late sets `S_ERROR` over whatever the worker has set
  meanwhile, a stop's `S_STOPPED` included (`php.py:144-147`).
- A call that is refused leaves `S_ERROR`, one that is lost the transient state; after
  a failed start a later stop dies as well. A failed stop
  call in `on_remove_nodes` is logged, `S_RUNNING` is set, and the worker dies of an
  unbound `del_nodes`. After a failed addition a service may have two proxies over a
  packed node.

MySQL:

- `remove_specific_nodes` with an unknown address returns after `S_ADAPTING` was set
  (line 656); removing by address hands no machine back (line 663); after the last
  node was removed, two that are added together found a group each (`emptied`).
- A stop that failed after it had stopped a load balancer can never succeed: the
  next one begins by calling it (line 364).

XtreemFS:

- `client._check` raises `Exception`, the manager catches `AgentException`: no
  failure is handled. Adding a DIR or an MRC raises `TypeError` after the lists were
  extended (lines 557 and 563), and from then on every stop is refused by an agent.
- A start that the director refuses puts the word `error` on the three lists
  (`callbacker.py:54`, `services/xtreemfs/manager/manager.py:349-351`). Every later
  stop dies on its missing `ip`, so that the service can never be started again. A
  refused addition, to any service, leaves the word on the application manager's
  `self.nodes`: the loops that hand machines back then die at `n.id`
  (`core/manager.py:554` and `:625`), and the machines stay up. The models allow that
  (`Killed` need not happen; `AppManager` has `Junk` on its lists).
- A failed removal forgets an OSD that runs, which has left the list first. A failed
  drain is only logged (`agent/role.py:283`, against `userguide.rst:625`).
- `get_service_snapshot` always dies, with the daemons stopped and the service in
  `EPILOGUE`. The flag `persistent` (line 72) is never read.

Director:

- Two starts at once start two managers (`application.py:193`, against
  `internals.rst:11`); a start or an addition that crosses a stop leaves machines
  that are charged (`application.py:257`, against `userguide.rst:193`).
- A removal of several nodes that crosses a stop may leave a row of a machine that was
  killed: the stop has taken the row of one, breaks off at the missing row of another,
  and `get_resource_by_id` returns `None` to the removal, which then leaves the
  rows that follow (`cloud.py:184`, against `userguide.rst:184`). This is the exception
  in `NoCorpseCharged`.
- The sanity check removes nothing, since a listed machine is always new
  (`core/node.py:42`, against the comment at `credits.py:93`).
- `user.credit == 0` is a comparison where an assignment was meant (`credits.py:73`,
  against `userguide.rst:187`). `res.charged` grows by the sum over all rows so far
  (`credits.py:69`, against `userguide.rst:184`), so that later rows run for free for
  a while. When the clock moves during a check (`Slow`), two checks charge an hour
  twice. Credit that is added during a check is overwritten by its commit
  (`credits.py:71`), which is why `NeverOvercharged` speaks of users that were given
  none.
- A late answer of a stopped manager enters a row for a service that is gone, or
  removes the row of the new manager's service with the same number. When the answer
  to a removal is lost, the row can never be removed: the manager refuses the retry.

### Bounds

`Thread`, `Job` and `Client` bound what is under way together; `MaxService`, `Node`,
`VM`, `MaxVM`, `MaxManager`, `MaxSid`, `Version` what is ever created (in
`WebHosting`, `Galera` and `XtreemFS` nodes that were handed back are used again, so
that histories are not bounded); `MaxCount`, `MaxNodes` how much is asked for at
once; `MaxIntr` (1) the interruptions of an agent whose thread has still to start its
script; `MaxTime` the clock; `MaxDev` the device letters (never reached when
`MaxDev >= Cardinality(VolName) - 1`). Two services with all operations are too many
states for TLC; workers of different services share only `self.nodes`,
`self.volumes` and the table of instances, and the theorems cover any number of
services. `machines` and `services` were also run with three requests at once, with
the same result in four minutes each. The largest run, `code`, has 3.1 million
distinct states.

Deadlock is checked in the runs of `GenericCode`, `WebHosting`, `Galera`, `XtreemFS`
and `Services`. In `AppManager`, `Director` and `Billing` it is not: machines, services
and time are used up, and when all requests are served nothing is left to do.

*Fairness.* Threads run, and calls return, if only by failing. The first is the
operating system's; the second is an assumption about the network, since the HTTPS
client (`core/https/client.py`) sets no timeout on its sockets: a peer that neither
answers nor closes the connection would hold a thread for ever. (The wait for
machines to come up does end: five minutes in `_wait_for_nodes`.) Under it there is
weak fairness on the server thread's commit,
on every worker, on every step of a request or a session, on every kill, and on the
background thread, which wakes up every minute. Nobody has to send a request.

## 4. Proofs

Every theorem is about all values of the constants that the named assumptions of
its module allow: any number of nodes, machines, services, worker threads and
requests under way, where the runs have two or three. Each inductive invariant was
an invariant of a TLC run before it was proved.

The assumptions say that `None` (and `Junk`) are not also a node, a record, a
sequence or a number, that bounds are numbers, and, where code counts (`Cardinality`), that the set
of machines is finite.

### AppManager: machines (`AppManagerProofs`)

- `TypeCorrect`: `Spec => []TypeOK`
- `NodesStayLive`: `Spec => []NodesLive`
- `NothingReleasedTwice`: `Spec => []ReleasedOnce`
- `Refinement`: `Spec => ImplementsNodePool`
- `PoolIsSound`: `Spec => []Pool!Sound`

They rest on `Inductive`: `Spec => []IInv`. `NodesLive` and `ReleasedOnce` need each
other: a node may leave `up` only when it is on no list and no other worker has it.
`IInv` adds what links a worker to the lists: the nodes it works on belong to its
service (`WorkerOK`), no list names a node twice (`ListsOK`, without which removing
one place would leave the node on the list), a worker of `_do_stop_service` in its
loop has nodes that are no longer on the list of the service, and a worker in a
loop has a node left. The step that carries the argument is `DropNodeStep`: a
worker takes a node only when it finds it in `self.nodes`, so that a node is taken
by one worker. Nodes that come are all cases of `DeliverStep`; workers that only
move are `SlotStep`.

`Refinement` is proved from the same `IInv` and one more fact, `EmptyHanded` (a worker that starts a service or adds nodes
has taken none). The step of each action is shown to be one of `Give`,
`TakeOff`, `Return`, `Lose` or a stutter. What it needs of `IInv` is that the nodes two
workers have taken are disjoint: otherwise the `Release` of one would leave its nodes
in `leaving` on behalf of the other. `PoolIsSound` is what the
abstract specification is for: every step of a `NodePool` keeps `Sound` (`PoolStep`), so
the manager has it too: a machine that was handed back is never listed or handed back
again.

### AppManager: services and volumes (`LifecycleProofs`)

- `LockAlways`: `Spec => []StateIsLock`
- `MasterAlways`: `Spec => []RunningHasMaster`
- `NothingLeaks`: `Spec => []NoLeak`
- `DevicesAlwaysDistinct`: `Spec => []DevicesDistinct`
- `NamesAlwaysKept`: `Spec => NamesKept`, an action property

They rest on one invariant, `LInv`, above `IInv`. What it says of a service that
nobody stops (`InOrder`) is disturbed only by workers of that service: `WorkFrame`
says once and for all what a step of a worker leaves alone, and `OthersStep` disposes
of every other service, so that the lemmas `Own...` are about one service and its
own worker. The parts of `InOrder`:

- `Lock`: `StateIsLock` itself is inductive once it is known that stops come from
  requests to stop (`Stopped`). The check of a handler says that no worker is busy,
  and only a busy worker sets the state, so the check holds until the commit.
- `Mastered`: it is not enough that the master heads the list of a running service.
  A worker sets `S_RUNNING` before it takes its nodes off the list, so the
  invariant must say that no worker, at whatever place, is going to take the head;
  `PoppedAllOrNotHead` says why `on_remove_nodes` never pops it except with all the
  others, when the service is `STOPPED`.
- `Anew`: a start may come while workers of that last removal are still at their
  loops. Their nodes are disjoint from the new list, which a node in their hands
  cannot be on: the new nodes had no owner, theirs have.
- `Covered`: a start replaces the list of the service. Nothing leaks then, since in
  the states in which a start may be asked for (`Replaceable`) every node of the
  list is in the hands of a worker that removes it.

`VolumesOK` is the same thought for volumes: while a creation is on its way, the name
it was checked for is free in its service and the device it chose is not in the
table. Only another busy worker of the service could change that, and `Lock` says that
there is none; a worker of another service works on another node.

### GenericCode (`GenericCodeProofs`)

- `TypeCorrect`, `SameCodeAlways` (`SameCode`), `InitFirstAlways` (`InitFirst`),
  `ActiveAlwaysKept` (`ActiveKept`)

The loops walk by index over lists that other workers change, so that the invariant
relates indices to lists. Its parts:

- `Lock`: all workers but those that execute a script, and those at the end of a
  removal, have the service in their state, alone.
- `Uniform`: every agent on the list has the active version, or a worker is still
  `Due` to come to it: the node stands at its index or behind.
- `InOrder`: what keeps `Due` true while the list shrinks. The nodes that a removal
  will take off are the last of the list, last first (`AtEnd`), and stay so as they go
  one by one: no node moves to an index the loop has passed. This holds until
  nodes are added behind nodes that a removal is about to take (`crossed`).
- `FirstStays`: the first node is in no removal, so that an activation has a node to
  send the new version to, and looks the version up before it ends. Hence `Known`: the
  active version exists, unless it was deleted after the check of `enable_code` and
  before the first call, and then the service is in `S_ADAPTING`.
- `OneAtATime`: one worker at a time is in a call to an agent, and until `init.sh` has
  begun nothing but an interruption runs there.

`Removal` and `WithoutFacts` say what `list.remove` does to indices: on a list
without duplicates (`Distinct`) it takes one place out.

### WebHosting (`WebHostingProofs`)

- `TypeCorrect`, `AlwaysServedAlways` (`AlwaysServed`), `RoutesAliveAlways`
  (`RoutesAlive`), `SettledAlways` (`Settled`), `NothingRefusedAlways`
  (`NothingRefused`)

`IInv` has two halves. `Always` holds whatever fails: types, which worker fits the
state (`WorkerFits`: its own, or `S_ERROR` once the server thread was refused), and the order of the loops of a program (`Ordered`): web and
backend daemons are created before proxies are created or told, and stopped after
that; a stop of the service ends the proxies first. `Healthy` holds while no call has
failed:

- `DaemonsOK`: a node runs the daemons of its roles, without those that the
  program has still to create (`Pend`) and with those it has still to stop. While
  the service stops, `StoppingOK` takes its place.
- `Shape`: every role is taken, and a role that is packed with the proxy is on that
  node only. The hooks count on it when they pack and unpack roles. It is not
  inductive by itself: nothing but a stop may have calls to make without nodes.
- `CountsOK`, `CodeOK`, `RoutesOK`: the counts are right except in an addition or a
  removal; an agent has the code, or a call with it to come; a proxy that stays has the
  lists of the moment, or will be told and has lists of daemons that run.

For every hook one lemma says what it does to the roles (`...HookFacts`) and one what
its program calls (`...Program`). A call then takes one item out of `Pend` and does
the same to the agent (`CallFacts`, `HealthyAgentCall`), and `Ordered` says what
else is done already: when a daemon is stopped, the proxies have been told. At the end
nothing is pending and what is left of `Healthy` is `Settled`. `NothingRefused` is
`DaemonsOK` read at the loop the worker is in.

### Galera (`GaleraProofs`)

- `TypeCorrect`, `OneGroupAlways` (`OneGroup`), `NoDeadBackendAlways`
  (`NoDeadBackend`), `RunningIsBalanced` (`Balanced`)

What is promised holds at the end of a hook; in between, a part of the nodes has been
called and a part (`on`) has not. `Adding` and `Removing` say at every place of
`_start_mysqld`, `_start_glbd` and `_do_remove_nodes` what each part runs and
balances. `OneGroup` needs of an addition that the addresses in `existing` are still
those of `sql`, all of one group, and non-empty unless `emptied`; `NoDeadBackend`
needs of a removal that a load balancer that was told has forgotten the servers that
go, all of them before the first is stopped.

### XtreemFS (`XtreemFSProofs`)

- `TypeCorrect`, `RootedAlways` (`Rooted`), `SettledAlways` (`Settled`),
  `DataAlwaysKept` (`DataKept`), `NeverRefused` (`NothingRefused`)

A worker is described by what it has called and what it has still to call: `Starting`
counts the daemons of the one node down in the order of their creation, `Adding` says
that all OSDs run but the `Pending` ones, `Removing` that the only OSD that runs off
the list is the one about to be stopped. `Rooted` must hold of services that any
earlier failure has left behind: all that `Stopping` knows of them is that the calls
come to the directories last, and that whatever runs of the other lists has still a
call to come. `NothingRefused` needs the exact match of daemons and calls, which holds
while nothing has failed (`Level` at rest). All of this is `InOrder`; after a refused
start nothing of it holds, and `Poisoned` takes its place: one `error` on every list,
no machine, and nothing to come but stops that die, so that `IInv` is
`InOrder \/ Poisoned`. A machine that is handed back after `S_RUNNING` runs no daemon
of the service any more, so `InOrder` is about `Mine`, the others. `DataKept` does not depend on the
lists: a removal that drains moves the files to OSDs that run, whichever these are.

### Director (`DirectorProofs`)

- `TypeCorrect`, `AccountedAlways` (`Accounted`), `NoCorpseChargedAlways`
  (`NoCorpseCharged`), `SingleManagerAlways` (`SingleManager`),
  `StoppedCostsNothingAlways` (`StoppedCostsNothing`)

The life of a machine has two halves. Until its row is written (`known`) one request
has it, or a call failed for it (`Creating`, `Apart`, `Traced`); afterwards its row
goes only by a removal that its manager asked for or by a stop, and then a request or
a `delete_nodes` thread has it (`Removing`, `Stopping`, `Blamed`). `NoCorpseCharged`
needs that two removals never have the same machine, which is what `released` keeps,
and that a removal breaks off only at a row of its own batch in `taken`.
The last two properties are about applications in which no requests cross. `Orderly`
says what that means: a start is alone with its application, removals of nodes apart,
and finds no rows; additions share it with each other; a stop that has read the rows
has read all of them. `Sparse` is what follows for the table.

### Services (`ServicesProofs`)

- `TypeCorrect`, `ListedAlways` (`Listed`), `NoGhostAlways` (`NoGhost`)

A row and an instance of a manager are entered by two steps, and removed by two, with
other requests between. The proof turns on numbers: a manager numbers its services
upwards, and no row and no request of it mentions a number it has not counted
(`Counted`), so that nobody can have asked to remove a service whose row has yet to be
entered (`Entering`). `Leaving` says that a worker that removes a service has the
request that will drop the row beside it, or the row is gone. `Stale` says that rows of
earlier managers are the ones that were entered late.

### Not proved

Only model-checked are

- `Billing`: what `check_credits` takes from a user is a sum over the rows of the
  session, a recursive function of their number (`to_charge`). Both `TypeOK` (the credit is a
  number) and `NeverOvercharged` need what it returns for every number, which is an
  induction over data: out of the prover's reach;
- the liveness properties `TransientEnds`, `RemovalEnds` and `EveryVMCharged`:
  so are fairness and ENABLED.

The exceptions in the properties (`crossed`, `emptied`, `failed`, `late`, `died`,
`stops`, `raced`, `misplaced`) are exceptions of the theorems too; section 3 says what
happens there.

## 5. Not modelled, and the plan

1. Composition of `Director` and `AppManager` through `create_nodes` and
   `remove_nodes`. Today `Director` takes of the managers what `ReleasedOnce` proves.
2. A stop in `GenericCode`, `WebHosting`, `Galera` and `XtreemFS` while a worker is
   alive.

Left out for good:

- manifests: most of their calls lack an argument and raise `TypeError`; what is left
  waits for a state without a timeout (`manifest.py:326-334`) and leaves the
  application in `A_ADAPTING` when a service fails;
- autoscaling: the import of the scaler is commented out (`php.py:30`);
  `migrate_nodes` of the web hosting and MySQL managers, which use attributes that
  the managers no longer have; `set_service_snapshot`, whose argument nobody can
  produce;
- cloud drivers and the vendored libcloud, which is almost half of the repository's
  code, Ganglia, IPOP and git (I/O and shell commands), clients, frontend, packaging,
  blueprints, and the legacy services that the application manager cannot start.
