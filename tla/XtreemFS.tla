-------------------------------- MODULE XtreemFS --------------------------------
(***************************************************************************)
(* The XtreemFS service: XtreemFSManager (conpaas.services.xtreemfs), the  *)
(* agents it calls, and the files that clients keep on the OSDs.           *)
(*                                                                         *)
(* The first node runs the directory (DIR), the metadata catalog (MRC) and *)
(* an OSD; nodes that are added are to run one of them.  An agent keeps a  *)
(* class file for every daemon it runs: it refuses to create a daemon that *)
(* has one and to stop a daemon that has none.  The manager makes its      *)
(* calls one after the other.  Any call may fail, before or after the      *)
(* agent has done it; no exception is caught (client._check raises         *)
(* Exception, the manager catches AgentException), so the worker dies and  *)
(* leaves the service in the state it was in.  When the director refuses a *)
(* start, its error dictionary is taken for the list of nodes: the word    *)
(* "error" is put on the lists, and every stop dies on it.                 *)
(*                                                                         *)
(* A worker that hands machines back shows its last state first; then the  *)
(* application manager takes them off the service's list one by one and    *)
(* tells the director, which kills them.  That rest, which may break off,  *)
(* is no part of `worker' but of `leaving', and requests may come before   *)
(* its end.                                                                *)
(*                                                                         *)
(* Nobody stops the service while a worker is alive (AppManager is about   *)
(* such stops).  A daemon is taken to run when it has its class file.      *)
(* set_service_snapshot is left out: get_service_snapshot, which produces  *)
(* its argument, never returns one.                                        *)
(***************************************************************************)
EXTENDS Naturals, SequencesExt

CONSTANTS
    Node,       \* the virtual machines that can be up together (bound)
    MaxCount,   \* the most nodes of a role asked for at once (bound)
    Junk,       \* the string "error" on a list of nodes
    None        \* Python's None: no worker

ASSUME XtreemFSAssumption == /\ MaxCount \in Nat \ {0}
                             /\ None \notin Node /\ Junk \notin Node

VARIABLES
    state,      \* self.state of the service
    dirNodes, mrcNodes, osdNodes,   \* the lists of the manager
    nodes,      \* the virtual machines of the service, self.nodes
    leaving,    \* the virtual machines that a worker is handing back: they go
                \* from self.nodes first, if they are there, and then for good
    runs,       \* those of nodes that have the class file of a role
    holds,      \* those of nodes whose OSD holds files
    worker,     \* the worker thread, or the handler of a snapshot
    failed,     \* history: a worker died since the service last stopped
    refused,    \* history: an agent refused a call though no worker had died
    undrained   \* history: a drain failed since the service last stopped

lists == <<dirNodes, mrcNodes, osdNodes>>
history == <<failed, refused, undrained>>
vars == <<state, lists, nodes, leaving, runs, holds, worker, history>>

-----------------------------------------------------------------------------
(* Types. *)

State == {"INIT", "PROLOGUE", "RUNNING", "ADAPTING", "EPILOGUE", "STOPPED",
          "ERROR"}

Role == {"dir", "mrc", "osd"}

\* A call to the agent of a node.
Call == [do : {"create", "stop"}, role : Role, node : Node \cup {Junk}]

\* A worker: its operation, the nodes it was asked for, whether it still has to
\* begin, the calls it has still to make, and the OSDs it has removed.
Worker == [op : {"start", "add", "remove", "stop", "snapshot"},
           want : [Role -> 0..MaxCount], begun : BOOLEAN,
           calls : Seq(Call), gone : SUBSET Node]

ASSUME WorkerAssumption == None \notin Worker

TypeOK ==
    /\ state \in State
    /\ \A q \in {dirNodes, mrcNodes, osdNodes} :
         q \in Seq(Node \cup {Junk}) /\ IsInjective(q)
    /\ nodes \subseteq Node /\ leaving \subseteq Node
    /\ runs \in [Role -> SUBSET nodes]
    /\ holds \subseteq nodes
    /\ worker \in Worker \cup {None}
    /\ failed \in BOOLEAN /\ refused \in BOOLEAN /\ undrained \in BOOLEAN

Init ==
    /\ state = "INIT"
    /\ dirNodes = <<>> /\ mrcNodes = <<>> /\ osdNodes = <<>>
    /\ nodes = {} /\ leaving = {}
    /\ runs = [r \in Role |-> {}]
    /\ holds = {}
    /\ worker = None
    /\ failed = FALSE /\ refused = FALSE /\ undrained = FALSE

-----------------------------------------------------------------------------
(* The requests. *)

Wants == {w \in [Role -> 0..MaxCount] : \E r \in Role : w[r] > 0}

Nothing == [r \in Role |-> 0]

Start(op, st, want) ==
    /\ worker = None
    /\ state' = st
    /\ worker' = [op |-> op, want |-> want, begun |-> FALSE, calls |-> <<>>,
                  gone |-> {}]
    /\ UNCHANGED <<lists, nodes, leaving, runs, holds, history>>

start_service ==
    /\ state \in {"INIT", "STOPPED"}
    /\ Start("start", "PROLOGUE", Nothing)

stop_service == Start("stop", "EPILOGUE", Nothing)

add_nodes(w) == state = "RUNNING" /\ Start("add", "ADAPTING", w)

\* At least one OSD remains; the DIR and the MRC cannot be removed.
check_remove_nodes(w) ==
    w["osd"] < Len(osdNodes) /\ w["dir"] = 0 /\ w["mrc"] = 0

remove_nodes(w) ==
    /\ state = "RUNNING"
    /\ check_remove_nodes(w)
    /\ Start("remove", "ADAPTING", w)

\* The handler does the work itself; the server takes no request meanwhile.
get_service_snapshot == state = "RUNNING" /\ Start("snapshot", "EPILOGUE", Nothing)

-----------------------------------------------------------------------------
(* The workers. *)

Begins(ops) == worker # None /\ worker.op \in ops /\ ~worker.begun

Calls(do, role, q) ==
    [i \in 1..Len(q) |-> [do |-> do, role |-> role, node |-> q[i]]]

\* Every order of k elements of S.
Picks(k, S) == {q \in [1..k -> S] : IsInjective(q)}

\* Virtual machines that have just come up.
Fresh == Node \ (nodes \cup leaving)

\* One node came up: it runs the DIR, the MRC and an OSD.
on_start ==
    /\ Begins({"start"})
    /\ \E n \in Fresh :
         /\ nodes' = {n}
         /\ dirNodes' = Append(dirNodes, n)
         /\ mrcNodes' = Append(mrcNodes, n)
         /\ osdNodes' = Append(osdNodes, n)
    /\ worker' = [worker EXCEPT !.begun = TRUE,
                    !.calls = Calls("create", "dir", dirNodes')
                              \o Calls("create", "mrc", mrcNodes')
                              \o Calls("create", "osd", osdNodes')]
    /\ UNCHANGED <<state, leaving, runs, holds, history>>

\* The director refuses the node: the three lists are extended by the keys of
\* its error dictionary, and the worker dies when it looks for the IP of one.
StartRefused ==
    /\ Begins({"start"})
    /\ dirNodes' = Append(dirNodes, Junk)
    /\ mrcNodes' = Append(mrcNodes, Junk)
    /\ osdNodes' = Append(osdNodes, Junk)
    /\ worker' = None
    /\ failed' = TRUE
    /\ UNCHANGED <<state, nodes, leaving, runs, holds, refused, undrained>>

\* Mutant of AddCalls: every OSD of the service is created.
AddCallsAll(added) == Calls("create", "osd", osdNodes \o added)

\* The calls that create the OSDs that are added.
AddCalls(added) == Calls("create", "osd", added)

\* Some of the nodes came up, and the lists are extended at once.  A DIR or an
\* MRC cannot be created: the call lacks the uuid, which is a TypeError.
on_add_nodes ==
    /\ Begins({"add"})
    /\ \E k \in [Role -> 0..MaxCount] :
         /\ \A r \in Role : k[r] <= worker.want[r]
         /\ k # Nothing
         /\ \E q \in Picks(k["dir"] + k["mrc"] + k["osd"], Fresh) :
              LET dirs == SubSeq(q, 1, k["dir"])
                  mrcs == SubSeq(q, k["dir"] + 1, k["dir"] + k["mrc"])
                  osds == SubSeq(q, k["dir"] + k["mrc"] + 1, Len(q)) IN
              /\ nodes' = nodes \cup ToSet(q)
              /\ dirNodes' = dirNodes \o dirs
              /\ mrcNodes' = mrcNodes \o mrcs
              /\ osdNodes' = osdNodes \o osds
              /\ IF k["dir"] + k["mrc"] > 0
                 THEN worker' = None /\ failed' = TRUE
                 ELSE /\ worker' = [worker EXCEPT !.begun = TRUE,
                                                  !.calls = AddCalls(osds)]
                      /\ UNCHANGED failed
    /\ UNCHANGED <<state, leaving, runs, holds, refused, undrained>>

\* Mutant of _stop_all: the directory is stopped first.
_stop_allDirFirst ==
    Calls("stop", "dir", dirNodes) \o Calls("stop", "osd", osdNodes)
      \o Calls("stop", "mrc", mrcNodes)

\* First the OSDs, then the MRCs, then the DIRs.
_stop_all ==
    Calls("stop", "osd", osdNodes) \o Calls("stop", "mrc", mrcNodes)
      \o Calls("stop", "dir", dirNodes)

StopAll ==
    /\ Begins({"stop", "snapshot"})
    /\ worker' = [worker EXCEPT !.begun = TRUE, !.calls = _stop_all]
    /\ UNCHANGED <<state, lists, nodes, leaving, runs, holds, history>>

\* Mutant of PopOSD: the node is not among those that are handed back.
PopOSDKeep ==
    /\ worker # None /\ worker.op = "remove"
    /\ worker.calls = <<>> /\ worker.want["osd"] > 0
    /\ osdNodes' = RemoveAt(osdNodes, 2)
    /\ worker' = [worker EXCEPT !.begun = TRUE, !.want["osd"] = @ - 1,
                    !.calls = Calls("stop", "osd", <<osdNodes[2]>>)]
    /\ UNCHANGED <<state, dirNodes, mrcNodes, nodes, leaving, runs, holds, history>>

\* One round of on_remove_nodes: an OSD leaves the list, never the first, and
\* then it is stopped.
PopOSD ==
    /\ worker # None /\ worker.op = "remove"
    /\ worker.calls = <<>> /\ worker.want["osd"] > 0
    /\ osdNodes' = RemoveAt(osdNodes, 2)
    /\ worker' = [worker EXCEPT !.begun = TRUE, !.want["osd"] = @ - 1,
                    !.calls = Calls("stop", "osd", <<osdNodes[2]>>),
                    !.gone = @ \cup {osdNodes[2]}]
    /\ UNCHANGED <<state, dirNodes, mrcNodes, nodes, leaving, runs, holds, history>>

\* The answer of the agent reaches the manager, or the worker dies.
Answered ==
    \/ worker' = [worker EXCEPT !.calls = Tail(@)] /\ UNCHANGED failed
    \/ worker' = None /\ failed' = TRUE

\* Mutant of Drains: an OSD is stopped with its files on it.
DrainsNever == FALSE

\* Only the removal of nodes drains the OSD.
Drains == worker.op = "remove"

\* xtfs_remove_osd moves the files of n to other OSDs of the directory.  Its
\* failure is logged and nothing else.
Drain(n) ==
    \/ /\ Drains /\ n \in holds
       /\ \E to \in SUBSET (runs["osd"] \ {n}) :
            to # {} /\ holds' = (holds \ {n}) \cup to
       /\ UNCHANGED undrained
    \/ /\ Drains /\ n \in holds
       /\ undrained' = TRUE
       /\ UNCHANGED holds
    \/ /\ ~Drains \/ n \notin holds
       /\ UNCHANGED <<holds, undrained>>

\* The next call is to an agent; nothing can be called on "error".
Reaches == worker # None /\ worker.calls # <<>> /\ Head(worker.calls).node \in Node

\* The agent creates or stops the daemon of the next call.
Serve ==
    LET c == Head(worker.calls)
        has == c.node \in runs[c.role] IN
    /\ Reaches
    /\ \/ /\ c.do = "create" /\ ~has
          /\ runs' = [runs EXCEPT ![c.role] = @ \cup {c.node}]
          /\ UNCHANGED <<holds, undrained>>
       \/ /\ c.do = "stop" /\ has
          /\ runs' = [runs EXCEPT ![c.role] = @ \ {c.node}]
          /\ IF c.role = "osd" THEN Drain(c.node)
             ELSE UNCHANGED <<holds, undrained>>
    /\ Answered
    /\ UNCHANGED <<state, lists, nodes, leaving, refused>>

\* The class file is there already, or is missing.
Refuse ==
    LET c == Head(worker.calls) IN
    /\ Reaches
    /\ c.do = "create" <=> c.node \in runs[c.role]
    /\ refused' = (refused \/ ~failed)
    /\ failed' = TRUE
    /\ worker' = None
    /\ UNCHANGED <<state, lists, nodes, leaving, runs, holds, undrained>>

\* A call does not reach the agent, or has none to reach; no node came up; or the
\* director refuses an addition, whose error dies in a filter before the lists
\* change (but stays on self.nodes: no machine is handed back any more).
Fail ==
    /\ worker # None
    /\ worker.calls # <<>> \/ Begins({"start", "add"})
    /\ worker' = None
    /\ failed' = TRUE
    /\ UNCHANGED <<state, lists, nodes, leaving, runs, holds, refused, undrained>>

Finished(ops) ==
    /\ worker # None /\ worker.op \in ops
    /\ worker.begun /\ worker.calls = <<>>

\* on_start polls until the volumes can be listed, and gives up in the end;
\* on_add_nodes returns True.
Started ==
    /\ Finished({"start", "add"})
    /\ \/ state' = "RUNNING"
       \/ worker.op = "start" /\ state' = "ERROR"
    /\ worker' = None
    /\ UNCHANGED <<lists, nodes, leaving, runs, holds, history>>

\* Virtual machines leave self.nodes, with the daemons and the files on them.
Release(gone) ==
    /\ nodes' = nodes \ gone
    /\ runs' = [r \in Role |-> runs[r] \ gone]
    /\ holds' = holds \ gone

\* on_remove_nodes sets S_RUNNING; its machines are still on self.nodes.
Removed ==
    /\ Finished({"remove"}) /\ worker.want["osd"] = 0
    /\ state' = "RUNNING"
    /\ leaving' = leaving \cup worker.gone
    /\ worker' = None
    /\ UNCHANGED <<lists, nodes, runs, holds, history>>

\* _do_remove_nodes takes one of them off self.nodes.
DropNode(n) ==
    /\ n \in leaving \cap nodes
    /\ Release({n})
    /\ UNCHANGED <<state, lists, leaving, worker, history>>

\* The director has killed a virtual machine.
Killed(n) ==
    /\ n \in leaving \ nodes
    /\ leaving' = leaving \ {n}
    /\ UNCHANGED <<state, lists, nodes, runs, holds, worker, history>>

\* Mutant of Cleared: the list of OSDs is kept.
ClearedButOSDs == dirNodes' = <<>> /\ mrcNodes' = <<>> /\ UNCHANGED osdNodes

Cleared == dirNodes' = <<>> /\ mrcNodes' = <<>> /\ osdNodes' = <<>>

\* on_stop empties self.nodes and hands all of it back.
on_stop ==
    /\ Finished({"stop"})
    /\ Release(nodes)
    /\ leaving' = leaving \cup nodes
    /\ Cleared
    /\ state' = "STOPPED"
    /\ worker' = None
    /\ failed' = FALSE /\ undrained' = FALSE
    /\ UNCHANGED refused

\* The agents are asked for their archives; then the manager calls get_volume,
\* which it no longer has.
SnapshotDies ==
    /\ Finished({"snapshot"})
    /\ worker' = None
    /\ failed' = TRUE
    /\ UNCHANGED <<state, lists, nodes, leaving, runs, holds, refused, undrained>>

\* A client writes a file: the catalog gives it an OSD.
Write(n) ==
    /\ n \in runs["osd"]
    /\ runs["dir"] # {} /\ runs["mrc"] # {}
    /\ holds' = holds \cup {n}
    /\ UNCHANGED <<state, lists, nodes, leaving, runs, worker, history>>

-----------------------------------------------------------------------------
(* The specification. *)

Handle ==
    \/ start_service \/ stop_service \/ get_service_snapshot
    \/ \E w \in Wants : add_nodes(w) \/ remove_nodes(w)

Work ==
    \/ on_start \/ StartRefused \/ on_add_nodes \/ StopAll \/ PopOSD
    \/ Serve \/ Refuse \/ Fail
    \/ Started \/ Removed \/ on_stop \/ SnapshotDies

Next == Handle \/ Work \/ \E n \in Node : DropNode(n) \/ Killed(n) \/ Write(n)

Spec == Init /\ [][Next]_vars

-----------------------------------------------------------------------------
(* What the service promises. *)

\* No MRC and no OSD of the service ever runs without the directory it was
\* created with, at any step of a start, an addition, a removal or a stop, failed
\* or not.  (An OSD whose removal failed has left the list, and is forgotten.)
Rooted ==
    \A n \in (runs["mrc"] \cap ToSet(mrcNodes)) \cup (runs["osd"] \cap ToSet(osdNodes)) :
      dirNodes # <<>> /\ dirNodes[1] \in runs["dir"]

\* When the service shows S_RUNNING, its lists name exactly the daemons that
\* run, its first node runs all three, and every machine of self.nodes is on a
\* list, unless a removal is still handing it back.
Settled ==
    state = "RUNNING" =>
      /\ runs["dir"] = ToSet(dirNodes)
      /\ runs["mrc"] = ToSet(mrcNodes)
      /\ runs["osd"] = ToSet(osdNodes)
      /\ nodes \ leaving = ToSet(dirNodes) \cup ToSet(mrcNodes) \cup ToSet(osdNodes)
      /\ osdNodes # <<>>
      /\ dirNodes[1] = osdNodes[1] /\ mrcNodes[1] = osdNodes[1]

\* userguide.rst:625 "When a service is scaled down by removing OSDs, the data
\* of those OSDs is migrated to the remaining OSDs": as long as no drain failed,
\* every file is on an OSD that runs, though the files of a removed OSD may be
\* moved to the one that is removed next, and removals fail half-way.
DataKept ==
    state \in {"RUNNING", "ADAPTING"} /\ ~undrained => holds \subseteq runs["osd"]

\* Until a worker has died, no agent refuses a call: the manager creates no
\* daemon twice and stops none that does not run.
NothingRefused == ~refused
=============================================================================
