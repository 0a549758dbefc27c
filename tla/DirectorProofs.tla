---------------------------- MODULE DirectorProofs ----------------------------
(***************************************************************************)
(* Proofs about Director, for every number of applications, machines and   *)
(* requests under way: types, Accounted, NoCorpseCharged, SingleManager    *)
(* and StoppedCostsNothing.                                                *)
(***************************************************************************)
EXTENDS Director, FiniteSetTheorems, TLAPS

Creates == {"start", "agents"}
Stops == {"stop", "delete"}

\* The machines of an application.
Of(a) == {v \in VM : vm[v] # None /\ vm[v].app = a}

\* A request that creates machines: nobody else has heard of them.
Creating(w) ==
    w.kind \in Creates =>
      /\ w.pc \in {"checked", "request", "wait", "register"}
      /\ w.pc \in {"checked", "request"} => w.vms = {}
      /\ w.pc = "checked" => w.kind = "start"
      /\ \A v \in w.vms :
           /\ v \notin known /\ Up(v) /\ vm[v].app = w.app
           /\ vm[v].role = IF w.kind = "start" THEN "manager" ELSE "agent"
      /\ w.kind = "start" => \A u, v \in w.vms : u = v

\* A request that stops or deletes an application.
Stopping(w) ==
    w.kind \in Stops =>
      /\ w.pc \in {"read", "drop", "status"}
      /\ w.pc # "drop" => w.vms = {}
      /\ w.vms \subseteq known \cap Of(w.app)

\* A request that removes nodes has them to itself, but for a stop that takes
\* their rows.
Removing(w) ==
    w.kind = "remove" =>
      /\ w.pc \in {"kill", "rows"}
      /\ w.vms \in released
      /\ w.vms \subseteq Of(w.app) \cap (rows \cup taken)
      /\ w.pc = "rows" => \A v \in w.vms : Up(v) => v \in lost

JobsOK ==
    \A j \in Job : job[j] # None =>
      Creating(job[j]) /\ Stopping(job[j]) /\ Removing(job[j])

\* No two requests create the same machine, nor do two remove it.
Apart ==
    \A i, j \in Job :
      /\ job[i] # None /\ job[j] # None /\ i # j
      /\ \/ job[i].kind \in Creates /\ job[j].kind \in Creates
         \/ job[i].kind = "remove" /\ job[j].kind = "remove"
      => job[i].vms \cap job[j].vms = {}

\* A machine that runs and has no row is not forgotten.
Traced ==
    /\ \A v \in known : Up(v) => v \in rows \cup doomed \cup lost
    /\ \A v \in VM \ known : Up(v) =>
         \/ v \in lost
         \/ \E j \in Job : job[j] # None /\ job[j].kind \in Creates /\ v \in job[j].vms

\* Why a machine lost its row, and why a thread kills one; a row that is gone
\* never comes back.
Blamed ==
    /\ known \subseteq rows \cup taken \cup UNION released
    /\ doomed \subseteq taken
    /\ taken \cap rows = {}

\* A request that starts an application has it to itself, removals of nodes
\* apart; one that adds nodes shares it with others of its kind; and one that
\* stops it sees all of its rows.
Alone(j) ==
    /\ job[j].kind = "start" =>
         /\ \A i \in Job \ {j} : job[i] # None /\ job[i].app = job[j].app =>
              job[i].kind = "remove"
         /\ rows \cap Of(job[j].app) = {}
    /\ job[j].kind = "agents" =>
         /\ \A i \in Job : job[i] # None /\ job[i].app = job[j].app =>
              job[i].kind \in {"agents", "remove"}
         /\ status[job[j].app] \in {"PROLOGUE", "RUNNING"}
    /\ job[j].kind \in Stops /\ job[j].pc = "drop" =>
         rows \cap Of(job[j].app) \subseteq job[j].vms
    /\ job[j].kind \in Stops /\ job[j].pc = "status" => rows \cap Of(job[j].app) = {}

\* Applications whose requests do not cross: their requests, ...
Orderly == \A j \in Job : job[j] # None /\ job[j].app \notin crossed => Alone(j)

\* ... and their rows.
Sparse ==
    \A a \in App \ crossed :
      /\ status[a] \notin {"PROLOGUE", "RUNNING"} => rows \cap Of(a) = {}
      /\ \A u, v \in rows \cap OfApp(a, "manager") : u = v

IInv ==
    /\ TypeOK /\ NoCorpseCharged /\ JobsOK /\ Apart
    /\ Traced /\ Blamed /\ Orderly /\ Sparse

-----------------------------------------------------------------------------
(* What becomes of the requests under way. *)

\* A new request takes a free slot.
LEMMA BeginJob ==
    ASSUME job \in [Job -> Work \cup {None}], NEW j \in Job,
           NEW kind \in {"start", "agents", "stop", "delete", "remove"},
           NEW a \in App, NEW pc \in {"checked", "request", "read", "kill"},
           NEW S \in SUBSET VM, Begin(j, kind, a, pc, S)
    PROVE  /\ job[j] = None /\ job' \in [Job -> Work \cup {None}]
           /\ job'[j] = [kind |-> kind, app |-> a, pc |-> pc, vms |-> S]
           /\ job'[j] # None
           /\ \A i \in Job : i # j => job'[i] = job[i]
BY NoneAssumption DEF Begin, Work

\* A request that goes on stays the same request.
LEMMA GotoJob ==
    ASSUME job \in [Job -> Work \cup {None}], NEW j \in Job, job[j] # None,
           NEW pc \in {"request", "wait", "register", "drop", "status", "rows"},
           NEW S \in SUBSET VM, Goto(j, pc, S)
    PROVE  /\ job[j] \in Work /\ job' \in [Job -> Work \cup {None}]
           /\ job'[j].kind = job[j].kind /\ job'[j].app = job[j].app
           /\ job'[j].pc = pc /\ job'[j].vms = S
           /\ job'[j] # None
           /\ \A i \in Job : i # j => job'[i] = job[i]
<1>1. job'[j] = [job[j] EXCEPT !.pc = pc, !.vms = S]
  BY DEF Goto
<1>2. job[j] \in Work
  OBVIOUS
<1>3. /\ job'[j] \in Work /\ job'[j].kind = job[j].kind
      /\ job'[j].app = job[j].app /\ job'[j].pc = pc /\ job'[j].vms = S
  BY <1>1, <1>2 DEF Work
<1>4. job'[j] # None
  BY <1>3, NoneAssumption
<1>5. \A i \in Job : i # j => job'[i] = job[i]
  BY DEF Goto
<1>6. job' \in [Job -> Work \cup {None}]
  BY <1>3 DEF Goto
<1> QED
  BY <1>2, <1>3, <1>4, <1>5, <1>6

\* A request that ends leaves its slot.
LEMMA EndJob ==
    ASSUME job \in [Job -> Work \cup {None}], NEW j \in Job, job[j] # None, End(j)
    PROVE  /\ job[j] \in Work /\ job' \in [Job -> Work \cup {None}]
           /\ job'[j] = None
           /\ \A i \in Job : i # j => job'[i] = job[i]
BY DEF End

\* What Destroy leaves of the machines.
LEMMA DestroyVM ==
    ASSUME vm \in [VM -> Machine \cup {None}], NEW K \in SUBSET VM,
           \A v \in K : vm[v] # None, Destroy(K)
    PROVE  /\ vm' \in [VM -> Machine \cup {None}]
           /\ \A v \in VM \ K : vm'[v] = vm[v]
           /\ \A v \in K : /\ vm'[v] # None /\ vm'[v].app = vm[v].app
                           /\ vm'[v].role = vm[v].role /\ ~vm'[v].up
<1>1. \A v \in VM \ K : vm'[v] = vm[v]
  BY DEF Destroy
<1>2. \A v \in K : vm[v] \in Machine /\ vm'[v] = [vm[v] EXCEPT !.up = FALSE]
  BY DEF Destroy
<1>3. \A v \in K : /\ vm'[v] \in Machine /\ vm'[v].app = vm[v].app
                   /\ vm'[v].role = vm[v].role /\ ~vm'[v].up
  BY <1>2 DEF Machine
<1> QED
  BY <1>1, <1>3, NoneAssumption DEF Destroy

-----------------------------------------------------------------------------
(* One lemma per action. *)

\* A new application has no machines and no requests.
LEMMA createappStep ==
    ASSUME NEW a \in App, IInv, createapp(a)
    PROVE  IInv'
<1> USE NoneAssumption DEF IInv, At
<1>1. TypeOK'
  BY DEF createapp, TypeOK, Work, Machine, Status, Creates, Stops, OfApp,
       Destroy
<1>2. NoCorpseCharged'
  BY DEF createapp, NoCorpseCharged, Up, Removal
<1>3. JobsOK'
  BY DEF createapp, JobsOK, Creating, Stopping, Removing, Of, Up
<1>4. Apart'
  BY DEF createapp, TypeOK, Apart, Creates, Stops, JobsOK, Creating, Removing
<1>5. Traced'
  BY DEF createapp, Traced, Up
<1>6. Blamed'
  BY DEF createapp, Blamed
<1>7. Orderly'
  BY DEF createapp, Orderly, Alone, Of
<1>8. Sparse'
  BY DEF createapp, Sparse, Of, OfApp
<1> QED
  BY <1>1, <1>2, <1>3, <1>4, <1>5, <1>6, <1>7, <1>8

\* A start that finds no other request of the application has it to itself.
LEMMA startappStep ==
    ASSUME NEW j \in Job, NEW a \in App, IInv, startapp(j, a)
    PROVE  IInv'
<1> USE NoneAssumption DEF IInv, At
<1>a. /\ job[j] = None /\ job' \in [Job -> Work \cup {None}]
      /\ job'[j] = [kind |-> "start", app |-> a, pc |-> "checked", vms |-> {}]
      /\ job'[j] # None /\ \A i \in Job : i # j => job'[i] = job[i]
  <2>1. Begin(j, "start", a, "checked", {}) /\ {} \in SUBSET VM
         /\ "start" \in {"start", "agents", "stop", "delete", "remove"}
    BY DEF startapp, Stops
  <2>2. job \in [Job -> Work \cup {None}]
    BY DEF TypeOK
  <2> QED
    BY <2>1, <2>2, BeginJob
<1>1. TypeOK'
  BY <1>a DEF startapp, TypeOK, Work, Machine, Status, Creates, Stops, OfApp,
       Destroy
<1>2. NoCorpseCharged'
  BY <1>a DEF startapp, NoCorpseCharged, Up, Removal
<1>3. JobsOK'
  BY <1>a DEF startapp, JobsOK, Creating, Stopping, Removing, Of, Up, Stops
<1>4. Apart'
  BY <1>a DEF startapp, TypeOK, Apart, Creates, Stops, JobsOK, Creating,
       Removing
<1>5. Traced'
  BY <1>a DEF startapp, Traced, Up
<1>6. Blamed'
  BY DEF startapp, Blamed
<1>7. Orderly'
  <2> SUFFICES ASSUME NEW i \in Job, job'[i] # None, (job[i].app \notin crossed)'
               PROVE  Alone(i)'
    BY DEF Orderly
  <2>1. CASE i = j
    <3>1. a \notin crossed /\ ~UnderWay(a, {"start", "stop", "delete"})
      BY <1>a, <2>1 DEF startapp
    <3>2. \A k \in Job : job[k] # None /\ job[k].app = a => job[k].kind = "remove"
      <4> SUFFICES ASSUME NEW k \in Job, job[k] # None, job[k].app = a
                   PROVE  job[k].kind = "remove"
        OBVIOUS
      <4>1. job[k].kind \in {"agents", "remove"}
        BY <3>1 DEF UnderWay, TypeOK, Work
      <4>2. job[k].kind # "agents"
        BY <3>1 DEF Orderly, Alone, startapp
      <4> QED BY <4>1, <4>2
    <3>3. rows \cap Of(a) = {}
      BY <3>1 DEF Sparse, startapp
    <3> QED
      BY <1>a, <2>1, <3>2, <3>3 DEF startapp, Alone, Of, Stops
  <2>2. CASE i # j
    BY <1>a, <2>2 DEF startapp, Orderly, Alone, UnderWay, Of
  <2> QED BY <2>1, <2>2
<1>8. Sparse'
  BY DEF startapp, Sparse, Of, OfApp
<1> QED
  BY <1>1, <1>2, <1>3, <1>4, <1>5, <1>6, <1>7, <1>8

\* The start commits its status, or gives up on an application that is gone.
LEMMA StartCommitStep ==
    ASSUME NEW j \in Job, IInv, StartCommit(j)
    PROVE  IInv'
<1> USE NoneAssumption DEF IInv, At
<1>a. /\ job[j] # None /\ job[j] \in Work /\ job' \in [Job -> Work \cup {None}]
      /\ job[j].kind = "start" /\ job[j].pc = "checked" /\ job[j].app \in App
      /\ \A i \in Job : i # j => job'[i] = job[i]
      /\ \/ status[job[j].app] = "GONE" /\ job'[j] = None /\ status' = status
         \/ /\ job'[j] # None /\ job'[j].kind = "start"
            /\ job'[j].app = job[j].app /\ job'[j].pc = "request" /\ job'[j].vms = {}
            /\ status' = [status EXCEPT ![job[j].app] = "PROLOGUE"]
  BY GotoJob, EndJob DEF StartCommit, TypeOK, Work
<1>1. TypeOK'
  BY <1>a DEF StartCommit, TypeOK, Work, Machine, Status, Creates, Stops,
       OfApp, Destroy
<1>2. NoCorpseCharged'
  BY <1>a DEF StartCommit, NoCorpseCharged, JobsOK, Creating, Up, Removal,
     Creates
<1>3. JobsOK'
  BY <1>a DEF StartCommit, JobsOK, Creating, Stopping, Removing, Of, Up
<1>4. Apart'
  BY <1>a DEF StartCommit, TypeOK, Apart, Creates, Stops, JobsOK, Creating,
       Removing
<1>5. Traced'
  BY <1>a DEF StartCommit, Traced, Up, JobsOK, Creating
<1>6. Blamed'
  BY DEF StartCommit, Blamed
<1>7. Orderly'
  <2> SUFFICES ASSUME NEW i \in Job, job'[i] # None, (job[i].app \notin crossed)'
               PROVE  Alone(i)'
    BY DEF Orderly
  <2>1. CASE i = j
    BY <1>a, <2>1 DEF StartCommit, Orderly, Alone, Of
  <2>2. CASE i # j
    <3>1. job'[i] = job[i] /\ job[i] # None /\ Alone(i)
      BY <1>a, <2>2 DEF Orderly, StartCommit
    <3>2. CASE job[i].app = job[j].app
      <4>1. job[i].kind = "remove"
        BY <1>a, <2>2, <3>1, <3>2 DEF Orderly, Alone, StartCommit
      <4> QED
        BY <3>1, <4>1 DEF Alone, Stops
    <3>3. CASE job[i].app # job[j].app
      <4>1. status'[job[i].app] = status[job[i].app]
        BY <1>a, <3>1, <3>3 DEF TypeOK, Work
      <4>2. \A k \in Job : job'[k] # None =>
              /\ job[k] # None /\ job'[k].app = job[k].app /\ job'[k].kind = job[k].kind
        BY <1>a
      <4> QED
        BY <3>1, <4>1, <4>2 DEF Alone, Of, Stops, StartCommit
    <3> QED BY <3>2, <3>3
  <2> QED BY <2>1, <2>2
<1>8. Sparse'
  BY DEF StartCommit, TypeOK, Sparse, Of, OfApp
<1> QED
  BY <1>1, <1>2, <1>3, <1>4, <1>5, <1>6, <1>7, <1>8

\* A stop that meets a start or an addition makes the application crossed.
LEMMA deleteappStep ==
    ASSUME NEW j \in Job, NEW a \in App, NEW kind \in Stops, IInv, deleteapp(j, a, kind)
    PROVE  IInv'
<1> USE NoneAssumption DEF IInv, At
<1>a. /\ job[j] = None /\ job' \in [Job -> Work \cup {None}]
      /\ job'[j] = [kind |-> kind, app |-> a, pc |-> "read", vms |-> {}]
      /\ job'[j] # None /\ \A i \in Job : i # j => job'[i] = job[i]
  <2>1. Begin(j, kind, a, "read", {}) /\ {} \in SUBSET VM
         /\ kind \in {"start", "agents", "stop", "delete", "remove"}
    BY DEF deleteapp, Stops
  <2> QED
    BY <2>1 DEF TypeOK, Begin, Work
<1>1. TypeOK'
  BY <1>a DEF deleteapp, TypeOK, Work, Machine, Status, Creates, Stops, OfApp,
       Destroy
<1>2. NoCorpseCharged'
  BY <1>a DEF deleteapp, NoCorpseCharged, Up, Removal
<1>3. JobsOK'
  BY <1>a DEF deleteapp, JobsOK, Creating, Stopping, Removing, Of, Up, Creates,
     Stops
<1>4. Apart'
  BY <1>a DEF deleteapp, TypeOK, Apart, Creates, Stops, JobsOK, Creating,
       Removing
<1>5. Traced'
  BY <1>a DEF deleteapp, Traced, Up
<1>6. Blamed'
  BY DEF deleteapp, Blamed
<1>7. Orderly'
  BY <1>a DEF deleteapp, Orderly, Alone, UnderWay, Of, Stops
<1>8. Sparse'
  BY DEF deleteapp, Sparse, Of, OfApp
<1> QED
  BY <1>1, <1>2, <1>3, <1>4, <1>5, <1>6, <1>7, <1>8

\* A stop sees all machines of its application that have a row.
LEMMA ReadRowsStep ==
    ASSUME NEW j \in Job, IInv, ReadRows(j)
    PROVE  IInv'
<1> USE NoneAssumption DEF IInv, At
<1>a. /\ job[j] # None /\ job[j] \in Work /\ job' \in [Job -> Work \cup {None}]
      /\ job[j].kind \in Stops /\ job[j].pc = "read" /\ job[j].app \in App
      /\ \A i \in Job : i # j => job'[i] = job[i]
      /\ job'[j] # None /\ job'[j].kind = job[j].kind /\ job'[j].app = job[j].app
      /\ job'[j].pc = "drop" /\ job'[j].vms = rows \cap Of(job[j].app)
  <2>1. rows \cap (OfApp(job[j].app, "manager") \cup OfApp(job[j].app, "agent"))
          = rows \cap Of(job[j].app)
    BY DEF TypeOK, Machine, Of, OfApp
  <2>2. rows \cap Of(job[j].app) \in SUBSET VM
    BY DEF Of
  <2>3. Goto(j, "drop", rows \cap Of(job[j].app))
    BY <2>1 DEF ReadRows
  <2> QED
    BY <2>2, <2>3, GotoJob DEF ReadRows, TypeOK, Work, Stops
<1>1. TypeOK'
  BY <1>a DEF ReadRows, TypeOK, Work, Machine, Status, Creates, Stops, OfApp,
       Destroy
<1>2. NoCorpseCharged'
  BY <1>a DEF ReadRows, NoCorpseCharged, JobsOK, Stopping, Up, Removal
<1>3. JobsOK'
  BY <1>a DEF ReadRows, TypeOK, JobsOK, Creating, Stopping, Removing, Of, Up
<1>4. Apart'
  BY <1>a DEF ReadRows, TypeOK, Apart, Creates, Stops, JobsOK, Creating,
       Removing
<1>5. Traced'
  BY <1>a DEF ReadRows, Traced, Up, Creates
<1>6. Blamed'
  BY DEF ReadRows, Blamed
<1>7. Orderly'
  BY <1>a DEF ReadRows, Orderly, Alone, Of
<1>8. Sparse'
  BY DEF ReadRows, Sparse, Of, OfApp
<1> QED
  BY <1>1, <1>2, <1>3, <1>4, <1>5, <1>6, <1>7, <1>8

\* The rows that a stop drops have a thread that kills their machines, or it
\* breaks off and gives the machines up.
LEMMA DropRowsStep ==
    ASSUME NEW j \in Job, IInv, DropRows(j)
    PROVE  IInv'
<1> USE NoneAssumption DEF IInv, At
<1>a. /\ job[j] # None /\ job[j] \in Work /\ job' \in [Job -> Work \cup {None}]
      /\ job[j].kind \in Stops /\ job[j].pc = "drop" /\ job[j].app \in App
      /\ job[j].vms \subseteq VM
      /\ \A i \in Job : i # j => job'[i] = job[i]
      /\ \/ /\ job[j].vms \subseteq rows /\ rows' = rows \ job[j].vms
            /\ doomed' = doomed \cup job[j].vms /\ lost' = lost
            /\ taken' = taken \cup job[j].vms
            /\ job'[j] # None /\ job'[j].kind = job[j].kind
            /\ job'[j].app = job[j].app /\ job'[j].pc = "status" /\ job'[j].vms = {}
         \/ /\ job'[j] = None /\ doomed' = doomed
            /\ \E T \in SUBSET (job[j].vms \cap rows) :
                 /\ rows' = rows \ T /\ taken' = taken \cup T
                 /\ lost' = lost \cup {v \in T : Up(v)}
  <2>1. /\ job[j] # None /\ job[j] \in Work /\ job \in [Job -> Work \cup {None}]
        /\ job[j].kind \in Stops /\ job[j].pc = "drop"
    BY DEF DropRows, TypeOK, Stops
  <2>2. job[j].app \in App /\ job[j].vms \subseteq VM
    BY <2>1 DEF Work
  <2>3. ASSUME Goto(j, "status", {})
        PROVE  /\ job' \in [Job -> Work \cup {None}]
               /\ \A i \in Job : i # j => job'[i] = job[i]
               /\ job'[j] # None /\ job'[j].kind = job[j].kind
               /\ job'[j].app = job[j].app /\ job'[j].pc = "status"
               /\ job'[j].vms = {}
    <3>1. {} \in SUBSET VM
      OBVIOUS
    <3> QED BY <2>1, <2>3, <3>1, GotoJob
  <2>4. ASSUME End(j)
        PROVE  /\ job' \in [Job -> Work \cup {None}]
               /\ \A i \in Job : i # j => job'[i] = job[i]
               /\ job'[j] = None
    BY <2>1, <2>4, EndJob
  <2>5. CASE /\ job[j].vms \subseteq rows /\ rows' = rows \ job[j].vms
             /\ doomed' = doomed \cup job[j].vms /\ lost' = lost
             /\ taken' = taken \cup job[j].vms
             /\ Goto(j, "status", {})
    BY <2>1, <2>2, <2>3, <2>5
  <2>6. CASE /\ \E T \in SUBSET (job[j].vms \cap rows) :
                  /\ rows' = rows \ T /\ taken' = taken \cup T
                  /\ lost' = lost \cup {v \in T : Up(v)}
             /\ doomed' = doomed /\ End(j)
    BY <2>1, <2>2, <2>4, <2>6
  <2> QED BY <2>5, <2>6 DEF DropRows
<1>1. TypeOK'
  BY <1>a DEF DropRows, TypeOK, Work, Machine, Status, Creates, Stops, OfApp,
       Destroy
<1>2. NoCorpseCharged'
  BY <1>a DEF DropRows, NoCorpseCharged, JobsOK, Stopping, Up, Removal, Of
<1>3. JobsOK'
  BY <1>a DEF DropRows, JobsOK, Creating, Stopping, Removing, Of, Up
<1>4. Apart'
  BY <1>a DEF DropRows, TypeOK, Apart, Creates, Stops, JobsOK, Creating,
       Removing
<1>5. Traced'
  BY <1>a DEF DropRows, Traced, Up, Creates
<1>6. Blamed'
  BY DEF DropRows, Blamed, Stops, JobsOK, Stopping, Of
<1>7. Orderly'
  BY <1>a DEF DropRows, Orderly, Alone, Of
<1>8. Sparse'
  BY DEF DropRows, Sparse, Of, OfApp
<1> QED
  BY <1>1, <1>2, <1>3, <1>4, <1>5, <1>6, <1>7, <1>8

\* A stop that has dropped all rows leaves none.
LEMMA DeleteEndStep ==
    ASSUME NEW j \in Job, IInv, DeleteEnd(j)
    PROVE  IInv'
<1> USE NoneAssumption DEF IInv, At
<1>a. /\ job[j] # None /\ job[j] \in Work /\ job' \in [Job -> Work \cup {None}]
      /\ job'[j] = None /\ \A i \in Job : i # j => job'[i] = job[i]
  BY EndJob DEF DeleteEnd, TypeOK
<1>1. TypeOK'
  BY <1>a DEF DeleteEnd, TypeOK, Work, Machine, Status, Creates, Stops, OfApp,
       Destroy
<1>2. NoCorpseCharged'
  BY <1>a DEF DeleteEnd, NoCorpseCharged, JobsOK, Stopping, Up, Removal, Stops
<1>3. JobsOK'
  BY <1>a DEF DeleteEnd, JobsOK, Creating, Stopping, Removing, Of, Up
<1>4. Apart'
  BY <1>a DEF DeleteEnd, TypeOK, Apart, Creates, Stops, JobsOK, Creating,
       Removing
<1>5. Traced'
  BY <1>a DEF DeleteEnd, Traced, Up, Creates
<1>6. Blamed'
  BY DEF DeleteEnd, Blamed
<1>7. Orderly'
  <2> SUFFICES ASSUME NEW i \in Job, job'[i] # None, (job[i].app \notin crossed)'
               PROVE  Alone(i)'
    BY DEF Orderly
  <2>1. i # j /\ job'[i] = job[i] /\ Alone(i)
    BY <1>a DEF Orderly, DeleteEnd
  <2>2. job[i].kind = "agents" => job[i].app # job[j].app
    BY <1>a, <2>1 DEF Alone, DeleteEnd, Stops
  <2>3. status' = status \/ \E t : status' = [status EXCEPT ![job[j].app] = t]
    BY DEF DeleteEnd
  <2>4. job[i].kind = "agents" => status'[job[i].app] = status[job[i].app]
    BY <1>a, <2>1, <2>2, <2>3 DEF TypeOK, Work
  <2> QED
    BY <1>a, <2>1, <2>4 DEF DeleteEnd, Alone, Of
<1>8. Sparse'
  <2>1. CASE UNCHANGED status
    BY <2>1 DEF DeleteEnd, Sparse, Of, OfApp
  <2>2. ASSUME NEW t, status' = [status EXCEPT ![job[j].app] = t] PROVE Sparse'
    BY <2>2 DEF DeleteEnd, Orderly, Alone, Sparse, Of, OfApp, Stops
  <2> QED
    BY <2>1, <2>2 DEF DeleteEnd
<1> QED
  BY <1>1, <1>2, <1>3, <1>4, <1>5, <1>6, <1>7, <1>8

\* A manager that has a row and is not being stopped may add nodes.
LEMMA create_nodesStep ==
    ASSUME NEW j \in Job, NEW a \in App, IInv, create_nodes(j, a)
    PROVE  IInv'
<1> USE NoneAssumption DEF IInv, At
<1>a. /\ job[j] = None /\ job' \in [Job -> Work \cup {None}]
      /\ job'[j] = [kind |-> "agents", app |-> a, pc |-> "request", vms |-> {}]
      /\ job'[j] # None /\ \A i \in Job : i # j => job'[i] = job[i]
  <2>1. Begin(j, "agents", a, "request", {}) /\ {} \in SUBSET VM
         /\ "agents" \in {"start", "agents", "stop", "delete", "remove"}
    BY DEF create_nodes, Stops
  <2> QED
    BY <2>1, BeginJob DEF TypeOK
<1>1. TypeOK'
  BY <1>a DEF create_nodes, TypeOK, Work, Machine, Status, Creates, Stops,
       OfApp, Destroy
<1>2. NoCorpseCharged'
  BY <1>a DEF create_nodes, NoCorpseCharged, Up, Removal
<1>3. JobsOK'
  BY <1>a DEF create_nodes, JobsOK, Creating, Stopping, Removing, Of, Up, Stops
<1>4. Apart'
  BY <1>a DEF create_nodes, TypeOK, Apart, Creates, Stops, JobsOK, Creating,
       Removing
<1>5. Traced'
  BY <1>a DEF create_nodes, Traced, Up
<1>6. Blamed'
  BY DEF create_nodes, Blamed
<1>7. Orderly'
  <2> SUFFICES ASSUME NEW i \in Job, job'[i] # None, (job[i].app \notin crossed)'
               PROVE  Alone(i)'
    BY DEF Orderly
  <2>1. CASE i = j
    <3>1. /\ a \notin crossed /\ ~UnderWay(a, {"stop", "delete"})
          /\ rows \cap OfApp(a, "manager") # {}
      BY <1>a, <2>1 DEF create_nodes
    <3>2. rows \cap Of(a) # {}
      BY <3>1 DEF Of, OfApp
    <3>3. \A k \in Job : job[k] # None /\ job[k].app = a => job[k].kind \in {"agents", "remove"}
      <4> SUFFICES ASSUME NEW k \in Job, job[k] # None, job[k].app = a
                   PROVE  job[k].kind \in {"agents", "remove"}
        OBVIOUS
      <4>1. job[k].kind \in {"start", "agents", "remove"}
        BY <3>1 DEF UnderWay, TypeOK, Work
      <4>2. job[k].kind # "start"
        BY <3>1, <3>2 DEF Orderly, Alone
      <4> QED BY <4>1, <4>2
    <3>4. status[a] \in {"PROLOGUE", "RUNNING"}
      BY <3>1, <3>2 DEF Sparse
    <3> QED
      BY <1>a, <2>1, <3>3, <3>4 DEF create_nodes, Alone, Stops
  <2>2. CASE i # j
    BY <1>a, <2>2 DEF create_nodes, Orderly, Alone, Of, OfApp
  <2> QED BY <2>1, <2>2
<1>8. Sparse'
  BY DEF create_nodes, Sparse, Of, OfApp
<1> QED
  BY <1>1, <1>2, <1>3, <1>4, <1>5, <1>6, <1>7, <1>8

\* The new machines are unknown: only the request that starts them has them.
LEMMA NewInstancesStep ==
    ASSUME NEW j \in Job, IInv, NewInstances(j)
    PROVE  IInv'
<1> USE NoneAssumption DEF IInv, At
<1>0. PICK N \in SUBSET {v \in VM : vm[v] = None} :
        /\ Cardinality(N) <= IF job[j].kind = "start" THEN 1 ELSE MaxNodes
        /\ vm' = [v \in VM |-> IF v \notin N THEN vm[v] ELSE
                    [app |-> job[j].app, up |-> TRUE,
                     role |-> IF job[j].kind = "start" THEN "manager" ELSE "agent"]]
        /\ \/ N # {} /\ Goto(j, "wait", N) /\ lost' = lost
           \/ End(j) /\ lost' = lost \cup N
  BY DEF NewInstances
<1>a. /\ job[j] # None /\ job[j] \in Work /\ job' \in [Job -> Work \cup {None}]
      /\ job[j].kind \in Creates /\ job[j].pc = "request" /\ job[j].app \in App
      /\ \A i \in Job : i # j => job'[i] = job[i]
      /\ \/ /\ lost' = lost /\ job'[j] # None /\ job'[j].kind = job[j].kind
            /\ job'[j].app = job[j].app /\ job'[j].pc = "wait" /\ job'[j].vms = N
         \/ job'[j] = None /\ lost' = lost \cup N
  BY <1>0, GotoJob, EndJob DEF NewInstances, TypeOK, Work, Creates
<1>e. UNCHANGED <<status, rows, doomed, known, released, taken, crossed>>
  BY DEF NewInstances
<1>b. job[j].kind = "start" => \A u, v \in N : u = v
  <2>1. IsFiniteSet(N)
    BY VMAssumption, FS_Subset
  <2>2. job[j].kind = "start" => Cardinality(N) = 0 \/ Cardinality(N) = 1
    BY <1>0, <2>1, FS_CardinalityType
  <2> QED BY <2>1, <2>2, FS_EmptySet, FS_Singleton
<1>c. /\ \A v \in VM \ N : vm'[v] = vm[v]
      /\ \A v \in N : /\ vm[v] = None /\ vm'[v] # None /\ vm'[v] \in Machine
                      /\ vm'[v].app = job[j].app /\ vm'[v].up = TRUE
                      /\ vm'[v].role = IF job[j].kind = "start" THEN "manager" ELSE "agent"
      /\ vm' \in [VM -> Machine \cup {None}]
      /\ N \subseteq VM /\ N \cap known = {}
  <2>1. \A v \in VM \ N : vm'[v] = vm[v]
    BY <1>0
  <2>2. \A v \in N : vm[v] = None /\ vm'[v] \in Machine
                     /\ vm'[v].app = job[j].app /\ vm'[v].up = TRUE
                     /\ vm'[v].role = IF job[j].kind = "start" THEN "manager" ELSE "agent"
    BY <1>0, <1>a DEF Machine
  <2>3. N \subseteq VM /\ N \cap known = {}
    BY <2>2 DEF TypeOK
  <2>4. vm' \in [VM -> Machine \cup {None}]
    BY <1>0, <2>1, <2>2 DEF TypeOK
  <2> QED BY <2>1, <2>2, <2>3, <2>4, NoneAssumption
<1>d. \A i \in Job : job[i] # None => job[i].vms \cap N = {}
  <2> SUFFICES ASSUME NEW i \in Job, job[i] # None, NEW v \in job[i].vms, vm[v] = None
               PROVE  FALSE
    BY <1>c
  <2>1. CASE job[i].kind \in Creates
    BY <2>1 DEF JobsOK, Creating, Up
  <2>2. CASE job[i].kind \in Stops
    BY <2>2 DEF JobsOK, Stopping, Of
  <2>3. CASE job[i].kind = "remove"
    BY <2>3 DEF JobsOK, Removing, Of
  <2> QED
    BY <2>1, <2>2, <2>3 DEF TypeOK, Work, Creates, Stops
<1>1. TypeOK'
  BY <1>a DEF NewInstances, TypeOK, Machine
<1>2. NoCorpseCharged'
  BY <1>a DEF NewInstances, TypeOK, NoCorpseCharged, JobsOK, Creating, Up,
     Removal
<1>3. JobsOK'
  <2> SUFFICES ASSUME NEW i \in Job, job'[i] # None
               PROVE  (Creating(job[i]) /\ Stopping(job[i]) /\ Removing(job[i]))'
    BY DEF JobsOK
  <2>1. CASE i = j
    <3>1. Creating(job[i])'
      BY <1>a, <1>b, <1>c, <1>e, <2>1 DEF Creating, Up, Creates
    <3>2. Stopping(job[i])'
      BY <1>a, <2>1 DEF JobsOK, Stopping
    <3>3. Removing(job[i])'
      BY <1>a, <2>1 DEF JobsOK, Removing
    <3> QED BY <3>1, <3>2, <3>3
  <2>2. CASE i # j
    <3>0. /\ job'[i] = job[i] /\ job[i] # None /\ job[i].vms \subseteq VM \ N
          /\ \A v \in job[i].vms : vm'[v] = vm[v]
      BY <1>a, <1>c, <1>d, <2>2 DEF TypeOK, Work
    <3>1. Creating(job[i])'
      <4>1. Creating(job[i])
        BY <3>0 DEF JobsOK
      <4>2. \A v \in job[i].vms : Up(v)' = Up(v) /\ vm'[v] = vm[v]
        BY <3>0 DEF Up
      <4> QED
        BY <3>0, <1>e, <4>1, <4>2 DEF Creating
    <3>2. Stopping(job[i])'
      BY <1>a DEF NewInstances, JobsOK, Stopping, Of
    <3>3. Removing(job[i])'
      BY <1>a DEF NewInstances, JobsOK, Removing, Of, Up
    <3> QED BY <3>1, <3>2, <3>3
  <2> QED BY <2>1, <2>2
<1>4. Apart'
  BY <1>a, <1>d DEF Apart, JobsOK, Creating
<1>5. Traced'
  BY <1>0, <1>a DEF NewInstances, TypeOK, Traced, Up, JobsOK, Creating
<1>6. Blamed'
  BY DEF NewInstances, TypeOK, Blamed
<1>7. Orderly'
  <2>1. \A a \in App : (rows \cap Of(a))' = rows \cap Of(a)
    BY <1>c, <1>e DEF Of, TypeOK
  <2>2. \A i \in Job : job'[i] # None =>
          /\ job[i] # None /\ job'[i].app = job[i].app /\ job'[i].kind = job[i].kind
          /\ job[i].app \in App
          /\ job[i].kind \in Stops => job'[i] = job[i]
    BY <1>a DEF TypeOK, Work, Creates, Stops
  <2> SUFFICES ASSUME NEW i \in Job, job'[i] # None, (job[i].app \notin crossed)'
               PROVE  Alone(i)'
    BY DEF Orderly
  <2>3. Alone(i)
    BY <1>e, <2>2 DEF Orderly
  <2> QED
    BY <1>e, <2>1, <2>2, <2>3 DEF Alone
<1>8. Sparse'
  BY DEF NewInstances, TypeOK, Sparse, Of, OfApp
<1> QED
  BY <1>1, <1>2, <1>3, <1>4, <1>5, <1>6, <1>7, <1>8

\* The machines that are left run.
LEMMA WaitForNodesStep ==
    ASSUME NEW j \in Job, IInv, WaitForNodes(j)
    PROVE  IInv'
<1> USE NoneAssumption DEF IInv, At
<1>0. PICK ready \in SUBSET job[j].vms, K \in SUBSET job[j].vms :
        /\ K \cap ready = {}
        /\ Destroy(K)
        /\ lost' = lost \cup (job[j].vms \ (ready \cup K))
        /\ Goto(j, "register", ready)
  BY DEF WaitForNodes
<1>a. /\ job[j] # None /\ job[j] \in Work /\ job' \in [Job -> Work \cup {None}]
      /\ job[j].kind \in Creates /\ job[j].pc = "wait" /\ job[j].app \in App
      /\ job[j].vms \subseteq VM
      /\ \A i \in Job : i # j => job'[i] = job[i]
      /\ job'[j] # None /\ job'[j].kind = job[j].kind
      /\ job'[j].app = job[j].app /\ job'[j].pc = "register" /\ job'[j].vms = ready
  BY <1>0, GotoJob DEF WaitForNodes, TypeOK, Work, Creates
<1>b. /\ K \subseteq VM /\ K \cap known = {} /\ \A v \in K : vm[v] # None
      /\ \A v \in K : \A i \in Job : i # j /\ job[i] # None => v \notin job[i].vms
  <2>1. K \subseteq VM /\ K \cap known = {} /\ \A v \in K : vm[v] # None
    BY <1>0, <1>a DEF JobsOK, Creating, Up
  <2>2. ASSUME NEW v \in K, NEW i \in Job, i # j, job[i] # None
        PROVE  v \notin job[i].vms
    <3>1. CASE job[i].kind \in Creates
      BY <1>a, <2>2, <3>1 DEF Apart
    <3>2. CASE job[i].kind \in Stops
      BY <2>1, <2>2, <3>2 DEF JobsOK, Stopping
    <3>3. CASE job[i].kind = "remove"
      BY <2>1, <2>2, <3>3 DEF JobsOK, Removing, TypeOK
    <3> QED
      BY <2>2, <3>1, <3>2, <3>3 DEF TypeOK, Work, Creates, Stops
  <2> QED BY <2>1, <2>2
<1>c. /\ vm' \in [VM -> Machine \cup {None}]
      /\ \A v \in VM \ K : vm'[v] = vm[v]
      /\ \A v \in K : /\ vm'[v] # None /\ vm'[v].app = vm[v].app
                      /\ vm'[v].role = vm[v].role /\ ~vm'[v].up
  BY <1>0, <1>b, DestroyVM DEF TypeOK
<1>1. TypeOK'
  BY <1>a, <1>c DEF WaitForNodes, TypeOK
<1>2. NoCorpseCharged'
  BY <1>a, <1>c DEF WaitForNodes, TypeOK, NoCorpseCharged, JobsOK, Creating,
     Up, Removal
<1>3. JobsOK'
  <2> SUFFICES ASSUME NEW i \in Job, job'[i] # None
               PROVE  (Creating(job[i]) /\ Stopping(job[i]) /\ Removing(job[i]))'
    BY DEF JobsOK
  <2>1. CASE i = j
    <3>1. Creating(job[i])'
      BY <1>0, <1>a, <1>c, <2>1 DEF WaitForNodes, JobsOK, Creating, Up
    <3>2. Stopping(job[i])'
      BY <1>a, <2>1 DEF JobsOK, Stopping
    <3>3. Removing(job[i])'
      BY <1>a, <2>1 DEF WaitForNodes, Removing
    <3> QED BY <3>1, <3>2, <3>3
  <2>2. CASE i # j
    <3>1. Creating(job[i])'
      BY <1>a, <1>c, <2>2 DEF WaitForNodes, Work, JobsOK, Creating, Apart, Up
    <3>2. Stopping(job[i])'
      BY <1>a, <1>c DEF WaitForNodes, JobsOK, Stopping, Of
    <3>3. Removing(job[i])'
      BY <1>a, <1>c DEF WaitForNodes, JobsOK, Removing, Of, Up
    <3> QED BY <3>1, <3>2, <3>3
  <2> QED BY <2>1, <2>2
<1>4. Apart'
  BY <1>0, <1>a, <1>b, <1>c DEF WaitForNodes, TypeOK, Apart, Creates, Stops,
       JobsOK, Creating, Removing
<1>5. Traced'
  BY <1>0, <1>a, <1>c DEF WaitForNodes, TypeOK, Traced, Up
<1>6. Blamed'
  BY <1>c DEF WaitForNodes, TypeOK, Blamed
<1>7. Orderly'
  BY <1>a, <1>c DEF WaitForNodes, TypeOK, Orderly, Alone, Of
<1>8. Sparse'
  BY <1>c DEF WaitForNodes, TypeOK, Sparse, Of, OfApp
<1> QED
  BY <1>1, <1>2, <1>3, <1>4, <1>5, <1>6, <1>7, <1>8

\* The machines get rows, unless the application is gone.
LEMMA RegisterStep ==
    ASSUME NEW j \in Job, IInv, Register(j)
    PROVE  IInv'
<1> USE NoneAssumption DEF IInv, At
<1>a. /\ job[j] # None /\ job[j] \in Work /\ job' \in [Job -> Work \cup {None}]
      /\ job'[j] = None /\ \A i \in Job : i # j => job'[i] = job[i]
  BY EndJob DEF Register, TypeOK
<1>1. TypeOK'
  BY <1>a DEF Register, TypeOK, Work, Status, JobsOK, Creating, Creates, Up
<1>2. NoCorpseCharged'
  BY <1>a DEF Register, NoCorpseCharged, JobsOK, Creating, Up, Removal, Creates
<1>3. JobsOK'
  <2> SUFFICES ASSUME NEW i \in Job, job'[i] # None
               PROVE  (Creating(job[i]) /\ Stopping(job[i]) /\ Removing(job[i]))'
    BY DEF JobsOK
  <2>0. i # j /\ job'[i] = job[i]
    BY <1>a
  <2>1. Creating(job[i])'
    BY <2>0 DEF Register, JobsOK, Creating, Apart, Up, Creates
  <2>2. Stopping(job[i])'
    BY <2>0 DEF Register, JobsOK, Stopping, Of
  <2>3. Removing(job[i])'
    BY <2>0 DEF Register, JobsOK, Removing, Of, Up
  <2> QED BY <2>1, <2>2, <2>3
<1>4. Apart'
  BY <1>a DEF Register, TypeOK, Apart, Creates, Stops, JobsOK, Creating,
       Removing
<1>5. Traced'
  BY <1>a DEF Register, Traced, Up
<1>6. Blamed'
  BY DEF Register, TypeOK, Blamed, JobsOK, Creating, Creates
<1>7. Orderly'
  BY <1>a DEF Register, Orderly, Alone, Of, Creates, Stops, JobsOK, Creating
<1>8. Sparse'
  BY DEF Register, TypeOK, Orderly, Alone, Sparse, Of, OfApp, Creates, JobsOK,
     Creating
<1> QED
  BY <1>1, <1>2, <1>3, <1>4, <1>5, <1>6, <1>7, <1>8

\* A manager removes a node once, so its row is there unless a stop came.
LEMMA remove_nodesStep ==
    ASSUME NEW j \in Job, NEW a \in App, NEW S \in SUBSET VM, IInv, remove_nodes(j, a, S)
    PROVE  IInv'
<1> USE NoneAssumption DEF IInv, At
<1>a. /\ job[j] = None /\ job' \in [Job -> Work \cup {None}]
      /\ job'[j] = [kind |-> "remove", app |-> a, pc |-> "kill", vms |-> S]
      /\ job'[j] # None /\ \A i \in Job : i # j => job'[i] = job[i]
  <2>1. Begin(j, "remove", a, "kill", S) /\ S \in SUBSET VM
         /\ "remove" \in {"start", "agents", "stop", "delete", "remove"}
    BY DEF remove_nodes, Stops
  <2> QED
    BY <2>1, BeginJob DEF TypeOK
<1>1. TypeOK'
  BY <1>a DEF remove_nodes, TypeOK, Work, Machine, Status, Creates, Stops,
       OfApp, Destroy
<1>2. NoCorpseCharged'
  BY <1>a DEF remove_nodes, NoCorpseCharged, Up, Removal
<1>3. JobsOK'
  <2> SUFFICES ASSUME NEW i \in Job, job'[i] # None
               PROVE  (Creating(job[i]) /\ Stopping(job[i]) /\ Removing(job[i]))'
    BY DEF JobsOK
  <2>1. CASE i = j
    <3>1. Creating(job[i])'
      BY <1>a, <2>1 DEF Creating, Creates
    <3>2. Stopping(job[i])'
      BY <1>a, <2>1 DEF Stopping, Stops
    <3>3. Removing(job[i])'
      BY <1>a DEF remove_nodes, JobsOK, Removing, Blamed, Of, OfApp, Up
    <3> QED BY <3>1, <3>2, <3>3
  <2>2. CASE i # j
    <3>1. Creating(job[i])'
      BY <1>a, <2>2 DEF remove_nodes, JobsOK, Creating, Up
    <3>2. Stopping(job[i])'
      BY <1>a, <2>2 DEF remove_nodes, JobsOK, Stopping, Of
    <3>3. Removing(job[i])'
      BY <1>a DEF remove_nodes, JobsOK, Removing, Blamed, Of, OfApp, Up
    <3> QED BY <3>1, <3>2, <3>3
  <2> QED BY <2>1, <2>2
<1>4. Apart'
  BY <1>a DEF remove_nodes, TypeOK, Apart, Creates, Stops, JobsOK, Creating,
       Removing
<1>5. Traced'
  BY <1>a DEF remove_nodes, Traced, Up
<1>6. Blamed'
  BY DEF remove_nodes, Blamed
<1>7. Orderly'
  BY <1>a DEF remove_nodes, Orderly, Alone, Of
<1>8. Sparse'
  BY DEF remove_nodes, Sparse, Of, OfApp
<1> QED
  BY <1>1, <1>2, <1>3, <1>4, <1>5, <1>6, <1>7, <1>8

\* The nodes a manager removes are killed or given up.
LEMMA KillNodesStep ==
    ASSUME NEW j \in Job, IInv, KillNodes(j)
    PROVE  IInv'
<1> USE NoneAssumption DEF IInv, At
<1>0. PICK K \in SUBSET {v \in job[j].vms : Up(v)} :
        Destroy(K) /\ lost' = lost \cup {v \in job[j].vms \ K : Up(v)}
  BY DEF KillNodes
<1>a. /\ job[j] # None /\ job[j] \in Work /\ job' \in [Job -> Work \cup {None}]
      /\ job[j].kind = "remove" /\ job[j].pc = "kill" /\ job[j].app \in App
      /\ job[j].vms \subseteq VM
      /\ \A i \in Job : i # j => job'[i] = job[i]
      /\ job'[j] # None /\ job'[j].kind = "remove"
      /\ job'[j].app = job[j].app /\ job'[j].pc = "rows" /\ job'[j].vms = job[j].vms
  BY GotoJob DEF KillNodes, TypeOK, Work
<1>b. /\ K \subseteq VM /\ K \subseteq known /\ \A v \in K : vm[v] # None
  BY <1>0, <1>a DEF JobsOK, Removing, TypeOK, Up
<1>c. /\ vm' \in [VM -> Machine \cup {None}]
      /\ \A v \in VM \ K : vm'[v] = vm[v]
      /\ \A v \in K : /\ vm'[v] # None /\ vm'[v].app = vm[v].app
                      /\ vm'[v].role = vm[v].role /\ ~vm'[v].up
  BY <1>0, <1>b, DestroyVM DEF TypeOK
<1>1. TypeOK'
  BY <1>0, <1>a, <1>b, <1>c DEF KillNodes, TypeOK, Work, Machine, Status,
       Creates, Stops, OfApp, Destroy
<1>2. NoCorpseCharged'
  BY <1>a, <1>c DEF KillNodes, TypeOK, NoCorpseCharged, Up, Removal
<1>3. JobsOK'
  <2> SUFFICES ASSUME NEW i \in Job, job'[i] # None
               PROVE  (Creating(job[i]) /\ Stopping(job[i]) /\ Removing(job[i]))'
    BY DEF JobsOK
  <2>1. CASE i = j
    <3>1. Creating(job[i])'
      BY <1>a, <2>1 DEF JobsOK, Creating
    <3>2. Stopping(job[i])'
      BY <1>a, <2>1 DEF JobsOK, Stopping
    <3>3. Removing(job[i])'
      BY <1>a, <1>c, <1>0 DEF KillNodes, JobsOK, Removing, Of, Up
    <3> QED BY <3>1, <3>2, <3>3
  <2>2. CASE i # j
    <3>1. Creating(job[i])'
      BY <1>a, <1>b, <1>c DEF KillNodes, Work, JobsOK, Creating, Up
    <3>2. Stopping(job[i])'
      BY <1>a, <1>c DEF KillNodes, JobsOK, Stopping, Of
    <3>3. Removing(job[i])'
      BY <1>a, <1>c, <2>2 DEF KillNodes, JobsOK, Removing, Of, Up
    <3> QED BY <3>1, <3>2, <3>3
  <2> QED BY <2>1, <2>2
<1>4. Apart'
  BY <1>0, <1>a, <1>b, <1>c DEF KillNodes, TypeOK, Apart, Creates, Stops,
       JobsOK, Creating, Removing
<1>5. Traced'
  BY <1>a, <1>c DEF KillNodes, TypeOK, Traced, Up
<1>6. Blamed'
  BY <1>c DEF KillNodes, TypeOK, Blamed
<1>7. Orderly'
  BY <1>a, <1>c DEF KillNodes, TypeOK, Orderly, Alone, Of
<1>8. Sparse'
  BY <1>c DEF KillNodes, TypeOK, Sparse, Of, OfApp
<1> QED
  BY <1>1, <1>2, <1>3, <1>4, <1>5, <1>6, <1>7, <1>8

\* The rows of the nodes go, as far as they are there.
LEMMA RemoveRowsStep ==
    ASSUME NEW j \in Job, IInv, RemoveRows(j)
    PROVE  IInv'
<1> USE NoneAssumption DEF IInv, At
<1>a. /\ job[j] # None /\ job[j] \in Work /\ job' \in [Job -> Work \cup {None}]
      /\ job'[j] = None /\ \A i \in Job : i # j => job'[i] = job[i]
  BY EndJob DEF RemoveRows, TypeOK
<1>1. TypeOK'
  BY <1>a DEF RemoveRows, TypeOK, Work, Machine, Status, Creates, Stops,
       OfApp, Destroy
<1>2. NoCorpseCharged'
  BY <1>a DEF RemoveRows, NoCorpseCharged, JobsOK, Removing, Up, Removal, Of
<1>3. JobsOK'
  <2> SUFFICES ASSUME NEW i \in Job, job'[i] # None
               PROVE  (Creating(job[i]) /\ Stopping(job[i]) /\ Removing(job[i]))'
    BY DEF JobsOK
  <2>0. i # j /\ job'[i] = job[i]
    BY <1>a
  <2>1. Creating(job[i])'
    BY <2>0 DEF RemoveRows, JobsOK, Creating, Up
  <2>2. Stopping(job[i])'
    BY <2>0 DEF RemoveRows, JobsOK, Stopping, Of
  <2>3. Removing(job[i])'
    BY <2>0 DEF RemoveRows, JobsOK, Removing, Apart, Of, Up
  <2> QED BY <2>1, <2>2, <2>3
<1>4. Apart'
  BY <1>a DEF RemoveRows, TypeOK, Apart, Creates, Stops, JobsOK, Creating,
       Removing
<1>5. Traced'
  BY <1>a DEF RemoveRows, Traced, Up, JobsOK, Removing
<1>6. Blamed'
  BY DEF RemoveRows, Blamed, JobsOK, Removing
<1>7. Orderly'
  BY <1>a DEF RemoveRows, Orderly, Alone, Of
<1>8. Sparse'
  BY DEF RemoveRows, Sparse, Of, OfApp
<1> QED
  BY <1>1, <1>2, <1>3, <1>4, <1>5, <1>6, <1>7, <1>8

\* The machines that a thread kills have no row any more.
LEMMA KillStep ==
    ASSUME NEW v \in VM, IInv, Kill(v)
    PROVE  IInv'
<1> USE NoneAssumption DEF IInv, At
<1>a. /\ v \in doomed /\ vm[v] # None /\ doomed' = doomed \ {v}
      /\ vm' \in [VM -> Machine \cup {None}]
      /\ \A u \in VM : u # v => vm'[u] = vm[u]
      /\ vm'[v] # None /\ vm'[v].app = vm[v].app /\ vm'[v].role = vm[v].role
      /\ \/ ~vm'[v].up /\ lost' = lost
         \/ vm' = vm /\ lost' = IF Up(v) THEN lost \cup {v} ELSE lost
  BY DestroyVM DEF Kill, TypeOK
<1>1. TypeOK'
  BY <1>a DEF Kill, TypeOK, Work, Machine, Status, Creates, Stops, OfApp,
       Destroy
<1>2. NoCorpseCharged'
  BY DEF Kill, TypeOK, Machine, NoCorpseCharged, Up, Removal, Blamed, Destroy
<1>3. JobsOK'
  <2> SUFFICES ASSUME NEW i \in Job, job'[i] # None
               PROVE  (Creating(job[i]) /\ Stopping(job[i]) /\ Removing(job[i]))'
    BY DEF JobsOK
  <2>1. Creating(job[i])'
    BY <1>a DEF Kill, TypeOK, Work, JobsOK, Creating, Up
  <2>2. Stopping(job[i])'
    BY <1>a DEF Kill, JobsOK, Stopping, Of
  <2>3. Removing(job[i])'
    BY <1>a DEF Kill, JobsOK, Removing, Of, Up
  <2> QED BY <2>1, <2>2, <2>3
<1>4. Apart'
  BY <1>a DEF Kill, TypeOK, Apart, Creates, Stops, JobsOK, Creating, Removing
<1>5. Traced'
  BY <1>a DEF Kill, TypeOK, Traced, Up
<1>6. Blamed'
  BY <1>a DEF Kill, TypeOK, Blamed
<1>7. Orderly'
  BY <1>a DEF Kill, Orderly, Alone, Of
<1>8. Sparse'
  BY <1>a DEF Kill, Sparse, Of, OfApp
<1> QED
  BY <1>1, <1>2, <1>3, <1>4, <1>5, <1>6, <1>7, <1>8

\* The background check never finds a machine that is old enough.
LEMMA check_sanityStep ==
    ASSUME IInv, check_sanity
    PROVE  IInv'
<1> USE NoneAssumption DEF IInv, At
<1>a. vm' = vm
  BY DEF check_sanity, mins_from_creation, Destroy, TypeOK
<1>1. TypeOK'
  BY <1>a DEF check_sanity, TypeOK, Work, Machine, Status, Creates, Stops,
       OfApp, Destroy
<1>2. NoCorpseCharged'
  BY <1>a DEF check_sanity, NoCorpseCharged, Up, Removal
<1>3. JobsOK'
  BY <1>a DEF check_sanity, JobsOK, Creating, Stopping, Removing, Of, Up
<1>4. Apart'
  BY <1>a DEF check_sanity, TypeOK, Apart, Creates, Stops, JobsOK, Creating,
       Removing
<1>5. Traced'
  BY <1>a DEF check_sanity, Traced, Up
<1>6. Blamed'
  BY <1>a DEF check_sanity, Blamed
<1>7. Orderly'
  BY <1>a DEF check_sanity, Orderly, Alone, Of
<1>8. Sparse'
  BY <1>a DEF check_sanity, Sparse, Of, OfApp
<1> QED
  BY <1>1, <1>2, <1>3, <1>4, <1>5, <1>6, <1>7, <1>8
-----------------------------------------------------------------------------
\* The first state has no machines and no requests.
LEMMA InitInv == Init => IInv
BY DEF Init, IInv, TypeOK, Status, NoCorpseCharged, JobsOK, Apart, Traced,
   Blamed, Orderly, Sparse, Up

\* A step that changes nothing changes nothing.
LEMMA StutterInv == IInv /\ UNCHANGED vars => IInv'
<1> SUFFICES ASSUME IInv, UNCHANGED vars PROVE IInv'
  OBVIOUS
<1> USE DEF vars, IInv
<1>1. TypeOK'
  BY DEF TypeOK
<1>2. NoCorpseCharged'
  BY DEF NoCorpseCharged, Up, Removal, At
<1>3. JobsOK'
  BY DEF JobsOK, Creating, Stopping, Removing, Of, Up
<1>4. Apart'
  BY DEF Apart
<1>5. Traced'
  BY DEF Traced, Up
<1>6. Blamed'
  BY DEF Blamed
<1>7. Orderly'
  BY DEF Orderly, Alone, Of
<1>8. Sparse'
  BY DEF Sparse, Of, OfApp
<1> QED
  BY <1>1, <1>2, <1>3, <1>4, <1>5, <1>6, <1>7, <1>8

\* Every request, every step of one and every background thread preserves IInv.
LEMMA NextInv == IInv /\ Next => IInv'
<1> SUFFICES ASSUME IInv, Next PROVE IInv'
  OBVIOUS
<1>1. CASE \E a \in App : createapp(a)
  BY <1>1, createappStep
<1>2. ASSUME NEW j \in Job, Step(j) PROVE IInv'
  BY <1>2, StartCommitStep, ReadRowsStep, DropRowsStep, DeleteEndStep,
     NewInstancesStep, WaitForNodesStep, RegisterStep, KillNodesStep,
     RemoveRowsStep DEF Step
<1>3. ASSUME NEW j \in Job, NEW a \in App, Request(j, a) PROVE IInv'
  <2>1. "stop" \in Stops /\ "delete" \in Stops
    BY DEF Stops
  <2> QED
    BY <1>3, <2>1, startappStep, deleteappStep, create_nodesStep,
       remove_nodesStep DEF Request
<1>4. CASE \E v \in VM : Kill(v)
  BY <1>4, KillStep
<1>5. CASE check_sanity
  BY <1>5, check_sanityStep
<1> QED
  BY <1>1, <1>2, <1>3, <1>4, <1>5 DEF Next

\* The inductive invariant of the director.
THEOREM Inductive == Spec => []IInv
<1>1. IInv /\ [Next]_vars => IInv'
  BY NextInv, StutterInv
<1> QED
  BY <1>1, InitInv, PTL DEF Spec

\* Application.status, the Resource table and the requests of the director are
\* always well formed; only machines that once had a row have a row.
THEOREM TypeCorrect == Spec => []TypeOK
<1>1. IInv => TypeOK
  BY DEF IInv
<1> QED
  BY <1>1, Inductive, PTL

\* Every virtual machine that runs has a row, or a request is at work on it, or
\* a thread of _deleteapp will kill it, or a call has failed for it, however
\* stops, deletions and additions of nodes race.
THEOREM AccountedAlways == Spec => []Accounted
<1>1. IInv => Accounted
  BY DEF IInv, Accounted, Traced, InJob
<1> QED
  BY <1>1, Inductive, PTL

\* credits.py charges for the rows: no row outlives its machine and the removal
\* that kills it, unless a stop has taken the row of another machine of the same
\* removal, which breaks off there.  Applications that are stopped, deleted and
\* started again are not excepted.
THEOREM NoCorpseChargedAlways == Spec => []NoCorpseCharged
<1>1. IInv => NoCorpseCharged
  BY DEF IInv
<1> QED
  BY <1>1, Inductive, PTL

\* An application whose requests do not cross has one manager at most: a start
\* finds no rows, and starts one virtual machine.
THEOREM SingleManagerAlways == Spec => []SingleManager
<1>1. ASSUME IInv, NEW a \in App \ crossed
      PROVE  Cardinality(rows \cap OfApp(a, "manager")) <= 1
  <2> DEFINE M == rows \cap OfApp(a, "manager")
  <2>1. \A u, v \in M : u = v
    BY <1>1 DEF IInv, Sparse
  <2>2. CASE M = {}
    BY <2>2, FS_EmptySet
  <2>3. CASE M # {}
    <3>1. PICK m : M = {m}
      BY <2>1, <2>3
    <3>2. Cardinality({m}) = 1
      BY FS_Singleton
    <3> QED
      BY <3>1, <3>2
  <2> QED
    BY <2>2, <2>3
<1>2. IInv => SingleManager
  BY <1>1 DEF SingleManager
<1> QED
  BY <1>2, Inductive, PTL

\* A stopped application, whose stops are over and have met no start and no
\* addition of nodes, has no machines that are charged.
THEOREM StoppedCostsNothingAlways == Spec => []StoppedCostsNothing
<1>1. IInv => StoppedCostsNothing
  BY DEF IInv, StoppedCostsNothing, Sparse, Of, OfApp
<1> QED
  BY <1>1, Inductive, PTL
=============================================================================
