--------------------------- MODULE GenericCodeProofs ---------------------------
(***************************************************************************)
(* Proofs about GenericCode, for every number of nodes, versions and       *)
(* workers: types, and SameCode, InitFirst and ActiveKept.                *)
(***************************************************************************)
EXTENDS GenericCode, TLAPS

-----------------------------------------------------------------------------
(* The invariant. *)

\* Worker t has the service in its state, and will set another one: it has not
\* come to taking nodes off the list, and does not only execute a script.
Holds(t) ==
    /\ thread[t] # None
    /\ thread[t].op # "script"
    /\ thread[t].pc # "drop"

\* Worker t is sending the code to the nodes of its loop.
Sending(t) == thread[t] # None /\ thread[t].pc \in {"update", "init"}

\* Worker t knows the nodes that it will take off the list.
Shrinking(t) ==
    thread[t] # None /\ thread[t].op = "remove" /\ thread[t].pc \in {"call", "drop"}

\* The places that a worker comes to.
Places(op) ==
    CASE op = "start" -> {"begin", "update", "init"}
      [] op = "add" -> {"begin", "update", "init", "call"}
      [] op = "remove" -> {"begin", "call", "drop"}
      [] op = "enable" -> {"begin", "update", "init"}
      [] OTHER -> {"call"}

WorkerOK(w) ==
    /\ w.pc \in Places(w.op)
    /\ w.op \in {"start", "add", "remove"} => w.count >= 1
    /\ w.op = "script" => w.arg \in {"run", "interrupt"}
    /\ w.op = "enable" => w.arg \in Version
    /\ IF w.pc = "init" THEN w.at \in Node ELSE w.at = None
    /\ w.pc \in {"update", "init"} =>
         IF w.op = "add" THEN w.walk.over \in Seq(Node) \ {<<>>} ELSE w.walk.over = None
    /\ w.op = "remove" /\ w.pc \in {"call", "drop"} =>
         w.later # <<>> /\ ToSet(w.later) \subseteq created

Threads == \A t \in Thread : thread[t] # None => WorkerOK(thread[t])

RequestOK ==
    request # None =>
      /\ state = "RUNNING"
      /\ request.op = "script" => request.arg \in {"run", "interrupt"}
      /\ request.op = "enable" => request.arg \in Version

\* The state of the service is a lock.
Lock ==
    \A t \in Thread : Holds(t) =>
      /\ state = IF thread[t].op = "start" THEN "PROLOGUE" ELSE "ADAPTING"
      /\ \A u \in Thread : Holds(u) => u = t

\* No node is on the list twice.
Distinct ==
    /\ ToSet(nodes) \subseteq created
    /\ \A i, j \in 1..Len(nodes) : nodes[i] = nodes[j] => i = j

\* The service has nodes, or a start is giving it some.
Alive == state \in {"RUNNING", "ADAPTING"} \/ \E t \in Thread : Sending(t)

\* The first node is there to stay.
FirstStays ==
    Alive =>
      /\ nodes # <<>>
      /\ \A t \in Thread : Shrinking(t) => nodes[1] \notin ToSet(thread[t].later)

\* An activation has set the active version, and has not looked it up yet.
Activating(t) ==
    thread[t].op = "enable" /\ thread[t].pc = "update" /\ thread[t].walk.i = 1

\* The active version exists, unless it was deleted before its activation began.
Known ==
    \/ current \in versions
    \/ state = "ADAPTING" /\ \A t \in Thread : Holds(t) => Activating(t)

\* The agents: one worker at a time is in a call to one of them; without code
\* nothing runs there, and until init.sh has begun nothing but an interruption.
Busy(t, n) == thread[t] # None /\ thread[t].at = n

OneAtATime ==
    /\ \A n \in Node : \A t, u \in Thread : Busy(t, n) /\ Busy(u, n) => t = u
    /\ \A n \in Node :
         IF \E t \in Thread : Busy(t, n)
         THEN running[n] \subseteq {"interrupt"}
         ELSE code[n] # None => n \in begun
    /\ \A n \in Node : code[n] = None => running[n] = {}

\* Of the other scripts one runs at a time, once init.sh has begun.
Started ==
    \A n \in Node : \A c \in running[n] : c # "interrupt" =>
      n \in begun /\ running[n] \subseteq {c, "interrupt"}

\* Worker t has still to come to node n.
Due(t, n) ==
    /\ Sending(t)
    /\ \E j \in thread[t].walk.i..Len(ListOf(thread[t].walk)) :
         ListOf(thread[t].walk)[j] = n

\* Every agent on the list has the active version, or will be sent it.
Uniform ==
    \A n \in ToSet(nodes) : code[n] = current \/ \E t \in Thread : Due(t, n)

\* When that is so: the service runs, or is between two times that it runs.
Coherent ==
    \/ state = "RUNNING"
    \/ \E t \in Thread : Holds(t) /\ (thread[t].op # "start" \/ Sending(t))

\* The nodes of q are the last ones of the list, last first, or the removal that
\* is to take them off will find the first one gone.
AtEnd(q) ==
    \/ q[1] \notin ToSet(nodes)
    \/ /\ Len(q) <= Len(nodes)
       /\ \A j \in 1..Len(q) : q[j] = nodes[Len(nodes) + 1 - j]

InOrder ==
    ~crossed =>
      /\ \A t \in Thread : Shrinking(t) => AtEnd(thread[t].later)
      /\ \A t \in Thread : Sending(t) /\ thread[t].op # "enable" =>
           \A u \in Thread : ~Shrinking(u)
      /\ Coherent => Uniform

Control == TypeOK /\ RequestOK /\ Threads /\ Lock

List == Distinct /\ FirstStays /\ Known /\ InOrder

Agents == OneAtATime /\ Started

IInv == Control /\ List /\ Agents

-----------------------------------------------------------------------------
(* Lists and loops. *)

\* A list without its element at place i; on a list that has no element twice
\* RemoveFirst is that.
Without(q, i) == [j \in 1..Len(q) - 1 |-> IF j < i THEN q[j] ELSE q[j + 1]]

LEMMA RemoveAtWithout ==
    ASSUME NEW S, NEW q \in Seq(S), NEW i \in 1..Len(q)
    PROVE  RemoveAt(q, i) = Without(q, i)
<1> DEFINE a == SubSeq(q, 1, i - 1)
           b == SubSeq(q, i + 1, Len(q))
<1>1. PICK n \in Nat : n = Len(q)
  OBVIOUS
<1>2. /\ a \in Seq(S) /\ Len(a) = i - 1
      /\ \A j \in 1..i - 1 : a[j] = q[j]
  OBVIOUS
<1>3. /\ b \in Seq(S) /\ Len(b) = n - i
      /\ \A j \in 1..n - i : b[j] = q[j + i]
  BY <1>1
<1> HIDE DEF a, b
<1>4. /\ a \o b \in Seq(S) /\ Len(a \o b) = n - 1
      /\ \A j \in 1..n - 1 : (a \o b)[j] = IF j < i THEN q[j] ELSE q[j + 1]
  <2>1. /\ a \o b \in Seq(S) /\ Len(a \o b) = n - 1
    BY <1>1, <1>2, <1>3
  <2>2. ASSUME NEW j \in 1..n - 1 PROVE (a \o b)[j] = IF j < i THEN q[j] ELSE q[j + 1]
    <3>1. CASE j < i
      BY <1>1, <1>2, <1>3, <3>1
    <3>2. CASE j >= i
      <4>1. (a \o b)[j] = b[j - (i - 1)] /\ j - (i - 1) \in 1..n - i
        BY <1>1, <1>2, <1>3, <3>2
      <4> QED BY <1>1, <1>3, <3>2, <4>1
    <3>3. j < i \/ j >= i
      BY <1>1
    <3> QED BY <3>1, <3>2, <3>3
  <2> QED BY <2>1, <2>2
<1>5. a \o b = [j \in 1..n - 1 |-> IF j < i THEN q[j] ELSE q[j + 1]]
  <2>1. \A t \in Seq(S) : t = [j \in 1..Len(t) |-> t[j]]
    OBVIOUS
  <2>2. a \o b = [j \in 1..n - 1 |-> (a \o b)[j]]
    BY <1>4, <2>1
  <2> QED BY <1>4, <2>2
<1> QED BY <1>1, <1>5 DEF RemoveAt, Without, a, b

\* What a removal does to the list.
LEMMA Removal ==
    ASSUME NEW S, NEW q \in Seq(S), NEW e,
           \A i, j \in 1..Len(q) : q[i] = q[j] => i = j
    PROVE  IF e \in ToSet(q)
           THEN \E i \in 1..Len(q) : q[i] = e /\ RemoveFirst(q, e) = Without(q, i)
           ELSE RemoveFirst(q, e) = q
<1>1. ToSet(q) = {q[i] : i \in 1..Len(q)}
  BY DEF ToSet
<1>2. CASE e \notin ToSet(q)
  <2>1. ~\E i \in 1..Len(q) : q[i] = e
    BY <1>1, <1>2
  <2> QED BY <1>2, <2>1 DEF RemoveFirst
<1>3. ASSUME NEW i \in 1..Len(q), q[i] = e
      PROVE  RemoveFirst(q, e) = Without(q, i)
  <2>1. {k \in 1..Len(q) : q[k] = e} = {i}
    BY <1>3
  <2>2. (CHOOSE x \in {i} : \A y \in {i} : x <= y) = i
    OBVIOUS
  <2>3. SelectInSeq(q, LAMBDA v : v = e) = i
    BY <2>1, <2>2 DEF SelectInSeq, Min
  <2> QED BY <1>3, <2>3, RemoveAtWithout DEF RemoveFirst
<1> QED BY <1>1, <1>2, <1>3

\* What such a list is.
LEMMA WithoutFacts ==
    ASSUME NEW S, NEW q \in Seq(S), NEW i \in 1..Len(q)
    PROVE  /\ Without(q, i) \in Seq(S)
           /\ Len(Without(q, i)) = Len(q) - 1
           /\ \A j \in 1..Len(q) - 1 :
                Without(q, i)[j] = IF j < i THEN q[j] ELSE q[j + 1]
<1>1. PICK n \in Nat : n = Len(q)
  OBVIOUS
<1>2. Without(q, i) \in [1..n - 1 -> S]
  BY <1>1 DEF Without
<1>3. n - 1 \in Nat
  BY <1>1
<1> QED BY <1>1, <1>2, <1>3 DEF Without

\* The next node of a loop.
LEMMA NextNode ==
    ASSUME nodes \in Seq(Node), NEW w \in Walk, ~Over(w)
    PROVE  /\ ListOf(w) \in Seq(Node)
           /\ w.i \in 1..Len(ListOf(w))
           /\ NodeOf(w) = ListOf(w)[w.i] /\ NodeOf(w) \in Node
<1>1. ListOf(w) \in Seq(Node) /\ w.i \in Nat \ {0}
  BY DEF Walk, ListOf
<1>2. w.i <= Len(ListOf(w))
  BY <1>1 DEF Over
<1> QED BY <1>1, <1>2 DEF NodeOf

-----------------------------------------------------------------------------
(* The beginning. *)

LEMMA InitOK == Init => IInv
<1> SUFFICES ASSUME Init PROVE IInv
  OBVIOUS
<1>1. TypeOK
  <2>1. nodes \in Seq(Node)
    BY DEF Init
  <2>2. state \in State /\ crossed \in BOOLEAN
    BY Zenon DEF Init, State
  <2>3. /\ versions \subseteq Version /\ current \in Version
        /\ created \subseteq Node /\ up \subseteq created /\ begun \subseteq Node
    BY VersionAssumption DEF Init
  <2>4. /\ thread \in [Thread -> Worker \cup {None}]
        /\ code \in [Node -> Version \cup {None}]
        /\ running \in [Node -> SUBSET Command]
        /\ intr \in [Node -> 0..MaxIntr]
        /\ request = None
    BY CountAssumption DEF Init
  <2> QED BY <2>1, <2>2, <2>3, <2>4 DEF TypeOK
<1>2. Control
  BY <1>1 DEF Init, Control, RequestOK, Threads, Lock, Holds
<1>3. Distinct /\ Known
  BY VersionAssumption DEF Init, Distinct, Known, ToSet
<1>4. FirstStays /\ InOrder
  BY DEF Init, FirstStays, Alive, Sending, InOrder, Shrinking, Coherent, Holds
<1>5. Agents
  BY DEF Init, Agents, OneAtATime, Busy, Started
<1> QED BY <1>2, <1>3, <1>4, <1>5 DEF IInv, List

-----------------------------------------------------------------------------
(* Steps of the agents, and of the request that is being served. *)

\* What the manager knows does not depend on the scripts.
LEMMA AgentsAside ==
    ASSUME Control, List, TypeOK',
           UNCHANGED <<manager, request, thread, code, crossed>>
    PROVE  Control' /\ List'
<1> USE DEF manager
<1>1. UNCHANGED <<RequestOK, Threads, Lock>>
  BY DEF RequestOK, Threads, WorkerOK, Lock, Holds
<1>2. UNCHANGED <<Distinct, FirstStays, Known>>
  BY DEF Distinct, FirstStays, Alive, Sending, Shrinking, Known, Holds, Activating
<1>3. UNCHANGED Uniform
  BY DEF Uniform, Due, Sending, ListOf
<1>4. UNCHANGED InOrder
  BY <1>3 DEF InOrder, Shrinking, Sending, AtEnd, Coherent, Holds
<1> QED BY <1>1, <1>2, <1>4 DEF Control, List

\* The count of interruptions of an agent stays within its bounds.
LEMMA CountInterrupts ==
    ASSUME intr \in [Node -> 0..MaxIntr], NEW n \in Node,
           \/ intr[n] < MaxIntr /\ intr' = [intr EXCEPT ![n] = @ + 1]
           \/ intr[n] > 0 /\ intr' = [intr EXCEPT ![n] = @ - 1]
           \/ intr' = [intr EXCEPT ![n] = 0]
           \/ intr' = intr
    PROVE  intr' \in [Node -> 0..MaxIntr]
<1>1. MaxIntr \in Nat /\ intr[n] \in 0..MaxIntr
  BY CountAssumption
<1>2. intr[n] < MaxIntr => intr[n] + 1 \in 0..MaxIntr
  BY <1>1
<1>3. intr[n] > 0 => intr[n] - 1 \in 0..MaxIntr
  BY <1>1
<1>4. 0 \in 0..MaxIntr
  BY <1>1
<1> QED BY <1>2, <1>3, <1>4

LEMMA DoInterruptStep ==
    ASSUME IInv, NEW n \in Node, DoInterrupt(n)
    PROVE  IInv'
<1>1. /\ UNCHANGED <<manager, request, thread, code, crossed>>
      /\ \/ /\ intr[n] > 0 /\ ExecuteScript(n, "interrupt")
            /\ intr' = [intr EXCEPT ![n] = @ - 1]
         \/ /\ \E S \in SUBSET (running[n] \ {"interrupt"}) :
                 running' = [running EXCEPT ![n] = S]
            /\ UNCHANGED <<begun, intr>>
  BY DEF DoInterrupt
<1>2. /\ begun' = begun
      /\ \/ running' = running
         \/ /\ code[n] # None
            /\ running' = [running EXCEPT ![n] = @ \cup {"interrupt"}]
         \/ \E S \in SUBSET running[n] : running' = [running EXCEPT ![n] = S]
  BY <1>1 DEF ExecuteScript
<1>3. TypeOK
  BY DEF IInv, Control
<1>4. TypeOK'
  <2>1. running \in [Node -> SUBSET Command] /\ intr \in [Node -> 0..MaxIntr]
    BY <1>3 DEF TypeOK
  <2>2. running' \in [Node -> SUBSET Command]
    BY <1>2, <2>1 DEF Command
  <2>3. intr' \in [Node -> 0..MaxIntr]
    BY <1>1, <2>1, CountInterrupts
  <2> QED BY <1>1, <1>2, <1>3, <2>2, <2>3 DEF TypeOK, manager
<1>5. Control' /\ List'
  BY <1>1, <1>4, AgentsAside DEF IInv
<1>6. ASSUME NEW m \in Node
      PROVE  /\ running'[m] \subseteq running[m] \cup {"interrupt"}
             /\ (running'[m] \subseteq running[m]) \/ code[m] # None
  BY <1>2, <1>3 DEF TypeOK
<1>7. OneAtATime'
  <2>1. thread' = thread /\ code' = code /\ begun' = begun
    BY <1>1, <1>2
  <2>2. OneAtATime
    BY DEF IInv, Agents
  <2>3. \A m \in Node : code[m] = None => running'[m] = {}
    BY <1>6, <2>2 DEF OneAtATime
  <2>4. \A u \in Thread, m \in Node : Busy(u, m)' <=> Busy(u, m)
    BY <2>1 DEF Busy
  <2>5. \A m \in Node : running[m] \subseteq {"interrupt"}
                        => running'[m] \subseteq {"interrupt"}
    BY <1>6
  <2> QED BY <2>1, <2>2, <2>3, <2>4, <2>5 DEF OneAtATime
<1>8. Started'
  <2> SUFFICES ASSUME NEW m \in Node, NEW c \in running'[m], c # "interrupt"
               PROVE  m \in begun' /\ running'[m] \subseteq {c, "interrupt"}
    BY DEF Started
  <2>1. c \in running[m] /\ running'[m] \subseteq running[m] \cup {"interrupt"}
    BY <1>6
  <2>2. Started /\ begun' = begun
    BY <1>2 DEF IInv, Agents
  <2>3. m \in begun /\ running[m] \subseteq {c, "interrupt"}
    BY <2>1, <2>2 DEF Started
  <2> QED BY <2>1, <2>2, <2>3
<1> QED BY <1>5, <1>7, <1>8 DEF IInv, Agents

LEMMA ScriptEndsStep ==
    ASSUME IInv, NEW n \in Node, NEW c \in Command, ScriptEnds(n, c)
    PROVE  IInv'
<1>1. /\ UNCHANGED <<manager, request, thread, code, begun, intr, crossed>>
      /\ running' = [running EXCEPT ![n] = @ \ {c}]
  BY DEF ScriptEnds
<1>2. TypeOK
  BY DEF IInv, Control
<1>3. TypeOK'
  BY <1>1, <1>2 DEF TypeOK, manager
<1>4. Control' /\ List'
  BY <1>1, <1>3, AgentsAside DEF IInv
<1>5. \A m \in Node : running'[m] \subseteq running[m]
  BY <1>1, <1>2 DEF TypeOK
<1>6. Agents'
  BY <1>1, <1>5 DEF IInv, Agents, OneAtATime, Busy, Started
<1> QED BY <1>4, <1>6 DEF IInv

\* Probe, Refuse and RequestScript change nothing but the request.
LEMMA RequestOnly ==
    ASSUME IInv, UNCHANGED <<manager, thread, agent, crossed>>,
           \/ request' = None
           \/ /\ request # None
              /\ request' = [request EXCEPT !.walk.i = @ + 1]
           \/ /\ state = "RUNNING"
              /\ \E v \in Version :
                   request' = [op |-> "enable", arg |-> v, walk |-> Walking(None)]
           \/ /\ state = "RUNNING"
              /\ \E c \in {"run", "interrupt"} :
                   request' = [op |-> "script", arg |-> c, walk |-> Walking(None)]
    PROVE  IInv'
<1> USE DEF manager, agent
<1>1. TypeOK /\ RequestOK
  BY DEF IInv, Control
<1> DEFINE Request == [op : {"enable", "script"}, arg : Version \cup Command,
                       walk : Walk]
<1>2. Walking(None) \in Walk
  BY DEF Walking, Walk
<1>3. /\ request' \in Request \cup {None}
      /\ request' # None =>
           /\ state = "RUNNING"
           /\ request'.op = "script" => request'.arg \in {"run", "interrupt"}
           /\ request'.op = "enable" => request'.arg \in Version
  <2>1. CASE request' = None
    BY <2>1
  <2>2. CASE request # None /\ request' = [request EXCEPT !.walk.i = @ + 1]
    <3>1. request \in Request
      BY <1>1, <2>2 DEF TypeOK
    <3>2. request.walk \in Walk
      BY <3>1
    <3>3. [request.walk EXCEPT !.i = @ + 1] \in Walk
      BY <3>2 DEF Walk
    <3>4. /\ request' \in Request
          /\ request'.op = request.op /\ request'.arg = request.arg
      BY <2>2, <3>1, <3>3
    <3> QED BY <1>1, <2>2, <3>4 DEF RequestOK
  <2>3. ASSUME NEW v \in Version,
               request' = [op |-> "enable", arg |-> v, walk |-> Walking(None)]
        PROVE  request' \in Request /\ request'.op = "enable" /\ request'.arg = v
    BY <1>2, <2>3
  <2>4. ASSUME NEW c \in {"run", "interrupt"},
               request' = [op |-> "script", arg |-> c, walk |-> Walking(None)]
        PROVE  request' \in Request /\ request'.op = "script" /\ request'.arg = c
    BY <1>2, <2>4 DEF Command
  <2> QED BY <2>1, <2>2, <2>3, <2>4
<1>4. TypeOK'
  BY <1>1, <1>3 DEF TypeOK
<1>5. RequestOK'
  BY <1>3 DEF RequestOK
<1>6. UNCHANGED <<Threads, Lock>>
  BY DEF Threads, WorkerOK, Lock, Holds
<1>7. UNCHANGED <<Distinct, FirstStays, Known>>
  BY DEF Distinct, FirstStays, Alive, Sending, Shrinking, Known, Holds, Activating
<1>8. UNCHANGED Uniform
  BY DEF Uniform, Due, Sending, ListOf
<1>9. UNCHANGED InOrder
  BY <1>8 DEF InOrder, Shrinking, Sending, AtEnd, Coherent, Holds
<1>10. UNCHANGED Agents
  BY DEF Agents, OneAtATime, Busy, Started
<1> QED BY <1>4, <1>5, <1>6, <1>7, <1>9, <1>10 DEF IInv, Control, List

-----------------------------------------------------------------------------
(* The requests. *)

\* The agents are as they were, and so are the workers that are in calls to them.
LEMMA AgentsKept ==
    ASSUME Agents, UNCHANGED agent,
           \A u \in Thread, n \in Node : Busy(u, n)' <=> Busy(u, n)
    PROVE  Agents'
<1>1. UNCHANGED Started
  BY DEF Started, agent
<1>2. OneAtATime'
  BY DEF Agents, OneAtATime, agent
<1> QED BY <1>1, <1>2 DEF Agents

\* A worker that sets the state takes the service over when nobody has it.
LEMMA NobodyHolds ==
    ASSUME Lock, state \in {"INIT", "STOPPED", "RUNNING"}
    PROVE  /\ \A u \in Thread : ~Holds(u)
           /\ \A u \in Thread : Threads => ~Sending(u)
<1>1. \A u \in Thread : ~Holds(u)
  BY DEF Lock
<1>2. ASSUME NEW u \in Thread, Threads, Sending(u) PROVE FALSE
  BY <1>1, <1>2 DEF Threads, WorkerOK, Places, Sending, Holds
<1> QED BY <1>1, <1>2

\* Who sends code has the service.
LEMMA SenderHolds ==
    ASSUME Threads, NEW t \in Thread, Sending(t)
    PROVE  Holds(t) /\ thread[t].op \in {"start", "add", "enable"}
BY DEF Threads, WorkerOK, Places, Sending, Holds

\* A version is uploaded, deleted, or recorded as the one to start with.
LEMMA VersionStep ==
    ASSUME IInv, versions' \subseteq Version, current' \in versions' \cap Version,
           UNCHANGED <<state, nodes, created, up, request, thread, agent, crossed>>,
           current' = current \/ state \in {"INIT", "STOPPED"}
    PROVE  IInv'
<1>1. Control'
  BY DEF IInv, Control, TypeOK, agent, RequestOK, Threads, WorkerOK, Lock, Holds
<1>2. Distinct' /\ FirstStays' /\ Known'
  BY DEF IInv, List, Distinct, FirstStays, Alive, Sending, Shrinking, Known
<1>3. InOrder'
  <2>1. CASE current' = current
    BY <2>1 DEF IInv, List, InOrder, Shrinking, Sending, AtEnd, Coherent, Holds,
                Uniform, Due, ListOf, agent
  <2>2. CASE state \in {"INIT", "STOPPED"}
    <3>1. ~Coherent'
      BY <2>2, NobodyHolds DEF IInv, Control, Coherent, Holds
    <3> QED BY <3>1 DEF IInv, List, InOrder, Shrinking, Sending, AtEnd
  <2> QED BY <2>1, <2>2
<1>4. Agents'
  BY AgentsKept DEF IInv, Busy
<1> QED BY <1>1, <1>2, <1>3, <1>4 DEF IInv, List

\* A version is uploaded or deleted, but not the active one.
LEMMA ArchiveStep ==
    ASSUME IInv, versions' \subseteq Version,
           current \in versions => current \in versions',
           UNCHANGED <<state, current, nodes, created, up, request, thread, agent,
                       crossed>>
    PROVE  IInv'
<1>1. Control'
  BY DEF IInv, Control, TypeOK, agent, RequestOK, Threads, WorkerOK, Lock, Holds
<1>2. Distinct' /\ FirstStays' /\ Known'
  BY DEF IInv, List, Distinct, FirstStays, Alive, Sending, Shrinking, Known,
         Holds, Activating
<1>3. InOrder'
  BY DEF IInv, List, InOrder, Shrinking, Sending, AtEnd, Coherent, Holds,
         Uniform, Due, ListOf, agent
<1>4. Agents'
  BY AgentsKept DEF IInv, Busy
<1> QED BY <1>1, <1>2, <1>3, <1>4 DEF IInv, List

LEMMA EnableCodeStep ==
    ASSUME IInv, NEW v \in Version, enable_code(v)
    PROVE  IInv'
<1>1. CASE state = "RUNNING"
  BY <1>1, RequestOnly DEF enable_code, manager
<1>2. CASE state \in {"INIT", "STOPPED"}
  <2>1. v \in versions /\ versions \subseteq Version
    BY DEF enable_code, IInv, Control, TypeOK
  <2>2. /\ UNCHANGED <<state, versions, nodes, created, up, request, thread, agent,
                       crossed>>
        /\ current' = v
    BY <1>2 DEF enable_code
  <2> QED BY <1>2, <2>1, <2>2, VersionStep
<1> QED BY <1>1, <1>2 DEF enable_code

\* A worker is started.
LEMMA NewWorker ==
    ASSUME IInv, NEW t \in Thread, NEW w \in Worker, WorkerOK(w),
           thread[t] = None, thread' = [thread EXCEPT ![t] = w],
           w.pc = "begin" \/ w.op = "script",
           UNCHANGED <<versions, current, nodes, created, up, agent, crossed>>,
           request' = None,
           \/ w.op = "script" /\ state' = state
           \/ /\ w.op = "start" /\ state \in {"INIT", "STOPPED"}
              /\ state' = "PROLOGUE"
           \/ /\ w.op \notin {"start", "script"} /\ state = "RUNNING"
              /\ state' = "ADAPTING"
    PROVE  IInv'
<1>1. /\ thread'[t] = w /\ \A u \in Thread \ {t} : thread'[u] = thread[u]
      /\ w # None /\ w.at = None /\ w.pc \in {"begin", "call"}
      /\ w.pc = "begin" \/ w.op = "script"
  BY NoneAssumption DEF IInv, Control, TypeOK, WorkerOK, Places
<1>2. TypeOK'
  BY DEF IInv, Control, TypeOK, agent, State
<1>3. RequestOK' /\ Threads'
  BY <1>1 DEF RequestOK, IInv, Control, Threads, WorkerOK
<1>4. \A u \in Thread \ {t} : /\ Holds(u)' <=> Holds(u)
                              /\ Sending(u)' <=> Sending(u)
                              /\ Shrinking(u)' <=> Shrinking(u)
  BY <1>1 DEF Holds, Sending, Shrinking
<1>5. /\ ~Sending(t) /\ ~Shrinking(t) /\ ~Holds(t)
      /\ ~Sending(t)' /\ ~Shrinking(t)' /\ (Holds(t)' <=> w.op # "script")
  BY <1>1 DEF Holds, Sending, Shrinking
<1>6. w.op # "script" => \A u \in Thread : ~Holds(u)
  BY NobodyHolds DEF IInv, Control
<1>7. Lock'
  <2>1. CASE w.op = "script"
    BY <2>1, <1>1, <1>4, <1>5 DEF Lock, IInv, Control
  <2>2. CASE w.op # "script"
    BY <2>2, <1>1, <1>4, <1>5, <1>6 DEF Lock
  <2> QED BY <2>1, <2>2
<1>8. Distinct'
  BY DEF IInv, List, Distinct
<1>9. FirstStays'
  <2>1. w.op # "script" => \A u \in Thread : ~Sending(u)
    BY <1>6, SenderHolds DEF IInv, Control
  <2>2. Alive' => Alive
    BY <2>1, <1>4, <1>5 DEF Alive
  <2> QED BY <2>2, <1>1, <1>4, <1>5 DEF FirstStays, IInv, List
<1>10. Known'
  <2>1. CASE w.op = "script"
    BY <2>1, <1>1, <1>4, <1>5 DEF Known, IInv, List, Activating
  <2>2. CASE w.op # "script"
    BY <2>2, <1>1 DEF Known, IInv, List
  <2> QED BY <2>1, <2>2
<1>11. InOrder'
  <2>1. \A u \in Thread, n \in Node : Due(u, n)' <=> Due(u, n)
    BY <1>1, <1>4, <1>5 DEF Due, ListOf
  <2>0. nodes \in Seq(Node)
    BY DEF IInv, Control, TypeOK
  <2>2. UNCHANGED Uniform
    BY <2>0, <2>1, <1>1 DEF Uniform, agent, ToSet
  <2>3. Coherent' => Coherent
    BY <1>1, <1>4, <1>5, <1>6 DEF Coherent
  <2> QED BY <2>2, <2>3, <1>1, <1>4, <1>5 DEF InOrder, AtEnd, IInv, List
<1>12. Agents'
  <2>1. \A u \in Thread, n \in Node : Busy(u, n)' <=> Busy(u, n)
    BY <1>1, NoneAssumption DEF Busy
  <2> QED BY <2>1, AgentsKept DEF IInv
<1> QED BY <1>2, <1>3, <1>7, <1>8, <1>9, <1>10, <1>11, <1>12 DEF IInv, Control, List

LEMMA BeginStep ==
    ASSUME IInv, NEW t \in Thread, NEW op \in {"start", "add", "remove"},
           NEW k \in 1..MaxCount, Begin(t, op, k),
           UNCHANGED <<versions, current, nodes, created, up, request, agent, crossed>>,
           IF op = "start" THEN state \in {"INIT", "STOPPED"} /\ state' = "PROLOGUE"
           ELSE state = "RUNNING" /\ state' = "ADAPTING"
    PROVE  IInv'
<1> DEFINE w == [op |-> op, pc |-> "begin", count |-> k, arg |-> None,
                 walk |-> Walking(None), at |-> None, later |-> <<>>]
<1>1. Walking(None) \in Walk
  BY DEF Walking, Walk
<1>2. k \in 0..MaxCount /\ k >= 1
  BY CountAssumption
<1>3. w \in Worker
  BY <1>1, <1>2 DEF Worker, Op, Pc
<1>4. WorkerOK(w)
  BY <1>2 DEF WorkerOK, Places
<1>5. thread[t] = None /\ thread' = [thread EXCEPT ![t] = w] /\ request' = None
  BY DEF Begin
<1>6. w.op = op /\ w.pc = "begin"
  OBVIOUS
<1> HIDE DEF w
<1> QED BY <1>3, <1>4, <1>5, <1>6, NewWorker

LEMMA CommitStep ==
    ASSUME IInv, NEW t \in Thread, Commit(t)
    PROVE  IInv'
<1> DEFINE w == [op |-> request.op, count |-> 0, arg |-> request.arg,
                 walk |-> Walking(None),
                 pc |-> IF request.op = "enable" THEN "begin" ELSE "call",
                 at |-> None, later |-> <<>>]
<1>1. /\ request # None /\ thread[t] = None /\ request' = None
      /\ thread' = [thread EXCEPT ![t] = w]
      /\ state' = EnableState(request.op)
      /\ UNCHANGED <<versions, current, nodes, created, up, agent, crossed>>
  BY DEF Commit
<1>2. /\ request.op \in {"enable", "script"}
      /\ request.arg \in Version \cup Command
      /\ state = "RUNNING"
      /\ request.op = "script" => request.arg \in {"run", "interrupt"}
      /\ request.op = "enable" => request.arg \in Version
  BY <1>1 DEF IInv, Control, TypeOK, RequestOK
<1>3. Walking(None) \in Walk
  BY DEF Walking, Walk
<1>4. w \in Worker
  BY <1>2, <1>3, CountAssumption DEF Worker, Op, Pc
<1>5. WorkerOK(w)
  BY <1>2 DEF WorkerOK, Places
<1>6. /\ w.op = request.op
      /\ w.pc = IF request.op = "enable" THEN "begin" ELSE "call"
  OBVIOUS
<1>7. state' = IF request.op = "enable" THEN "ADAPTING" ELSE state
  BY <1>1 DEF EnableState
<1> HIDE DEF w
<1> QED BY <1>1, <1>2, <1>4, <1>5, <1>6, <1>7, NewWorker

LEMMA HandleStep ==
    ASSUME IInv, Handle
    PROVE  IInv'
<1>1. ASSUME NEW c \in {"run", "interrupt"}, RequestScript(c) PROVE IInv'
  BY <1>1, RequestOnly DEF RequestScript
<1>2. ASSUME NEW t \in Thread, start_service(t) PROVE IInv'
  <2>1. 1 \in 1..MaxCount
    BY CountAssumption
  <2> QED BY <1>2, <2>1, BeginStep DEF start_service
<1>3. ASSUME NEW t \in Thread, NEW k \in 1..MaxCount, add_nodes(t, k) PROVE IInv'
  BY <1>3, BeginStep DEF add_nodes
<1>4. ASSUME NEW t \in Thread, NEW k \in 1..MaxCount, remove_nodes(t, k) PROVE IInv'
  BY <1>4, BeginStep DEF remove_nodes
<1>5. CASE Probe \/ Refuse
  BY <1>5, RequestOnly DEF Probe, Refuse
<1>6. ASSUME NEW v \in Version, upload_code_version(v) \/ delete_code_version(v)
      PROVE  IInv'
  <2>1. versions \subseteq Version
    BY DEF IInv, Control, TypeOK
  <2> QED BY <1>6, <2>1, ArchiveStep DEF upload_code_version, delete_code_version
<1> QED BY <1>1, <1>2, <1>3, <1>4, <1>5, <1>6, EnableCodeStep, CommitStep
     DEF Handle

-----------------------------------------------------------------------------
(* Steps of a worker that leave the list and the agents alone. *)

\* Worker t ends, or goes on; what the others are and do is not touched.
Goes(t) ==
    /\ thread \in [Thread -> Worker \cup {None}] /\ thread[t] # None
    /\ thread' \in [Thread -> Worker \cup {None}]
    /\ \A u \in Thread \ {t} : thread'[u] = thread[u]

LEMMA OthersAs ==
    ASSUME NEW t \in Thread, Goes(t), NEW u \in Thread \ {t}
    PROVE  /\ Holds(u)' <=> Holds(u)
           /\ Sending(u)' <=> Sending(u)
           /\ Shrinking(u)' <=> Shrinking(u)
           /\ Activating(u)' <=> Activating(u)
           /\ \A n : Busy(u, n)' <=> Busy(u, n)
BY DEF Goes, Holds, Sending, Shrinking, Activating, Busy

\* While one has the service nobody else has it or sends code, and the state is
\* a transient one.
LEMMA HolderAlone ==
    ASSUME Control, NEW t \in Thread, Holds(t)
    PROVE  /\ \A u \in Thread \ {t} : ~Holds(u) /\ ~Sending(u)
           /\ state = IF thread[t].op = "start" THEN "PROLOGUE" ELSE "ADAPTING"
BY SenderHolds DEF Control, Lock

\* A worker ends: it has done its work, or it fails.
LEMMA EndStep ==
    ASSUME IInv, NEW t \in Thread, Goes(t), thread'[t] = None,
           thread[t].pc # "init",
           UNCHANGED <<versions, current, nodes, created, up, request, agent, crossed>>,
           \/ state' = state /\ state # "RUNNING"
           \/ state' = state /\ ~Holds(t)
           \/ state' = "ERROR" /\ Holds(t) /\ thread[t].op = "start"
           \/ /\ state' = "RUNNING" /\ Holds(t) 
              /\ thread[t].op = "start" => Sending(t)
              /\ Sending(t) => Over(thread[t].walk)
    PROVE  IInv'
<1>1. Control /\ List /\ Agents /\ TypeOK /\ Threads /\ WorkerOK(thread[t])
  BY DEF IInv, Control, Threads, Goes
<1>2. ~Holds(t)' /\ ~Sending(t)' /\ ~Shrinking(t)' /\ \A n : ~Busy(t, n)'
  BY DEF Holds, Sending, Shrinking, Busy
<1>3. \A n \in Node : ~Busy(t, n)
  BY <1>1, NoneAssumption DEF WorkerOK, Busy
<1>4. TypeOK'
  BY <1>1 DEF TypeOK, Goes, agent, State
<1>5. Holds(t) => /\ \A u \in Thread \ {t} : ~Holds(u) /\ ~Sending(u)
                  /\ state = IF thread[t].op = "start" THEN "PROLOGUE" ELSE "ADAPTING"
  BY <1>1, HolderAlone
<1>6. RequestOK'
  BY <1>1, <1>5 DEF Control, RequestOK
<1>7. Threads'
  BY <1>1 DEF Goes, Threads, WorkerOK
<1>8. Lock'
  <2>1. ASSUME NEW u \in Thread, Holds(u)' 
        PROVE  /\ state' = IF thread'[u].op = "start" THEN "PROLOGUE" ELSE "ADAPTING"
               /\ \A v \in Thread : Holds(v)' => v = u
    <3>1. u # t /\ Holds(u) /\ thread'[u] = thread[u]
      BY <2>1, <1>2, OthersAs DEF Goes
    <3>2. ~Holds(t) /\ state' = state
      BY <3>1, <1>5
    <3>3. \A v \in Thread : Holds(v)' => Holds(v)
      BY <1>2, OthersAs
    <3> QED BY <3>1, <3>2, <3>3, <1>1 DEF Control, Lock
  <2> QED BY <2>1 DEF Lock
<1>9. Distinct'
  BY <1>1 DEF List, Distinct
<1>10. Alive' => Alive
  BY <1>2, <1>5, OthersAs DEF Alive
<1>11. FirstStays'
  BY <1>1, <1>2, <1>10, OthersAs DEF FirstStays, List, Goes
<1>12. Known'
  <2>1. CASE state' = "RUNNING" /\ Holds(t)
    <3>1. ~Activating(t)
      <4>1. ASSUME Activating(t) PROVE FALSE
        <5>1. Sending(t) /\ thread[t].walk.over = None /\ thread[t].walk.i = 1
          BY <1>1, <4>1 DEF Activating, Sending, Goes, WorkerOK
        <5>2. Len(nodes) < 1
          BY <1>1, <2>1, <1>5, <5>1 DEF Over, ListOf, TypeOK
        <5>3. nodes # <<>>
          BY <1>1, <5>1 DEF List, FirstStays, Alive
        <5> QED BY <1>1, <5>2, <5>3 DEF TypeOK
      <4> QED BY <4>1
    <3> QED BY <1>1, <2>1, <3>1 DEF List, Known
  <2>2. CASE state' = "ERROR" /\ Holds(t) /\ thread[t].op = "start"
    BY <1>1, <2>2 DEF List, Known, Activating
  <2>3. CASE state' = state
    BY <1>1, <1>2, <2>3, OthersAs DEF List, Known
  <2> QED BY <2>1, <2>2, <2>3
<1>13. InOrder'
  <2>1. ASSUME ~crossed, Coherent' PROVE Uniform'
    <3>1. \A u \in Thread \ {t} : \A n : Due(u, n)' <=> Due(u, n)
      BY OthersAs DEF Due, ListOf, Goes
    <3>2. Coherent
      BY <2>1, <1>2, <1>5, OthersAs DEF Coherent, Goes
    <3>3. ~\E n : Due(t, n)
      <4>1. CASE Sending(t)
        <5>1. state' = "RUNNING" /\ Over(thread[t].walk)
          <6>1. Holds(t)
            BY <1>1, <4>1, SenderHolds
          <6> QED BY <2>1, <4>1, <6>1, <1>2, <1>5, OthersAs DEF Coherent
        <5>2. thread[t].walk \in Walk
          BY DEF Goes, Worker
        <5>3. Len(ListOf(thread[t].walk)) \in Nat /\ thread[t].walk.i \in Nat
          BY <1>1, <5>2 DEF TypeOK, Walk, ListOf
        <5> QED BY <5>1, <5>3 DEF Due, Over
      <4> QED BY <4>1 DEF Due
    <3> QED BY <1>1, <2>1, <3>1, <3>2, <3>3 DEF List, InOrder, Uniform, agent
  <2>2. ~crossed => 
          /\ \A u \in Thread : Shrinking(u)' => AtEnd(thread[u].later)' /\ thread'[u] = thread[u]
          /\ \A u \in Thread : Sending(u)' /\ thread'[u].op # "enable" =>
               \A v \in Thread : ~Shrinking(v)'
    BY <1>1, <1>2, OthersAs DEF List, InOrder, Goes, AtEnd
  <2> QED BY <2>1, <2>2 DEF InOrder
<1>14. Agents'
  BY <1>1, <1>2, <1>3, OthersAs, AgentsKept
<1> QED BY <1>4, <1>6, <1>7, <1>8, <1>9, <1>11, <1>12, <1>13, <1>14
     DEF IInv, Control, List

\* A worker goes on, and may leave the service to itself.
LEMMA ControlStep ==
    ASSUME Control, NEW t \in Thread, Goes(t), TypeOK', thread'[t] # None,
           WorkerOK(thread[t])', thread'[t].op = thread[t].op,
           request' = request, created \subseteq created',
           Holds(t)' => Holds(t) /\ state' = state,
           state' # state => Holds(t) /\ ~Holds(t)'
    PROVE  Control'
<1>1. RequestOK'
  BY HolderAlone DEF Control, RequestOK
<1>2. Threads'
  BY DEF Control, Threads, Goes, WorkerOK
<1>3. ASSUME NEW u \in Thread, Holds(u)'
      PROVE  /\ state' = IF thread'[u].op = "start" THEN "PROLOGUE" ELSE "ADAPTING"
             /\ \A v \in Thread : Holds(v)' => v = u
  <2>1. \A v \in Thread : Holds(v)' => Holds(v)
    BY OthersAs
  <2>2. Holds(u) /\ \A v \in Thread : Holds(v) => v = u
    BY <1>3, <2>1 DEF Control, Lock
  <2>3. state' = state
    BY <1>3, <2>2
  <2>4. thread'[u].op = thread[u].op
    BY DEF Goes
  <2> QED BY <2>1, <2>2, <2>3, <2>4 DEF Control, Lock
<1> QED BY <1>1, <1>2, <1>3 DEF Control, Lock

\* What a worker is.
LEMMA WorkerFacts ==
    ASSUME IInv, NEW t \in Thread, thread[t] # None
    PROVE  /\ Control /\ List /\ Agents /\ TypeOK /\ Threads
           /\ thread \in [Thread -> Worker \cup {None}]
           /\ nodes \in Seq(Node) /\ created \subseteq Node
           /\ thread[t] \in Worker /\ thread[t].walk \in Walk
           /\ thread[t].later \in Seq(Node) /\ thread[t].count \in Nat
           /\ WorkerOK(thread[t])
<1>1. /\ Control /\ List /\ Agents /\ TypeOK /\ Threads
      /\ thread \in [Thread -> Worker \cup {None}] /\ thread[t] \in Worker
      /\ nodes \in Seq(Node) /\ created \subseteq Node
  BY DEF IInv, Control, TypeOK
<1>2. /\ thread[t].walk \in Walk /\ thread[t].later \in Seq(Node)
      /\ thread[t].count \in 0..MaxCount
  BY <1>1 DEF Worker
<1> QED BY <1>1, <1>2, CountAssumption DEF Threads

LEMMA ActivateStep ==
    ASSUME IInv, NEW t \in Thread, Activate(t)
    PROVE  IInv'
<1> DEFINE w == [thread[t] EXCEPT !.pc = "update", !.walk = Walking(None)]
<1>1. /\ thread[t] # None /\ thread[t].op = "enable" /\ thread[t].pc = "begin"
      /\ thread' = [thread EXCEPT ![t] = w]
      /\ current' = thread[t].arg
      /\ UNCHANGED <<state, versions, nodes, created, up, request, agent, crossed>>
  BY DEF Activate, At
<1>2. /\ Control /\ List /\ Agents /\ TypeOK
      /\ thread \in [Thread -> Worker \cup {None}]
      /\ nodes \in Seq(Node)
      /\ thread[t] \in Worker /\ WorkerOK(thread[t])
  BY <1>1, WorkerFacts
<1>3. /\ w \in Worker
      /\ w.op = "enable" /\ w.pc = "update" /\ w.arg = thread[t].arg
      /\ w.at = thread[t].at
      /\ w.walk.over = None /\ w.walk.i = 1
  <2>1. /\ Walking(None) \in Walk /\ "update" \in Pc
        /\ Walking(None).over = None /\ Walking(None).i = 1
    BY DEF Walking, Walk, Pc
  <2>2. /\ w.op = thread[t].op /\ w.arg = thread[t].arg /\ w.at = thread[t].at
        /\ w \in Worker /\ w.pc = "update" /\ w.walk = Walking(None)
    BY <1>2, <2>1 DEF Worker
  <2> HIDE DEF w
  <2> QED BY <1>1, <2>1, <2>2
<1> HIDE DEF w
<1>4. Goes(t) /\ thread'[t] = w /\ w # None
  BY <1>1, <1>2, <1>3, NoneAssumption DEF Goes
<1>5. /\ Holds(t) /\ Holds(t)' /\ Sending(t)' /\ ~Shrinking(t) /\ ~Shrinking(t)'
  BY <1>1, <1>3, <1>4 DEF Holds, Sending, Shrinking
<1>6. TypeOK'
  BY <1>1, <1>2, <1>4 DEF TypeOK, Goes, agent, WorkerOK
<1>7. WorkerOK(thread[t])'
  BY <1>1, <1>2, <1>3, <1>4 DEF WorkerOK, Places
<1>8. Control'
  BY <1>1, <1>2, <1>3, <1>4, <1>5, <1>6, <1>7, ControlStep
<1>9. state = "ADAPTING"
  BY <1>1, <1>2, <1>5, HolderAlone
<1>10. Distinct'
  BY <1>1, <1>2 DEF List, Distinct
<1>11. FirstStays'
  BY <1>1, <1>2, <1>4, <1>5, <1>9, OthersAs DEF List, FirstStays, Alive, Goes
<1>12. Known'
  <2>1. \A u \in Thread : Holds(u)' => u = t
    BY <1>2, <1>4, <1>5, OthersAs, HolderAlone
  <2>2. Activating(t)'
    BY <1>3, <1>4 DEF Activating
  <2> QED BY <1>1, <1>9, <2>1, <2>2 DEF Known
<1>13. Uniform'
  <2>1. ASSUME NEW n \in ToSet(nodes) PROVE Due(t, n)'
    <3>1. PICK j \in 1..Len(nodes) : nodes[j] = n
      BY <2>1, <1>2 DEF ToSet
    <3>2. /\ thread'[t].walk.i = 1
          /\ ListOf(thread[t].walk)' = nodes
      BY <1>1, <1>3, <1>4 DEF ListOf
    <3> QED BY <1>5, <3>1, <3>2, <1>1 DEF Due
  <2> QED BY <2>1, <1>1 DEF Uniform
<1>14. InOrder'
  <2>1. \A u \in Thread : Sending(u)' => u = t
    BY <1>2, <1>4, <1>5, OthersAs, HolderAlone
  <2>2. \A u \in Thread : Shrinking(u)' => Shrinking(u) /\ thread'[u] = thread[u]
    BY <1>4, <1>5, OthersAs DEF Goes
  <2> QED BY <1>1, <1>2, <1>3, <1>4, <1>13, <2>1, <2>2 DEF InOrder, List, AtEnd
<1>15. Agents'
  <2>1. \A u \in Thread, n \in Node : Busy(u, n)' <=> Busy(u, n)
    BY <1>1, <1>3, <1>4, OthersAs DEF Busy
  <2> QED BY <1>1, <1>2, <2>1, AgentsKept
<1> QED BY <1>8, <1>10, <1>11, <1>12, <1>14, <1>15 DEF IInv, List

LEMMA UpdatedStep ==
    ASSUME IInv, NEW t \in Thread, Updated(t)
    PROVE  IInv'
<1>1. /\ thread[t] # None /\ thread[t].pc = "update" /\ Over(thread[t].walk)
      /\ thread[t].op \in {"start", "add", "enable"}
      /\ UNCHANGED <<versions, current, nodes, created, up, request, agent, crossed>>
  BY DEF Updated, At
<1>2. /\ Control /\ List /\ Agents /\ TypeOK
      /\ thread \in [Thread -> Worker \cup {None}]
      /\ nodes \in Seq(Node)
      /\ thread[t] \in Worker /\ WorkerOK(thread[t])
      /\ thread[t].walk \in Walk /\ thread[t].later \in Seq(Node)
  BY <1>1, WorkerFacts
<1>3. Holds(t) /\ Sending(t) /\ ~Shrinking(t)
  BY <1>1 DEF Holds, Sending, Shrinking
<1>4. CASE thread[t].op # "add"
  <2>1. thread' = [thread EXCEPT ![t] = None] /\ state' = "RUNNING"
    BY <1>4 DEF Updated
  <2>2. Goes(t) /\ thread'[t] = None
    BY <1>1, <1>2, <2>1 DEF Goes
  <2> QED BY <1>1, <1>3, <2>1, <2>2, EndStep
<1>5. CASE thread[t].op = "add"
  <2> DEFINE w == [thread[t] EXCEPT !.pc = "call", !.later = <<>>,
                                    !.walk = Walking(thread[t].later)]
  <2>1. thread' = [thread EXCEPT ![t] = w] /\ state' = state
    BY <1>5 DEF Updated
  <2>2. /\ w \in Worker
        /\ w.op = "add" /\ w.pc = "call" /\ w.at = thread[t].at
        /\ w.count = thread[t].count
    <3>1. Walking(thread[t].later) \in Walk /\ "call" \in Pc /\ <<>> \in Seq(Node)
      BY <1>2 DEF Walking, Walk, Pc
    <3>2. /\ w.op = thread[t].op /\ w.at = thread[t].at /\ w.count = thread[t].count
          /\ w \in Worker /\ w.pc = "call"
      BY <1>2, <3>1 DEF Worker
    <3> HIDE DEF w
    <3> QED BY <1>5, <3>2
  <2> HIDE DEF w
  <2>3. Goes(t) /\ thread'[t] = w /\ w # None
    BY <1>1, <1>2, <2>1, <2>2, NoneAssumption DEF Goes
  <2>4. Holds(t)' /\ ~Sending(t)' /\ ~Shrinking(t)'
    BY <2>2, <2>3 DEF Holds, Sending, Shrinking
  <2>5. TypeOK'
    BY <1>1, <1>2, <2>1, <2>3 DEF TypeOK, Goes, agent
  <2>6. WorkerOK(thread[t])'
    BY <1>1, <1>2, <1>5, <2>2, <2>3 DEF WorkerOK, Places
  <2>7. Control'
    BY <1>1, <1>2, <1>3, <1>5, <2>1, <2>2, <2>3, <2>4, <2>5, <2>6, ControlStep
  <2>8. /\ state = "ADAPTING"
        /\ \A u \in Thread \ {t} : ~Holds(u) /\ ~Sending(u)
    BY <1>2, <1>3, <1>5, HolderAlone
  <2>9. Distinct'
    BY <1>1, <1>2 DEF List, Distinct
  <2>10. FirstStays'
    BY <1>1, <1>2, <2>1, <2>3, <2>4, <2>8, OthersAs DEF List, FirstStays, Alive, Goes
  <2>11. Known'
    BY <1>1, <1>2, <1>3, <1>5 DEF List, Known, Activating
  <2>12. InOrder'
    <3>1. ASSUME ~crossed PROVE Uniform'
      <4>1. Coherent
        BY <1>3, <1>5 DEF Coherent
      <4>2. ~\E n : Due(t, n)
        <5>1. Len(ListOf(thread[t].walk)) \in Nat /\ thread[t].walk.i \in Nat
          BY <1>2 DEF Walk, ListOf
        <5> QED BY <1>1, <5>1 DEF Due, Over
      <4>3. \A u \in Thread : \A n : ~Due(u, n)
        BY <2>8, <4>2 DEF Due
      <4> QED BY <1>1, <1>2, <3>1, <4>1, <4>3 DEF List, InOrder, Uniform, agent
    <3>2. \A u \in Thread : ~Sending(u)'
      BY <2>3, <2>4, <2>8, OthersAs
    <3>3. \A u \in Thread : Shrinking(u)' => Shrinking(u) /\ thread'[u] = thread[u]
      BY <2>3, <2>4, OthersAs DEF Goes
    <3> QED BY <1>1, <1>2, <3>1, <3>2, <3>3 DEF InOrder, List, AtEnd
  <2>13. Agents'
    <3>1. \A u \in Thread, n \in Node : Busy(u, n)' <=> Busy(u, n)
      BY <1>1, <2>2, <2>3, OthersAs DEF Busy
    <3> QED BY <1>1, <1>2, <3>1, AgentsKept
  <2> QED BY <2>7, <2>9, <2>10, <2>11, <2>12, <2>13 DEF IInv, List
<1> QED BY <1>4, <1>5

LEMMA CalledStep ==
    ASSUME IInv, NEW t \in Thread, Called(t)
    PROVE  IInv'
<1>1. /\ thread[t] # None /\ thread[t].pc = "call"
      /\ thread[t].op \in {"add", "remove", "script"}
      /\ state' = IF thread[t].op = "script" THEN state ELSE "RUNNING"
      /\ UNCHANGED <<versions, current, nodes, created, up, request, agent, crossed>>
  BY DEF Called, At
<1>2. /\ Control /\ List /\ Agents /\ TypeOK
      /\ thread \in [Thread -> Worker \cup {None}]
      /\ nodes \in Seq(Node)
      /\ thread[t] \in Worker /\ WorkerOK(thread[t])
  BY <1>1, WorkerFacts
<1>3. ~Sending(t) /\ (Holds(t) <=> thread[t].op # "script")
  BY <1>1 DEF Holds, Sending
<1>4. CASE thread[t].op # "remove"
  <2>1. thread' = [thread EXCEPT ![t] = None]
    BY <1>4 DEF Called
  <2>2. Goes(t) /\ thread'[t] = None
    BY <1>1, <1>2, <2>1 DEF Goes
  <2> QED BY <1>1, <1>3, <1>4, <2>1, <2>2, EndStep
<1>5. CASE thread[t].op = "remove"
  <2> DEFINE w == [thread[t] EXCEPT !.pc = "drop"]
  <2>1. thread' = [thread EXCEPT ![t] = w] /\ state' = "RUNNING"
    BY <1>1, <1>5 DEF Called
  <2>2. /\ w \in Worker
        /\ w.op = "remove" /\ w.pc = "drop" /\ w.at = thread[t].at
        /\ w.count = thread[t].count /\ w.later = thread[t].later
    BY <1>2, <1>5 DEF Worker, Pc
  <2> HIDE DEF w
  <2>3. Goes(t) /\ thread'[t] = w /\ w # None
    BY <1>1, <1>2, <2>1, <2>2, NoneAssumption DEF Goes
  <2>4. ~Holds(t)' /\ ~Sending(t)' /\ Shrinking(t)' /\ Shrinking(t) /\ Holds(t)
    BY <1>1, <1>5, <2>2, <2>3 DEF Holds, Sending, Shrinking
  <2>5. TypeOK'
    BY <1>1, <1>2, <2>1, <2>3 DEF TypeOK, Goes, agent, State
  <2>6. WorkerOK(thread[t])'
    BY <1>1, <1>2, <1>5, <2>2, <2>3 DEF WorkerOK, Places
  <2>7. Control'
    BY <1>1, <1>2, <1>5, <2>2, <2>3, <2>4, <2>5, <2>6, ControlStep
  <2>8. /\ state = "ADAPTING"
        /\ \A u \in Thread \ {t} : ~Holds(u) /\ ~Sending(u)
    BY <1>2, <2>4, <1>5, HolderAlone
  <2>9. Distinct'
    BY <1>1, <1>2 DEF List, Distinct
  <2>10. \A u \in Thread : /\ Shrinking(u)' => Shrinking(u)
                           /\ thread[u] # None => thread'[u].later = thread[u].later
    BY <2>2, <2>3, <2>4, OthersAs DEF Goes
  <2>11. \A u \in Thread : Shrinking(u) => thread[u] # None
    BY DEF Shrinking
  <2>12. FirstStays'
    BY <1>1, <1>2, <2>8, <2>10, <2>11 DEF List, FirstStays, Alive
  <2>13. Known'
    BY <1>1, <1>2, <1>5, <2>4 DEF List, Known, Activating
  <2>14. InOrder'
    <3>1. ASSUME ~crossed PROVE Uniform'
      <4>1. Coherent
        BY <2>4, <1>5 DEF Coherent
      <4>2. \A u \in Thread : \A n : ~Due(u, n)
        BY <2>8, <1>3 DEF Due
      <4> QED BY <1>1, <1>2, <3>1, <4>1, <4>2 DEF List, InOrder, Uniform, agent
    <3>2. \A u \in Thread : ~Sending(u)'
      BY <2>3, <2>4, <2>8, OthersAs
    <3> QED BY <1>1, <1>2, <3>1, <3>2, <2>10, <2>11 DEF InOrder, List, AtEnd
  <2>15. Agents'
    <3>1. \A u \in Thread, n \in Node : Busy(u, n)' <=> Busy(u, n)
      BY <1>1, <2>2, <2>3, OthersAs DEF Busy
    <3> QED BY <1>1, <1>2, <3>1, AgentsKept
  <2> QED BY <2>7, <2>9, <2>12, <2>13, <2>14, <2>15 DEF IInv, List
<1> QED BY <1>4, <1>5

LEMMA FailStep ==
    ASSUME IInv, NEW t \in Thread, Fail(t)
    PROVE  IInv'
<1>1. /\ thread[t] # None /\ thread[t].pc \in {"begin", "update", "call"}
      /\ thread' = [thread EXCEPT ![t] = None]
      /\ state' = IF At(t, {"start"}, "update") THEN "ERROR" ELSE state
      /\ UNCHANGED <<versions, current, nodes, created, up, request, agent, crossed>>
  BY DEF Fail
<1>2. Control /\ thread \in [Thread -> Worker \cup {None}]
  BY <1>1, WorkerFacts
<1>3. Goes(t) /\ thread'[t] = None
  BY <1>1, <1>2 DEF Goes
<1>4. CASE At(t, {"start"}, "update")
  <2>1. Holds(t) /\ thread[t].op = "start" /\ state' = "ERROR"
    BY <1>1, <1>4 DEF At, Holds
  <2> QED BY <1>1, <1>3, <2>1, EndStep
<1>5. CASE ~At(t, {"start"}, "update")
  <2>1. state' = state /\ (Holds(t) => state # "RUNNING")
    BY <1>1, <1>2, <1>5, HolderAlone
  <2> QED BY <1>1, <1>3, <2>1, EndStep
<1> QED BY <1>4, <1>5

-----------------------------------------------------------------------------
(* Steps of a worker that reach an agent. *)

LEMMA UpdateCodeStep ==
    ASSUME IInv, NEW t \in Thread, UpdateCode(t)
    PROVE  IInv'
<1> DEFINE k == thread[t].walk
           n == NodeOf(k)
           w == [thread[t] EXCEPT !.pc = "init", !.at = n, !.walk.i = @ + 1]
<1>1. /\ thread[t] # None /\ thread[t].pc = "update" /\ ~Over(k)
      /\ thread[t].op \in {"start", "add", "enable"}
      /\ Free(n) /\ current \in versions /\ ReplaceCode(n, current)
      /\ thread' = [thread EXCEPT ![t] = w]
      /\ UNCHANGED <<manager, request, crossed>>
  BY DEF UpdateCode, At
<1>2. /\ Control /\ List /\ Agents /\ TypeOK
      /\ thread \in [Thread -> Worker \cup {None}]
      /\ nodes \in Seq(Node)
      /\ thread[t] \in Worker /\ WorkerOK(thread[t])
      /\ k \in Walk
  BY <1>1, WorkerFacts
<1>3. /\ ListOf(k) \in Seq(Node) /\ k.i \in 1..Len(ListOf(k)) /\ k.i \in Nat
      /\ n = ListOf(k)[k.i] /\ n \in Node
  BY <1>1, <1>2, NextNode
<1> HIDE DEF n
<1>4. /\ w \in Worker
      /\ w.op = thread[t].op /\ w.pc = "init" /\ w.at = n /\ w.later = thread[t].later
      /\ w.count = thread[t].count /\ w.arg = thread[t].arg
      /\ w.walk.over = k.over /\ w.walk.i = k.i + 1
  <2>1. k.i \in Nat \ {0} /\ k.i + 1 \in Nat \ {0}
    BY <1>2 DEF Walk
  <2>2. [k EXCEPT !.i = @ + 1] \in Walk
    BY <1>2, <2>1 DEF Walk
  <2> QED BY <1>2, <1>3, <2>2 DEF Worker, Pc, Walk
<1> HIDE DEF w
<1>5. Goes(t) /\ thread'[t] = w /\ w # None
  BY <1>1, <1>2, <1>4, NoneAssumption DEF Goes
<1>6. /\ Holds(t) /\ Holds(t)' /\ Sending(t) /\ Sending(t)'
      /\ ~Shrinking(t) /\ ~Shrinking(t)' /\ ~Activating(t)'
  BY <1>1, <1>4, <1>5 DEF Holds, Sending, Shrinking, Activating
<1>7. /\ running' = [running EXCEPT ![n] = {}]
      /\ code' = [code EXCEPT ![n] = current]
      /\ begun' = begun \ {n}
      /\ intr' = intr
      /\ UNCHANGED <<state, versions, current, nodes, created, up>>
  BY <1>1 DEF ReplaceCode, manager
<1>8. TypeOK'
  <2>1. /\ running' \in [Node -> SUBSET Command]
        /\ code' \in [Node -> Version \cup {None}]
        /\ begun' \subseteq Node
    BY <1>2, <1>7 DEF TypeOK
  <2>2. intr' \in [Node -> 0..MaxIntr]
    BY <1>2, <1>7 DEF TypeOK
  <2> QED BY <1>1, <1>2, <1>5, <1>7, <2>1, <2>2 DEF TypeOK, Goes
<1>9. WorkerOK(thread[t])'
  BY <1>1, <1>2, <1>3, <1>4, <1>5, <1>7 DEF WorkerOK, Places
<1>10. Control'
  BY <1>1, <1>2, <1>4, <1>5, <1>6, <1>7, <1>8, <1>9, ControlStep
<1>11. Distinct' /\ Known'
  BY <1>1, <1>2, <1>7 DEF List, Distinct, Known
<1>12. FirstStays'
  <2>1. Alive
    BY <1>6 DEF Alive
  <2> QED BY <1>2, <1>5, <1>6, <1>7, <2>1, OthersAs DEF List, FirstStays, Goes
<1>13. InOrder'
  <2>1. ASSUME NEW m \in ToSet(nodes), code[m] = current \/ \E u \in Thread : Due(u, m)
        PROVE  code'[m] = current \/ \E u \in Thread : Due(u, m)'
    <3>1. m \in Node
      BY <1>2, <2>1 DEF ToSet
    <3>2. CASE code[m] = current
      BY <1>2, <1>7, <3>1, <3>2 DEF TypeOK
    <3>3. ASSUME NEW u \in Thread, u # t, Due(u, m) PROVE Due(u, m)'
      BY <1>5, <1>7, <3>3, OthersAs DEF Due, ListOf, Goes
    <3>4. CASE Due(t, m)
      <4>1. PICK j \in k.i..Len(ListOf(k)) : ListOf(k)[j] = m
        BY <3>4 DEF Due
      <4>2. CASE j = k.i
        BY <1>2, <1>3, <1>7, <4>1, <4>2 DEF TypeOK
      <4>3. CASE j # k.i
        <5>1. j \in k.i + 1..Len(ListOf(k))
          BY <1>3, <4>1, <4>3
        <5>2. /\ thread'[t].walk.i = k.i + 1
              /\ ListOf(thread[t].walk)' = ListOf(k)
          BY <1>4, <1>5, <1>7 DEF ListOf
        <5> QED BY <1>6, <4>1, <5>1, <5>2 DEF Due
      <4> QED BY <4>2, <4>3
    <3> QED BY <2>1, <3>2, <3>3, <3>4
  <2>2. Uniform => Uniform'
    BY <1>7, <2>1 DEF Uniform
  <2>3. Coherent' => Coherent
    BY <1>4, <1>5, <1>6, <1>7, OthersAs DEF Coherent, Goes
  <2>4. \A u \in Thread : /\ Shrinking(u)' => Shrinking(u) /\ thread'[u] = thread[u]
                          /\ Sending(u)' => Sending(u) /\ thread'[u].op = thread[u].op
    BY <1>4, <1>5, <1>6, OthersAs DEF Goes
  <2>5. /\ crossed' = crossed /\ nodes' = nodes /\ InOrder
        /\ \A u \in Thread : thread'[u] = None => ~Shrinking(u)'
    BY <1>1, <1>2, <1>7 DEF List, Shrinking
  <2>6. ASSUME ~crossed, NEW u \in Thread, Shrinking(u)' PROVE AtEnd(thread[u].later)'
    BY <2>4, <2>5, <2>6 DEF InOrder, AtEnd
  <2>7. ASSUME ~crossed, NEW u \in Thread, Sending(u)', thread'[u].op # "enable",
               NEW v \in Thread
        PROVE  ~Shrinking(v)'
    BY <2>4, <2>5, <2>7 DEF InOrder
  <2>8. ~crossed /\ Coherent' => Uniform'
    BY <2>2, <2>3, <2>5 DEF InOrder
  <2> QED BY <2>5, <2>6, <2>7, <2>8 DEF InOrder
<1>14. OneAtATime'
  <2>1. \A u \in Thread : ~Busy(u, n)
    BY <1>1 DEF Free, Busy
  <2>2. ASSUME NEW m \in Node, NEW u \in Thread
        PROVE  Busy(u, m)' <=> IF m = n THEN u = t ELSE Busy(u, m)
    <3>1. CASE u = t
      BY <3>1, <1>1, <1>2, <1>4, <1>5, NoneAssumption DEF Busy, WorkerOK
    <3>2. CASE u # t
      BY <3>2, <1>5, <2>1, OthersAs
    <3> QED BY <3>1, <3>2
  <2>3. ASSUME NEW m \in Node
        PROVE  IF m = n THEN running'[m] = {}
               ELSE /\ running'[m] = running[m] /\ code'[m] = code[m]
                    /\ m \in begun' <=> m \in begun
    BY <1>2, <1>3, <1>7 DEF TypeOK
  <2> QED BY <1>2, <2>2, <2>3 DEF Agents, OneAtATime
<1>15. Started'
  <2>1. ASSUME NEW m \in Node
        PROVE  IF m = n THEN running'[m] = {}
               ELSE running'[m] = running[m] /\ (m \in begun' <=> m \in begun)
    BY <1>2, <1>3, <1>7 DEF TypeOK
  <2> QED BY <1>2, <2>1 DEF Agents, Started
<1> QED BY <1>10, <1>11, <1>12, <1>13, <1>14, <1>15 DEF IInv, List, Agents

\* A worker goes on, and neither its loop as far as it sends code, nor the list,
\* nor the code of an agent is touched.
LEMMA ListKept ==
    ASSUME List, NEW t \in Thread, Goes(t), thread'[t] # None,
           UNCHANGED <<manager, code, crossed>>,
           thread'[t].op = thread[t].op, thread'[t].later = thread[t].later,
           Sending(t)' <=> Sending(t), Shrinking(t)' <=> Shrinking(t),
           Holds(t)' <=> Holds(t), Activating(t) => Activating(t)' \/ ~Holds(t),
           Holds(t) => current \in versions,
           Sending(t) => thread'[t].walk = thread[t].walk
    PROVE  List'
<1> USE DEF manager
<1>1. \A u \in Thread : /\ Sending(u)' <=> Sending(u)
                        /\ Shrinking(u)' <=> Shrinking(u)
                        /\ Holds(u)' <=> Holds(u)
  BY OthersAs
<1>2. \A u \in Thread : thread[u] # None =>
         thread'[u].op = thread[u].op /\ thread'[u].later = thread[u].later
  BY DEF Goes
<1>3. \A u \in Thread : Sending(u) \/ Shrinking(u) \/ Holds(u) => thread[u] # None
  BY DEF Sending, Shrinking, Holds
<1>4. Distinct'
  BY DEF List, Distinct
<1>5. FirstStays'
  BY <1>1, <1>2, <1>3 DEF List, FirstStays, Alive
<1>6. Known'
  BY <1>1, OthersAs DEF List, Known
<1>7. \A u \in Thread : \A n : Due(u, n) => Due(u, n)'
  BY <1>1 DEF Due, ListOf, Goes
<1>8. Uniform => Uniform'
  BY <1>7 DEF Uniform
<1>9. Coherent' => Coherent
  BY <1>1, <1>2, <1>3 DEF Coherent
<1>10. InOrder'
  BY <1>1, <1>2, <1>3, <1>8, <1>9 DEF List, InOrder, AtEnd
<1> QED BY <1>4, <1>5, <1>6, <1>10 DEF List

LEMMA StartInitStep ==
    ASSUME IInv, NEW t \in Thread, StartInit(t)
    PROVE  IInv'
<1> DEFINE n == thread[t].at
           w == [thread[t] EXCEPT !.pc = "update", !.at = None]
<1>1. /\ thread[t] # None /\ thread[t].pc = "init"
      /\ thread[t].op \in {"start", "add", "enable"}
      /\ ExecuteScript(n, "init")
      /\ thread' = [thread EXCEPT ![t] = w]
      /\ UNCHANGED <<code, intr, manager, request, crossed>>
  BY DEF StartInit, At
<1>2. /\ Control /\ List /\ Agents /\ TypeOK
      /\ thread \in [Thread -> Worker \cup {None}]
      /\ thread[t] \in Worker /\ WorkerOK(thread[t])
  BY <1>1, WorkerFacts
<1>3. n \in Node
  BY <1>1, <1>2 DEF WorkerOK
<1>4. /\ w \in Worker
      /\ w.op = thread[t].op /\ w.pc = "update" /\ w.at = None
      /\ w.later = thread[t].later /\ w.count = thread[t].count
      /\ w.arg = thread[t].arg /\ w.walk = thread[t].walk
  BY <1>2 DEF Worker, Pc
<1> HIDE DEF w
<1>5. Goes(t) /\ thread'[t] = w /\ w # None
  BY <1>1, <1>2, <1>4, NoneAssumption DEF Goes
<1>6. /\ Holds(t) /\ Holds(t)' /\ Sending(t) /\ Sending(t)'
      /\ ~Shrinking(t) /\ ~Shrinking(t)' /\ ~Activating(t)
  BY <1>1, <1>4, <1>5 DEF Holds, Sending, Shrinking, Activating
<1>7. IF code[n] = None THEN UNCHANGED <<running, begun>>
      ELSE /\ running' = [running EXCEPT ![n] = @ \cup {"init"}]
           /\ begun' = begun \cup {n}
  BY <1>1 DEF ExecuteScript
<1>8. TypeOK'
  <2>1. running' \in [Node -> SUBSET Command] /\ begun' \subseteq Node
    BY <1>2, <1>3, <1>7 DEF TypeOK, Command
  <2> QED BY <1>1, <1>2, <1>5, <2>1 DEF TypeOK, Goes, manager
<1>9. WorkerOK(thread[t])'
  BY <1>1, <1>2, <1>4, <1>5 DEF WorkerOK, Places, manager
<1>10. Control'
  BY <1>1, <1>2, <1>4, <1>5, <1>6, <1>8, <1>9, ControlStep DEF manager
<1>11. List'
  <2>1. current \in versions
    BY <1>2, <1>6 DEF List, Known
  <2> QED BY <1>1, <1>2, <1>4, <1>5, <1>6, <2>1, ListKept
<1>12. /\ Busy(t, n) /\ \A u \in Thread : Busy(u, n) => u = t
       /\ running[n] \subseteq {"interrupt"}
  BY <1>1, <1>2, <1>3 DEF Agents, OneAtATime, Busy
<1>13. \A u \in Thread, m \in Node : Busy(u, m)' <=> Busy(u, m) /\ m # n
  <2>1. ASSUME NEW m \in Node PROVE ~Busy(t, m)' /\ (Busy(t, m) => m = n)
    BY <1>4, <1>5, NoneAssumption DEF Busy
  <2> QED BY <1>5, <1>12, <2>1, OthersAs
<1>14. ASSUME NEW m \in Node
       PROVE  IF m = n /\ code[n] # None
              THEN m \in begun' /\ running'[m] \subseteq {"init", "interrupt"}
              ELSE running'[m] = running[m] /\ (m \in begun' <=> m \in begun)
  BY <1>2, <1>3, <1>7, <1>12 DEF TypeOK
<1>15. OneAtATime'
  BY <1>1, <1>2, <1>12, <1>13, <1>14 DEF Agents, OneAtATime
<1>16. Started'
  BY <1>2, <1>14 DEF Agents, Started
<1> QED BY <1>10, <1>11, <1>15, <1>16 DEF IInv, Agents

LEMMA CallScriptStep ==
    ASSUME IInv, NEW t \in Thread, CallScript(t)
    PROVE  IInv'
<1> DEFINE k == thread[t].walk
           n == NodeOf(k)
           c == CommandOf(thread[t])
           w == [thread[t] EXCEPT !.walk.i = @ + 1]
<1>1. /\ thread[t] # None /\ thread[t].pc = "call" /\ ~Over(k)
      /\ thread[t].op \in {"add", "remove", "script"}
      /\ Free(n) /\ execute_script(n, c)
      /\ thread' = [thread EXCEPT ![t] = w]
      /\ UNCHANGED <<manager, request, crossed>>
  BY DEF CallScript, At
<1>2. /\ Control /\ List /\ Agents /\ TypeOK
      /\ thread \in [Thread -> Worker \cup {None}]
      /\ nodes \in Seq(Node)
      /\ thread[t] \in Worker /\ WorkerOK(thread[t])
      /\ k \in Walk
  BY <1>1, WorkerFacts
<1>3. k.i \in Nat /\ n \in Node
  BY <1>1, <1>2, NextNode DEF Walk
<1>4. /\ w \in Worker
      /\ w.op = thread[t].op /\ w.pc = "call" /\ w.at = thread[t].at
      /\ w.later = thread[t].later /\ w.count = thread[t].count
      /\ w.arg = thread[t].arg
  <2>1. [k EXCEPT !.i = @ + 1] \in Walk
    BY <1>2, <1>3 DEF Walk
  <2> QED BY <1>1, <1>2, <2>1 DEF Worker
<1>5. c \in {"notify", "run", "interrupt"}
  BY <1>1, <1>2 DEF CommandOf, WorkerOK
<1> HIDE DEF n, w, c
<1>6. Goes(t) /\ thread'[t] = w /\ w # None
  BY <1>1, <1>2, <1>4, NoneAssumption DEF Goes
<1>7. /\ Holds(t)' <=> Holds(t)
      /\ ~Sending(t) /\ ~Sending(t)' /\ ~Activating(t)
      /\ Shrinking(t)' <=> Shrinking(t)
  BY <1>1, <1>4, <1>6 DEF Holds, Sending, Shrinking, Activating
<1>8. /\ code' = code /\ begun' = begun
      /\ \/ running' = running
         \/ \E S \in SUBSET running[n] : running' = [running EXCEPT ![n] = S]
         \/ /\ running[n] = {} /\ code[n] # None /\ c # "interrupt"
            /\ running' = [running EXCEPT ![n] = @ \cup {c}]
      /\ \/ intr' = intr
         \/ intr[n] < MaxIntr /\ intr' = [intr EXCEPT ![n] = @ + 1]
  BY <1>1, <1>5 DEF execute_script, ExecuteScript, ScriptsRun, KillAll, agent
<1>9. TypeOK'
  <2>1. running' \in [Node -> SUBSET Command]
    BY <1>2, <1>3, <1>5, <1>8 DEF TypeOK, Command
  <2>2. intr' \in [Node -> 0..MaxIntr]
    <3>1. intr \in [Node -> 0..MaxIntr]
      BY <1>2 DEF TypeOK
    <3> QED BY <1>3, <1>8, <3>1, CountInterrupts
  <2> QED BY <1>1, <1>2, <1>6, <1>8, <2>1, <2>2 DEF TypeOK, Goes, manager
<1>10. WorkerOK(thread[t])'
  BY <1>1, <1>2, <1>4, <1>6 DEF WorkerOK, Places, manager
<1>11. Control'
  BY <1>1, <1>2, <1>4, <1>6, <1>7, <1>9, <1>10, ControlStep DEF manager
<1>12. List'
  <2>1. Holds(t) => current \in versions
    BY <1>2, <1>7 DEF List, Known
  <2> QED BY <1>1, <1>2, <1>4, <1>6, <1>7, <1>8, <2>1, ListKept
<1>13. \A u \in Thread, m \in Node : Busy(u, m)' <=> Busy(u, m)
  BY <1>4, <1>6, <1>1, OthersAs DEF Busy
<1>14. n \in begun \/ code[n] = None
  BY <1>1, <1>2, <1>3 DEF Agents, OneAtATime, Free, Busy
<1>15. ASSUME NEW m \in Node
       PROVE  \/ running'[m] \subseteq running[m]
              \/ /\ m = n /\ n \in begun /\ code[n] # None
                 /\ running'[m] = {c} /\ c # "interrupt"
  BY <1>2, <1>3, <1>8, <1>14 DEF TypeOK
<1>16. \A u \in Thread : ~Busy(u, n)
  BY <1>1 DEF Free, Busy
<1>17. OneAtATime'
  BY <1>2, <1>8, <1>13, <1>15, <1>16 DEF Agents, OneAtATime
<1>18. Started'
  BY <1>2, <1>8, <1>15 DEF Agents, Started
<1> QED BY <1>11, <1>12, <1>17, <1>18 DEF IInv, Agents

-----------------------------------------------------------------------------
(* Steps of a worker that concern the list of the nodes. *)

\* The nodes that a removal chooses.
LEMMA LeavingFacts ==
    ASSUME NEW q \in Seq(Node), NEW k \in 1..Len(q)
    PROVE  /\ Leaving(q, k) \in Seq(Node) /\ Len(Leaving(q, k)) = k
           /\ \A j \in 1..k : Leaving(q, k)[j] = q[Len(q) + 1 - j]
<1>1. PICK n \in Nat : n = Len(q)
  OBVIOUS
<1>2. k \in Nat /\ \A j \in 1..k : n + 1 - j \in 1..n
  BY <1>1
<1>3. Leaving(q, k) \in [1..k -> Node]
  BY <1>1, <1>2 DEF Leaving
<1> QED BY <1>1, <1>2, <1>3 DEF Leaving

LEMMA OnRemoveStep ==
    ASSUME IInv, NEW t \in Thread, on_remove_nodes(t)
    PROVE  IInv'
<1> DEFINE k == thread[t].count
           kept == SubSeq(nodes, 1, Len(nodes) - k)
           pc == IF kept = <<>> THEN "drop" ELSE "call"
           w == [thread[t] EXCEPT !.later = Leaving(nodes, k), !.pc = pc,
                                  !.walk = Walking(kept)]
<1>1. /\ thread[t] # None /\ thread[t].op = "remove" /\ thread[t].pc = "begin"
      /\ UNCHANGED <<versions, current, nodes, created, up, request, agent, crossed>>
      /\ IF k > Len(nodes)
         THEN thread' = [thread EXCEPT ![t] = None] /\ UNCHANGED state
         ELSE /\ thread' = [thread EXCEPT ![t] = w]
              /\ state' = IF kept = <<>> THEN "STOPPED" ELSE state
  BY DEF on_remove_nodes, At
<1>2. /\ Control /\ List /\ Agents /\ TypeOK
      /\ thread \in [Thread -> Worker \cup {None}]
      /\ nodes \in Seq(Node)
      /\ thread[t] \in Worker /\ WorkerOK(thread[t])
      /\ k \in Nat
  BY <1>1, WorkerFacts
<1>3. /\ Holds(t) /\ ~Sending(t) /\ ~Shrinking(t) /\ ~Activating(t)
  BY <1>1 DEF Holds, Sending, Shrinking, Activating
<1>4. /\ state = "ADAPTING"
      /\ \A u \in Thread \ {t} : ~Holds(u) /\ ~Sending(u)
  BY <1>1, <1>2, <1>3, HolderAlone
<1>5. PICK n \in Nat : n = Len(nodes)
  BY <1>2
<1>6. k >= 1
  BY <1>1, <1>2 DEF WorkerOK
<1>7. CASE k > n
  <2>1. thread' = [thread EXCEPT ![t] = None] /\ UNCHANGED state
    BY <1>1, <1>5, <1>7
  <2>2. Goes(t) /\ thread'[t] = None
    BY <1>1, <1>2, <2>1 DEF Goes
  <2> QED BY <1>1, <1>4, <2>1, <2>2, EndStep
<1>8. CASE k <= n
  <2>1. k \in 1..n /\ ~(k > n) /\ n - k \in Nat
    BY <1>2, <1>5, <1>6, <1>8
  <2>2. /\ thread' = [thread EXCEPT ![t] = w]
        /\ state' = IF kept = <<>> THEN "STOPPED" ELSE state
    BY <1>1, <1>5, <2>1
  <2>3. /\ Leaving(nodes, k) \in Seq(Node) /\ Len(Leaving(nodes, k)) = k
        /\ \A j \in 1..k : Leaving(nodes, k)[j] = nodes[n + 1 - j]
    BY <1>2, <1>5, <2>1, LeavingFacts
  <2>4. kept \in Seq(Node) /\ (kept = <<>> <=> k = n)
    BY <1>2, <1>5, <2>1
  <2>5. pc = IF k = n THEN "drop" ELSE "call"
    BY <2>4
  <2>6. Walking(kept) \in Walk
    BY <2>4 DEF Walking, Walk
  <2> HIDE DEF kept
  <2>7. /\ w \in Worker
        /\ w.op = "remove" /\ w.at = thread[t].at /\ w.pc = pc
        /\ w.later = Leaving(nodes, k) /\ w.count = k
    BY <1>1, <1>2, <2>3, <2>6 DEF Worker, Pc
  <2> HIDE DEF w, k, pc
  <2>8. Goes(t) /\ thread'[t] = w /\ w # None
    BY <1>1, <1>2, <2>2, <2>7, NoneAssumption DEF Goes
  <2>9. /\ (Holds(t)' <=> k # n) /\ ~Sending(t)' /\ Shrinking(t)'
    BY <2>5, <2>7, <2>8 DEF Holds, Sending, Shrinking
  <2>10. state' = IF k = n THEN "STOPPED" ELSE "ADAPTING"
    BY <1>4, <2>2, <2>4
  <2>11. TypeOK'
    BY <1>1, <1>2, <2>8, <2>10 DEF TypeOK, Goes, agent, State
  <2>12. WorkerOK(thread[t])'
    <3>1. \A m \in ToSet(w.later) : m \in ToSet(nodes)
      <4>1. \A j \in 1..k : n + 1 - j \in 1..n
        BY <2>1
      <4> QED BY <1>5, <2>3, <2>7, <4>1 DEF ToSet
    <3>2. w.later # <<>> /\ ToSet(w.later) \subseteq created
      <4>1. Len(<<>>) = 0 /\ k # 0
        BY <2>1
      <4> QED BY <1>2, <2>3, <2>7, <3>1, <4>1 DEF List, Distinct
    <3> QED BY <1>1, <1>2, <1>6, <2>5, <2>7, <2>8, <3>2 DEF WorkerOK, Places
  <2>13. Control'
    BY <1>1, <1>2, <1>3, <1>4, <2>7, <2>8, <2>9, <2>10, <2>11, <2>12, ControlStep
  <2>14. Distinct'
    BY <1>1, <1>2 DEF List, Distinct
  <2>15. \A u \in Thread : ~Sending(u)'
    BY <1>4, <2>8, <2>9, OthersAs
  <2>16. FirstStays'
    <3>1. CASE k = n
      BY <2>10, <2>15, <3>1 DEF FirstStays, Alive
    <3>2. CASE k # n
      <4>1. /\ nodes # <<>>
            /\ \A u \in Thread : Shrinking(u) => nodes[1] \notin ToSet(thread[u].later)
        BY <1>2, <1>4 DEF List, FirstStays, Alive
      <4>2. ASSUME NEW j \in 1..k PROVE Leaving(nodes, k)[j] # nodes[1]
        <5>1. n + 1 - j \in 1..n /\ n + 1 - j # 1 /\ 1 \in 1..n
          BY <2>1, <3>2
        <5> QED BY <1>2, <1>5, <2>3, <5>1 DEF List, Distinct
      <4>3. nodes[1] \notin ToSet(w.later)
        BY <2>3, <2>7, <4>2 DEF ToSet
      <4> QED BY <1>1, <4>1, <4>3, <2>8, OthersAs DEF FirstStays, Goes
    <3> QED BY <3>1, <3>2
  <2>17. Known'
    BY <1>1, <1>2, <1>3 DEF List, Known
  <2>18. InOrder'
    <3>1. ASSUME ~crossed PROVE Uniform'
      <4>1. Coherent
        BY <1>1, <1>3 DEF Coherent
      <4>2. \A u \in Thread : \A m : ~Due(u, m)
        BY <1>3, <1>4 DEF Due
      <4> QED BY <1>1, <1>2, <3>1, <4>1, <4>2 DEF List, InOrder, Uniform, agent
    <3>2. AtEnd(w.later)
      BY <1>5, <2>1, <2>3, <2>7 DEF AtEnd
    <3>3. ASSUME ~crossed, NEW u \in Thread, Shrinking(u)' PROVE AtEnd(thread'[u].later)
      BY <1>2, <2>8, <3>2, <3>3, OthersAs DEF List, InOrder, Goes
    <3>4. \A q : AtEnd(q) => AtEnd(q)'
      BY <1>1 DEF AtEnd
    <3>5. ~crossed => \A u \in Thread : Shrinking(u)' => AtEnd(thread[u].later)'
      BY <1>1, <3>3 DEF AtEnd
    <3> QED BY <1>1, <2>15, <3>1, <3>5 DEF InOrder
  <2>19. Agents'
    <3>1. \A u \in Thread, m \in Node : Busy(u, m)' <=> Busy(u, m)
      BY <1>1, <2>7, <2>8, OthersAs DEF Busy
    <3> QED BY <1>1, <1>2, <3>1, AgentsKept
  <2> QED BY <2>13, <2>14, <2>16, <2>17, <2>18, <2>19 DEF IInv, List
<1> QED BY <1>2, <1>5, <1>7, <1>8

\* The nodes that come up.
LEMMA FreshFacts ==
    ASSUME created \subseteq Node, NEW k \in Nat \ {0}, NEW q \in Fresh(k)
    PROVE  /\ q \in Seq(Node) /\ Len(q) = k
           /\ \A j \in 1..k : q[j] \in Node \ created
           /\ \A i, j \in 1..k : q[i] = q[j] => i = j
           /\ ToSet(q) = {q[j] : j \in 1..k}
<1>1. q \in [1..k -> Node \ created] /\ \A i, j \in 1..k : q[i] = q[j] => i = j
  BY DEF Fresh
<1>2. q \in Seq(Node) /\ Len(q) = k
  BY <1>1
<1> QED BY <1>1, <1>2 DEF ToSet

\* What an addition in place does to the list.
LEMMA Appended ==
    ASSUME NEW p \in Seq(Node), NEW q \in Seq(Node)
    PROVE  /\ p \o q \in Seq(Node) /\ Len(p \o q) = Len(p) + Len(q)
           /\ \A j \in 1..Len(p) : (p \o q)[j] = p[j]
           /\ \A j \in 1..Len(q) : (p \o q)[Len(p) + j] = q[j]
<1>1. PICK n \in Nat : n = Len(p)
  OBVIOUS
<1>2. PICK k \in Nat : k = Len(q)
  OBVIOUS
<1>3. p \o q \in Seq(Node) /\ Len(p \o q) = n + k
  BY <1>1, <1>2
<1>4. \A j \in 1..n : (p \o q)[j] = p[j]
  BY <1>1, <1>2
<1>5. ASSUME NEW j \in 1..k PROVE (p \o q)[n + j] = q[j]
  <2>1. n + j \in 1..n + k /\ ~(n + j <= n) /\ n + j - n = j
    OBVIOUS
  <2> QED BY <1>1, <1>2, <2>1
<1> QED BY <1>1, <1>2, <1>3, <1>4, <1>5

LEMMA CreateForAdd ==
    ASSUME IInv, NEW t \in Thread, CreateNodes(t), thread[t].op = "add"
    PROVE  IInv'
<1>1. /\ thread[t] # None /\ thread[t].pc = "begin"
      /\ UNCHANGED <<state, versions, current, agent>>
      /\ crossed' = (crossed \/ \E u \in Thread : thread[u] # None /\ thread[u].pc = "drop")
  BY DEF CreateNodes, At
<1>2. /\ Control /\ List /\ Agents /\ TypeOK
      /\ thread \in [Thread -> Worker \cup {None}]
      /\ nodes \in Seq(Node) /\ created \subseteq Node
      /\ thread[t] \in Worker /\ WorkerOK(thread[t])
      /\ thread[t].count \in Nat
  BY <1>1, WorkerFacts
<1>3. PICK k \in 1..thread[t].count : \E q \in Fresh(k) :
         /\ created' = created \cup ToSet(q)
         /\ up' = up \cup ToSet(q)
         /\ nodes' = nodes \o q
         /\ thread' = [thread EXCEPT ![t].pc = "update",
                           ![t].walk = Walking(q), ![t].later = nodes]
         /\ UNCHANGED request
  BY DEF CreateNodes
<1>4. PICK q \in Fresh(k) :
         /\ created' = created \cup ToSet(q)
         /\ up' = up \cup ToSet(q)
         /\ nodes' = nodes \o q
         /\ thread' = [thread EXCEPT ![t].pc = "update",
                           ![t].walk = Walking(q), ![t].later = nodes]
         /\ UNCHANGED request
  BY <1>3
<1> DEFINE w == [thread[t] EXCEPT !.pc = "update", !.walk = Walking(q),
                                  !.later = nodes]
<1>5. k \in Nat \ {0}
  BY <1>2
<1>6. /\ q \in Seq(Node) /\ Len(q) = k
      /\ \A j \in 1..k : q[j] \in Node \ created
      /\ \A i, j \in 1..k : q[i] = q[j] => i = j
      /\ ToSet(q) = {q[j] : j \in 1..k}
  BY <1>2, <1>5, FreshFacts
<1>7. Walking(q) \in Walk /\ Walking(q).over = q /\ Walking(q).i = 1
  BY <1>6 DEF Walking, Walk
<1>8. /\ w \in Worker
      /\ w.op = "add" /\ w.pc = "update" /\ w.at = thread[t].at
      /\ w.count = thread[t].count /\ w.walk = Walking(q)
  BY <1>2, <1>7 DEF Worker, Pc
<1>9. thread' = [thread EXCEPT ![t] = w]
  BY <1>2, <1>4
<1> HIDE DEF w
<1>10. Goes(t) /\ thread'[t] = w /\ w # None
  BY <1>1, <1>2, <1>8, <1>9, NoneAssumption DEF Goes
<1>11. /\ Holds(t) /\ Holds(t)' /\ ~Sending(t) /\ Sending(t)'
       /\ ~Shrinking(t) /\ ~Shrinking(t)' /\ ~Activating(t)
  BY <1>1, <1>8, <1>10 DEF Holds, Sending, Shrinking, Activating
<1>12. /\ state = "ADAPTING"
       /\ \A u \in Thread \ {t} : ~Holds(u) /\ ~Sending(u)
  BY <1>2, <1>11, HolderAlone
<1>13. PICK n \in Nat : n = Len(nodes)
  BY <1>2
<1>14. /\ nodes' \in Seq(Node) /\ Len(nodes') = n + k
       /\ \A j \in 1..n : nodes'[j] = nodes[j]
       /\ \A j \in 1..k : nodes'[n + j] = q[j]
  <2>1. nodes' = nodes \o q /\ nodes \in Seq(Node) /\ q \in Seq(Node)
    BY <1>2, <1>4, <1>6
  <2>2. Len(nodes) = n /\ Len(q) = k
    BY <1>6, <1>13
  <2> QED BY <2>1, <2>2, Appended
<1>15. \A j \in 1..n + k : j \in 1..n \/ (j - n \in 1..k /\ j = n + (j - n))
  BY <1>5, <1>13
<1>16. TypeOK'
  <2>1. created' \subseteq Node /\ up' \subseteq created' /\ crossed' \in BOOLEAN
    BY <1>1, <1>2, <1>4, <1>6 DEF TypeOK
  <2> QED BY <1>1, <1>2, <1>4, <1>10, <1>14, <2>1 DEF TypeOK, Goes, agent
<1>17. q # <<>>
  BY <1>5, <1>6
<1>18. WorkerOK(thread[t])'
  BY <1>1, <1>2, <1>6, <1>7, <1>8, <1>10, <1>17 DEF WorkerOK, Places
<1>19. Control'
  BY <1>1, <1>2, <1>4, <1>8, <1>10, <1>11, <1>16, <1>18, ControlStep
<1>20. \A j \in 1..n : nodes[j] \in created
  BY <1>2, <1>13 DEF List, Distinct, ToSet
<1>21. Distinct'
  <2>1. ASSUME NEW j \in 1..n + k PROVE nodes'[j] \in created'
    <3>1. CASE j \in 1..n
      BY <1>4, <1>14, <1>20, <3>1
    <3>2. CASE j - n \in 1..k /\ j = n + (j - n)
      <4>1. nodes'[j] = q[j - n]
        BY <1>14, <3>2
      <4> QED BY <1>4, <1>6, <3>2, <4>1
    <3> QED BY <1>15, <3>1, <3>2
  <2>2. ASSUME NEW i \in 1..n + k, NEW j \in 1..n + k, nodes'[i] = nodes'[j]
        PROVE  i = j
    <3>1. CASE i \in 1..n /\ j \in 1..n
      BY <1>2, <1>13, <1>14, <2>2, <3>1 DEF List, Distinct
    <3>2. CASE i - n \in 1..k /\ j - n \in 1..k
      <4>1. nodes'[i] = q[i - n] /\ nodes'[j] = q[j - n]
        BY <1>14, <1>15, <3>2
      <4>2. i - n = j - n
        BY <1>6, <2>2, <3>2, <4>1
      <4> QED BY <1>13, <4>2
    <3>3. CASE i \in 1..n /\ j - n \in 1..k
      <4>1. nodes'[i] \in created /\ nodes'[j] = q[j - n]
        BY <1>14, <1>15, <1>20, <3>3
      <4> QED BY <1>6, <2>2, <3>3, <4>1
    <3>4. CASE j \in 1..n /\ i - n \in 1..k
      <4>1. nodes'[j] \in created /\ nodes'[i] = q[i - n]
        BY <1>14, <1>15, <1>20, <3>4
      <4> QED BY <1>6, <2>2, <3>4, <4>1
    <3> QED BY <1>15, <3>1, <3>2, <3>3, <3>4
  <2> QED BY <1>14, <2>1, <2>2 DEF Distinct, ToSet
<1>22. FirstStays'
  <2>1. /\ nodes # <<>>
        /\ \A u \in Thread : Shrinking(u) => nodes[1] \notin ToSet(thread[u].later)
    BY <1>2, <1>12 DEF List, FirstStays, Alive
  <2>2. n # 0
    BY <1>2, <1>13, <2>1
  <2>3. nodes'[1] = nodes[1] /\ Len(nodes') # 0
    BY <1>5, <1>13, <1>14, <2>2
  <2>4. nodes' # <<>>
    BY <2>3
  <2> QED BY <1>10, <1>11, <2>1, <2>3, <2>4, OthersAs DEF FirstStays, Goes
<1>23. Known'
  BY <1>1, <1>2, <1>11 DEF List, Known
<1>24. InOrder'
  <2> SUFFICES ASSUME ~crossed'
               PROVE  /\ \A u \in Thread : ~Shrinking(u)'
                      /\ Uniform'
    BY DEF InOrder
  <2>1. ~crossed /\ \A u \in Thread : thread[u] # None => thread[u].pc # "drop"
    BY <1>1
  <2>2. ASSUME NEW u \in Thread, Shrinking(u)' PROVE FALSE
    <3>1. u # t /\ Shrinking(u)
      BY <1>10, <1>11, <2>2, OthersAs
    <3>2. Holds(u)
      BY <2>1, <3>1 DEF Shrinking, Holds
    <3> QED BY <1>12, <3>1, <3>2
  <2>3. ASSUME NEW m \in ToSet(nodes) PROVE code[m] = current
    <3>1. Coherent /\ Uniform
      BY <1>2, <1>11, <2>1, <1>8, <1>1 DEF List, InOrder, Coherent
    <3>2. \A u \in Thread : ~Due(u, m)
      BY <1>11, <1>12 DEF Due
    <3> QED BY <2>3, <3>1, <3>2 DEF Uniform
  <2>4. ASSUME NEW j \in 1..k PROVE Due(t, q[j])'
    <3>1. thread'[t].walk.i = 1 /\ ListOf(thread[t].walk)' = q
      BY <1>6, <1>7, <1>8, <1>10, NoneAssumption DEF ListOf
    <3> QED BY <1>6, <1>11, <3>1 DEF Due
  <2>5. ASSUME NEW m \in ToSet(nodes)'
        PROVE  m \in ToSet(nodes) \/ \E j \in 1..k : m = q[j]
    <3>1. PICK j \in 1..n + k : m = nodes'[j]
      BY <1>14, <2>5 DEF ToSet
    <3>2. CASE j \in 1..n
      BY <1>2, <1>13, <1>14, <3>1, <3>2 DEF ToSet
    <3>3. CASE j - n \in 1..k
      BY <1>14, <1>15, <3>1, <3>3
    <3> QED BY <1>15, <3>2, <3>3
  <2>6. Uniform'
    BY <1>1, <2>3, <2>4, <2>5 DEF Uniform, agent
  <2> QED BY <2>2, <2>6
<1>25. Agents'
  <2>1. \A u \in Thread, m \in Node : Busy(u, m)' <=> Busy(u, m)
    BY <1>1, <1>8, <1>10, OthersAs DEF Busy
  <2> QED BY <1>1, <1>2, <2>1, AgentsKept
<1> QED BY <1>19, <1>21, <1>22, <1>23, <1>24, <1>25 DEF IInv, List

\* A start gives the service another list; loops over the old one stay with it.
LEMMA CreateForStart ==
    ASSUME IInv, NEW t \in Thread, CreateNodes(t), thread[t].op = "start"
    PROVE  IInv'
<1>1. /\ thread[t] # None /\ thread[t].pc = "begin"
      /\ UNCHANGED <<state, versions, current, agent>>
      /\ crossed' = (crossed \/ \E u \in Thread : thread[u] # None /\ thread[u].pc = "drop")
  BY DEF CreateNodes, At
<1>2. /\ Control /\ List /\ Agents /\ TypeOK /\ Threads
      /\ thread \in [Thread -> Worker \cup {None}]
      /\ nodes \in Seq(Node) /\ created \subseteq Node
      /\ thread[t] \in Worker /\ WorkerOK(thread[t])
      /\ thread[t].count \in Nat
  BY <1>1, WorkerFacts
<1>3. PICK k \in 1..thread[t].count : \E q \in Fresh(k) :
         /\ created' = created \cup ToSet(q)
         /\ up' = up \cup ToSet(q)
         /\ nodes' = q
         /\ thread' = [DetachAll(thread) EXCEPT ![t].pc = "update",
                           ![t].walk = Walking(None)]
         /\ request' = IF request = None THEN None
                       ELSE [request EXCEPT !.walk = Detach(@)]
  BY DEF CreateNodes
<1>4. PICK q \in Fresh(k) :
         /\ created' = created \cup ToSet(q)
         /\ up' = up \cup ToSet(q)
         /\ nodes' = q
         /\ thread' = [DetachAll(thread) EXCEPT ![t].pc = "update",
                           ![t].walk = Walking(None)]
         /\ request' = IF request = None THEN None
                       ELSE [request EXCEPT !.walk = Detach(@)]
  BY <1>3
<1>5. k \in Nat \ {0}
  BY <1>2
<1>6. /\ q \in Seq(Node) /\ Len(q) = k
      /\ \A j \in 1..k : q[j] \in Node \ created
      /\ \A i, j \in 1..k : q[i] = q[j] => i = j
      /\ ToSet(q) = {q[j] : j \in 1..k}
  BY <1>2, <1>5, FreshFacts
<1>7. Holds(t) /\ ~Sending(t) /\ ~Shrinking(t)
  BY <1>1, <1>2 DEF Holds, Sending, Shrinking
<1>8. /\ state = "PROLOGUE"
      /\ \A u \in Thread \ {t} : ~Holds(u) /\ ~Sending(u)
  BY <1>2, <1>7, HolderAlone
<1>9. request = None /\ request' = None
  BY <1>2, <1>4, <1>8 DEF Control, RequestOK
<1>10. ASSUME NEW k1 \in Walk PROVE Detach(k1) \in Walk
  BY <1>2 DEF Detach, Walk
<1>11. Walking(None) \in Walk /\ Walking(None).over = None /\ Walking(None).i = 1
  BY DEF Walking, Walk
<1>12. ASSUME NEW u \in Thread, thread[u] # None
       PROVE  LET v == [thread[u] EXCEPT !.walk = Detach(@)] IN
              /\ v \in Worker /\ v.op = thread[u].op /\ v.pc = thread[u].pc
              /\ v.count = thread[u].count /\ v.arg = thread[u].arg
              /\ v.at = thread[u].at /\ v.later = thread[u].later
  <2>1. thread[u] \in Worker
    BY <1>2, <1>12
  <2>2. thread[u].walk \in Walk
    BY <2>1 DEF Worker
  <2>3. Detach(thread[u].walk) \in Walk
    BY <1>10, <2>2
  <2> QED BY <2>1, <2>3 DEF Worker
<1>13. DetachAll(thread) = [u \in Thread |-> IF thread[u] = None THEN None
                              ELSE [thread[u] EXCEPT !.walk = Detach(@)]]
  BY DEF DetachAll
<1> DEFINE x == [thread[t] EXCEPT !.walk = Detach(@)]
           w == [x EXCEPT !.pc = "update", !.walk = Walking(None)]
<1>14. /\ x \in Worker /\ x.op = "start" /\ x.at = thread[t].at
       /\ x.count = thread[t].count
  BY <1>1, <1>12
<1>15. DetachAll(thread)[t] = x
  BY <1>1, <1>13
<1> HIDE DEF x
<1>16. /\ w \in Worker
       /\ w.op = "start" /\ w.pc = "update" /\ w.at = thread[t].at
       /\ w.count = thread[t].count /\ w.walk = Walking(None)
  BY <1>11, <1>14 DEF Worker, Pc
<1>17. thread' = [DetachAll(thread) EXCEPT ![t] = w]
  BY <1>4, <1>13, <1>15
<1> HIDE DEF w
<1>18. thread'[t] = w /\ w # None
  BY <1>13, <1>16, <1>17, NoneAssumption
<1>19. ASSUME NEW u \in Thread, u # t
       PROVE  /\ thread[u] = None => thread'[u] = None
              /\ thread[u] # None =>
                   /\ thread'[u] \in Worker /\ thread'[u] # None
                   /\ thread'[u].op = thread[u].op /\ thread'[u].pc = thread[u].pc
                   /\ thread'[u].count = thread[u].count
                   /\ thread'[u].arg = thread[u].arg
                   /\ thread'[u].at = thread[u].at
                   /\ thread'[u].later = thread[u].later
  <2>1. thread'[u] = IF thread[u] = None THEN None
                     ELSE [thread[u] EXCEPT !.walk = Detach(@)]
    BY <1>13, <1>17, <1>19
  <2>2. CASE thread[u] = None
    BY <2>1, <2>2
  <2>3. CASE thread[u] # None
    BY <1>12, <2>1, <2>3, NoneAssumption
  <2> QED BY <2>2, <2>3
<1>20. \A u \in Thread \ {t} : /\ Holds(u)' <=> Holds(u)
                               /\ Sending(u)' <=> Sending(u)
                               /\ Shrinking(u)' <=> Shrinking(u)
                               /\ \A n : Busy(u, n)' <=> Busy(u, n)
  BY <1>19 DEF Holds, Sending, Shrinking, Busy
<1>21. Holds(t)' /\ Sending(t)' /\ ~Shrinking(t)'
  BY <1>16, <1>18 DEF Holds, Sending, Shrinking
<1>22. TypeOK'
  <2>1. created' \subseteq Node /\ up' \subseteq created' /\ crossed' \in BOOLEAN
    BY <1>1, <1>2, <1>4, <1>6 DEF TypeOK
  <2>2. thread' \in [Thread -> Worker \cup {None}]
    <3>1. \A u \in Thread : thread'[u] \in Worker \cup {None}
      BY <1>16, <1>18, <1>19
    <3>2. thread' = [u \in Thread |-> thread'[u]]
      BY <1>13, <1>17
    <3> QED BY <3>1, <3>2
  <2> QED BY <1>1, <1>2, <1>4, <1>6, <1>9, <2>1, <2>2 DEF TypeOK, agent
<1>23. Control'
  <2>1. RequestOK'
    BY <1>9 DEF RequestOK
  <2>2. WorkerOK(thread[t])'
    BY <1>1, <1>2, <1>11, <1>16, <1>18 DEF WorkerOK, Places
  <2>3. ASSUME NEW u \in Thread, u # t, thread'[u] # None PROVE WorkerOK(thread[u])'
    <3>1. thread[u] # None /\ WorkerOK(thread[u])
      BY <1>2, <1>19, <2>3 DEF Threads
    <3>2. ~(thread'[u].pc \in {"update", "init"})
      BY <1>8, <1>20, <2>3 DEF Sending
    <3> QED BY <1>4, <1>19, <2>3, <3>1, <3>2 DEF WorkerOK
  <2>4. Lock'
    BY <1>1, <1>8, <1>16, <1>18, <1>20, <1>21 DEF Lock
  <2> QED BY <1>22, <2>1, <2>2, <2>3, <2>4 DEF Control, Threads
<1>24. Distinct'
  BY <1>4, <1>6 DEF Distinct
<1>25. FirstStays'
  <2>1. q # <<>> /\ q[1] \notin created
    BY <1>5, <1>6
  <2>2. ASSUME NEW u \in Thread, Shrinking(u)' PROVE q[1] \notin ToSet(thread'[u].later)
    <3>1. u # t /\ Shrinking(u) /\ thread[u] # None
      BY <1>20, <1>21, <2>2 DEF Shrinking
    <3>2. ToSet(thread[u].later) \subseteq created
      BY <1>2, <3>1 DEF Threads, WorkerOK, Shrinking
    <3> QED BY <1>19, <2>1, <3>1, <3>2
  <2> QED BY <1>4, <2>1, <2>2 DEF FirstStays
<1>26. Known'
  BY <1>1, <1>2, <1>8 DEF List, Known
<1>27. InOrder'
  <2> SUFFICES ASSUME ~crossed'
               PROVE  /\ \A u \in Thread : ~Shrinking(u)'
                      /\ Uniform'
    BY DEF InOrder
  <2>1. \A u \in Thread : thread[u] # None => thread[u].pc # "drop"
    BY <1>1
  <2>2. ASSUME NEW u \in Thread, Shrinking(u)' PROVE FALSE
    <3>1. u # t /\ Shrinking(u)
      BY <1>20, <1>21, <2>2
    <3>2. Holds(u)
      BY <2>1, <3>1 DEF Shrinking, Holds
    <3> QED BY <1>8, <3>1, <3>2
  <2>3. ASSUME NEW j \in 1..k PROVE Due(t, q[j])'
    <3>1. thread'[t].walk.i = 1 /\ ListOf(thread[t].walk)' = q
      BY <1>4, <1>11, <1>16, <1>18 DEF ListOf
    <3> QED BY <1>6, <1>21, <3>1 DEF Due
  <2>4. Uniform'
    BY <1>4, <1>6, <2>3 DEF Uniform
  <2> QED BY <2>2, <2>4
<1>28. Agents'
  <2>1. \A u \in Thread, m \in Node : Busy(u, m)' <=> Busy(u, m)
    BY <1>1, <1>16, <1>18, <1>20 DEF Busy
  <2> QED BY <1>1, <1>2, <2>1, AgentsKept
<1> QED BY <1>23, <1>24, <1>25, <1>26, <1>27, <1>28 DEF IInv, List

LEMMA DropNodeStep ==
    ASSUME IInv, NEW t \in Thread, DropNode(t)
    PROVE  IInv'
<1> DEFINE q == thread[t].later
           h == Head(q)
<1>1. /\ thread[t] # None /\ thread[t].op = "remove" /\ thread[t].pc = "drop"
      /\ nodes' = RemoveFirst(nodes, h)
      /\ IF h \in ToSet(nodes) THEN Destroy(h) ELSE UNCHANGED <<up, agent>>
      /\ thread' = [thread EXCEPT ![t] =
           IF Tail(q) = <<>> \/ h \notin ToSet(nodes) THEN None
           ELSE [@ EXCEPT !.later = Tail(q)]]
      /\ UNCHANGED <<state, versions, current, created, request, crossed>>
  BY DEF DropNode, At
<1>2. /\ Control /\ List /\ Agents /\ TypeOK
      /\ thread \in [Thread -> Worker \cup {None}]
      /\ nodes \in Seq(Node)
      /\ thread[t] \in Worker /\ WorkerOK(thread[t])
      /\ q \in Seq(Node)
  BY <1>1, WorkerFacts
<1>3. /\ ~Holds(t) /\ ~Sending(t) /\ Shrinking(t) /\ \A n \in Node : ~Busy(t, n)
  BY <1>1, <1>2, NoneAssumption DEF Holds, Sending, Shrinking, Busy, WorkerOK
<1>4. q # <<>> /\ h = q[1] /\ Len(q) \in Nat \ {0} /\ h \in ToSet(q)
  BY <1>1, <1>2 DEF WorkerOK, ToSet
<1>5. PICK n \in Nat : n = Len(nodes)
  BY <1>2
<1>6. \A i, j \in 1..n : nodes[i] = nodes[j] => i = j
  BY <1>2, <1>5 DEF List, Distinct
<1>7. CASE h \notin ToSet(nodes)
  <2>1. nodes' = nodes
    BY <1>1, <1>2, <1>5, <1>6, <1>7, Removal
  <2>2. thread' = [thread EXCEPT ![t] = None] /\ UNCHANGED <<up, agent>>
    BY <1>1, <1>7
  <2>3. Goes(t) /\ thread'[t] = None
    BY <1>1, <1>2, <2>2 DEF Goes
  <2> QED BY <1>1, <1>3, <2>1, <2>2, <2>3, EndStep
<1>8. CASE h \in ToSet(nodes)
  <2>1. PICK i \in 1..n : nodes[i] = h /\ nodes' = Without(nodes, i)
    BY <1>1, <1>2, <1>5, <1>6, <1>8, Removal
  <2>2. /\ nodes' \in Seq(Node) /\ Len(nodes') = n - 1 /\ n - 1 \in Nat
        /\ \A j \in 1..n - 1 : nodes'[j] = IF j < i THEN nodes[j] ELSE nodes[j + 1]
    BY <1>2, <1>5, <2>1, WithoutFacts
  <2>3. ToSet(nodes') \subseteq ToSet(nodes) \ {h}
    <3>1. ASSUME NEW j \in 1..n - 1 PROVE nodes'[j] \in ToSet(nodes) \ {h}
      <4>1. CASE j < i
        <5>1. j \in 1..n /\ j # i
          BY <2>2, <4>1
        <5>2. nodes'[j] = nodes[j]
          BY <2>2, <4>1
        <5>3. nodes[j] # h /\ nodes[j] \in ToSet(nodes)
          BY <1>2, <1>5, <1>6, <2>1, <5>1 DEF ToSet
        <5> QED BY <5>2, <5>3
      <4>2. CASE ~(j < i)
        <5>1. j + 1 \in 1..n /\ j + 1 # i
          BY <2>2, <4>2
        <5>2. nodes'[j] = nodes[j + 1]
          BY <2>2, <4>2
        <5>3. nodes[j + 1] # h /\ nodes[j + 1] \in ToSet(nodes)
          BY <1>2, <1>5, <1>6, <2>1, <5>1 DEF ToSet
        <5> QED BY <5>2, <5>3
      <4> QED BY <4>1, <4>2
    <3> QED BY <2>2, <3>1 DEF ToSet
  <2>4. /\ up' = up \ {h}
        /\ code' = [code EXCEPT ![h] = None]
        /\ running' = [running EXCEPT ![h] = {}]
        /\ begun' = begun \ {h}
        /\ intr' = [intr EXCEPT ![h] = 0]
    BY <1>1, <1>8 DEF Destroy
  <2>5. h \in Node
    BY <1>2, <1>4
  <2>6. Tail(q) \in Seq(Node) /\ ToSet(Tail(q)) \subseteq ToSet(q)
    <3>1. PICK m \in Nat \ {0} : m = Len(q)
      BY <1>4
    <3>2. /\ Tail(q) \in Seq(Node) /\ Len(Tail(q)) = m - 1
          /\ \A j \in 1..m - 1 : Tail(q)[j] = q[j + 1] /\ j + 1 \in 1..m
      BY <1>2, <1>4, <3>1
    <3> QED BY <3>1, <3>2 DEF ToSet
  <2> DEFINE w == [thread[t] EXCEPT !.later = Tail(q)]
  <2>7. /\ w \in Worker
        /\ w.op = "remove" /\ w.pc = "drop" /\ w.at = thread[t].at
        /\ w.count = thread[t].count /\ w.later = Tail(q)
    BY <1>1, <1>2, <2>6 DEF Worker
  <2>8. thread'[t] = IF Tail(q) = <<>> THEN None ELSE w
    BY <1>1, <1>2, <1>8
  <2> HIDE DEF w
  <2>9. Goes(t)
    BY <1>1, <1>2, <2>7, <2>8 DEF Goes
  <2>10. thread'[t] # None => thread'[t] = w /\ Tail(q) # <<>> 
    BY <2>8
  <2>11. ~Holds(t)' /\ ~Sending(t)' /\ \A m \in Node : ~Busy(t, m)'
    BY <1>1, <1>2, <2>7, <2>10, NoneAssumption DEF Holds, Sending, Busy, WorkerOK
  <2>12. \A u \in Thread : Shrinking(u)' => 
           /\ Shrinking(u)
           /\ ToSet(thread'[u].later) \subseteq ToSet(thread[u].later)
    BY <1>3, <2>6, <2>7, <2>9, <2>10, OthersAs DEF Goes, Shrinking
  <2>13. TypeOK'
    <3>1. /\ code' \in [Node -> Version \cup {None}]
          /\ running' \in [Node -> SUBSET Command]
          /\ begun' \subseteq Node /\ up' \subseteq created'
      BY <1>1, <1>2, <2>4 DEF TypeOK
    <3>2. intr' \in [Node -> 0..MaxIntr]
      <4>1. intr \in [Node -> 0..MaxIntr]
        BY <1>2 DEF TypeOK
      <4> QED BY <2>4, <2>5, <4>1, CountInterrupts
    <3> QED BY <1>1, <1>2, <2>2, <2>9, <3>1, <3>2 DEF TypeOK, Goes
  <2>14. Threads'
    <3>1. thread'[t] # None => WorkerOK(thread[t])'
      BY <1>1, <1>2, <2>6, <2>7, <2>10 DEF WorkerOK, Places
    <3>2. ASSUME NEW u \in Thread, u # t, thread'[u] # None PROVE WorkerOK(thread[u])'
      BY <1>1, <1>2, <2>9, <3>2 DEF Goes, Control, Threads, WorkerOK
    <3> QED BY <3>1, <3>2 DEF Threads
  <2>15. RequestOK'
    BY <1>1, <1>2 DEF Control, RequestOK
  <2>16. \A u \in Thread : Holds(u)' => Holds(u) /\ thread'[u] = thread[u]
    BY <2>9, <2>11, OthersAs DEF Goes
  <2>17. Lock'
    <3>1. ASSUME NEW u \in Thread, Holds(u)'
          PROVE  /\ state' = IF thread'[u].op = "start" THEN "PROLOGUE" ELSE "ADAPTING"
                 /\ \A v \in Thread : Holds(v)' => v = u
      BY <1>1, <1>2, <2>16, <3>1 DEF Control, Lock
    <3> QED BY <3>1 DEF Lock
  <2>18. Distinct'
    <3>1. ASSUME NEW a \in 1..n - 1, NEW b \in 1..n - 1, nodes'[a] = nodes'[b]
          PROVE  a = b
      <4>1. /\ a \in 1..n /\ b \in 1..n /\ a + 1 \in 1..n /\ b + 1 \in 1..n
            /\ i \in Nat /\ a \in Nat /\ b \in Nat
        BY <2>2
      <4>2. CASE a < i /\ b < i
        BY <1>6, <2>2, <3>1, <4>1, <4>2
      <4>3. CASE ~(a < i) /\ ~(b < i)
        <5>1. a + 1 = b + 1
          BY <1>6, <2>2, <3>1, <4>1, <4>3
        <5> QED BY <4>1, <5>1
      <4>4. CASE a < i /\ ~(b < i)
        <5>1. a = b + 1
          BY <1>6, <2>2, <3>1, <4>1, <4>4
        <5> QED BY <4>1, <4>4, <5>1
      <4>5. CASE ~(a < i) /\ b < i
        <5>1. a + 1 = b
          BY <1>6, <2>2, <3>1, <4>1, <4>5
        <5> QED BY <4>1, <4>5, <5>1
      <4> QED BY <4>2, <4>3, <4>4, <4>5
    <3> QED BY <1>1, <1>2, <2>2, <2>3, <3>1 DEF List, Distinct
  <2>19. FirstStays'
    <3>1. Alive' => Alive
      BY <1>1, <2>9, <2>11, OthersAs DEF Alive
    <3>2. ASSUME Alive PROVE n > 1 /\ i # 1 /\ nodes[1] = nodes'[1]
      <4>1. nodes # <<>> /\ nodes[1] # h
        BY <1>2, <1>3, <1>4, <3>2 DEF List, FirstStays
      <4>2. i # 1
        BY <2>1, <4>1
      <4>3. n > 1 /\ 1 < i /\ 1 \in 1..n - 1
        BY <1>5, <2>1, <4>2
      <4> QED BY <2>2, <4>2, <4>3
    <3>3. ASSUME Alive PROVE nodes' # <<>>
      BY <2>2, <3>2, <3>3
    <3>4. ASSUME Alive, NEW u \in Thread, Shrinking(u)'
          PROVE  nodes'[1] \notin ToSet(thread'[u].later)
      BY <1>2, <2>12, <3>2, <3>4 DEF List, FirstStays
    <3> QED BY <3>1, <3>3, <3>4 DEF FirstStays
  <2>20. Known'
    BY <1>1, <1>2, <2>16 DEF List, Known, Activating
  <2>21. InOrder'
    <3> SUFFICES ASSUME ~crossed
                 PROVE  /\ \A u \in Thread : Shrinking(u)' => AtEnd(thread[u].later)'
                        /\ \A u \in Thread : Sending(u)' /\ thread'[u].op # "enable" =>
                             \A v \in Thread : ~Shrinking(v)'
                        /\ Coherent' => Uniform'
      BY <1>1 DEF InOrder
    <3>1. /\ \A u \in Thread : Shrinking(u) => AtEnd(thread[u].later)
          /\ \A u \in Thread : Sending(u) => thread[u].op = "enable"
      BY <1>2, <1>3 DEF List, InOrder
    <3>2. /\ Len(q) <= n /\ \A j \in 1..Len(q) : q[j] = nodes[n + 1 - j]
      BY <1>3, <1>4, <1>5, <1>8, <3>1 DEF AtEnd
    <3>3. i = n
      <4>1. 1 \in 1..Len(q) /\ n + 1 - 1 = n /\ n \in 1..n
        BY <1>4, <1>5, <3>2
      <4>2. nodes[n] = h
        BY <1>4, <3>2, <4>1
      <4> QED BY <1>6, <2>1, <4>1, <4>2
    <3>4. \A j \in 1..n - 1 : j < i /\ nodes'[j] = nodes[j]
      BY <2>2, <3>3
    <3>5. ASSUME NEW u \in Thread, u # t, Shrinking(u)' PROVE AtEnd(thread[u].later)'
      <4>1. /\ thread'[u] = thread[u] /\ AtEnd(thread[u].later) /\ thread[u] # None
            /\ Shrinking(u) /\ thread[u] \in Worker
        BY <2>9, <2>12, <3>1, <3>5 DEF Goes, Shrinking
      <4> DEFINE p == thread[u].later
      <4>2. p \in Seq(Node) /\ Len(p) \in Nat \ {0}
        <5>1. p \in Seq(Node)
          BY <4>1 DEF Worker
        <5>2. p # <<>>
          BY <1>2, <4>1 DEF Control, Threads, WorkerOK, Shrinking
        <5> QED BY <5>1, <5>2
      <4>3. p[1] \notin ToSet(nodes')
        <5>1. CASE p[1] \notin ToSet(nodes)
          BY <2>3, <5>1
        <5>2. CASE \A j \in 1..Len(p) : p[j] = nodes[n + 1 - j]
          <6>1. 1 \in 1..Len(p) /\ n + 1 - 1 = n
            BY <1>5, <4>2
          <6>2. p[1] = h
            BY <2>1, <3>3, <5>2, <6>1
          <6> QED BY <2>3, <6>2
        <5> QED BY <1>5, <4>1, <5>1, <5>2 DEF AtEnd
      <4> QED BY <4>1, <4>3 DEF AtEnd
    <3>6. ASSUME Shrinking(t)' PROVE AtEnd(thread[t].later)'
      <4>1. thread'[t].later = Tail(q)
        BY <2>7, <2>10, <3>6 DEF Shrinking
      <4>2. PICK m \in Nat \ {0} : m = Len(q)
        BY <1>4
      <4>3. /\ Len(Tail(q)) = m - 1
            /\ \A j \in 1..m - 1 : Tail(q)[j] = q[j + 1]
        BY <1>2, <1>4, <4>2
      <4>4. ASSUME NEW j \in 1..m - 1 PROVE Tail(q)[j] = nodes'[n - 1 + 1 - j]
        <5>1. /\ j + 1 \in 1..m /\ n + 1 - (j + 1) = n - 1 + 1 - j
              /\ n - 1 + 1 - j \in 1..n - 1
          BY <1>5, <3>2, <4>2
        <5> QED BY <3>2, <3>4, <4>2, <4>3, <5>1
      <4>5. m - 1 <= n - 1
        BY <1>5, <3>2, <4>2
      <4> QED BY <2>2, <4>1, <4>3, <4>4, <4>5 DEF AtEnd
    <3>7. \A u \in Thread : Sending(u)' => Sending(u) /\ thread'[u] = thread[u] /\ u # t
      BY <2>9, <2>11, OthersAs DEF Goes
    <3>8. ASSUME Coherent' PROVE Uniform'
      <4>1. Coherent
        BY <1>1, <2>16, <3>7, <3>8 DEF Coherent
      <4>2. ASSUME NEW m \in ToSet(nodes') PROVE code'[m] = current \/ \E u \in Thread : Due(u, m)'
        <5>1. m \in ToSet(nodes) /\ m # h /\ m \in Node
          BY <1>2, <2>3, <4>2 DEF ToSet
        <5>2. CASE code[m] = current
          BY <1>2, <2>4, <5>1, <5>2 DEF TypeOK
        <5>3. ASSUME NEW u \in Thread, Due(u, m) PROVE Due(u, m)'
          <6>1. /\ Sending(u) /\ u # t /\ thread'[u] = thread[u] /\ thread[u] # None
                /\ thread[u].op = "enable"
            BY <1>3, <2>9, <3>1, <5>3 DEF Due, Sending, Goes
          <6>2. thread[u].walk.over = None
            BY <1>2, <6>1 DEF Control, Threads, WorkerOK, Sending
          <6>3. thread[u].walk.i \in Nat
            <7>1. thread[u] \in Worker
              BY <1>2, <6>1
            <7>2. thread[u].walk \in Walk
              BY <7>1 DEF Worker
            <7> QED BY <7>2 DEF Walk
          <6>4. ListOf(thread[u].walk) = nodes /\ ListOf(thread[u].walk)' = nodes'
            BY <6>1, <6>2 DEF ListOf
          <6>5. PICK j \in thread[u].walk.i..n : nodes[j] = m
            BY <1>5, <5>3, <6>4 DEF Due
          <6>6. j \in 1..n
            <7>1. thread[u].walk \in Walk
              BY <1>2, <6>1 DEF Worker
            <7>2. thread[u].walk.i >= 1
              BY <7>1 DEF Walk
            <7> QED BY <1>5, <6>3, <6>5, <7>2
          <6>7. j # n
            BY <2>1, <3>3, <5>1, <6>5
          <6>8. j \in thread[u].walk.i..n - 1 /\ j \in 1..n - 1
            BY <1>5, <6>3, <6>5, <6>6, <6>7
          <6>9. nodes'[j] = m
            BY <3>4, <6>5, <6>8
          <6>10. Sending(u)'
            BY <6>1, <2>9, OthersAs
          <6> QED BY <2>2, <6>1, <6>4, <6>8, <6>9, <6>10 DEF Due
        <5> QED BY <1>2, <4>1, <5>1, <5>2, <5>3 DEF List, InOrder, Uniform
      <4> QED BY <1>1, <4>2 DEF Uniform
    <3> QED BY <3>1, <3>5, <3>6, <3>7, <3>8
  <2>22. \A u \in Thread, m \in Node : Busy(u, m)' <=> Busy(u, m)
    BY <1>3, <2>9, <2>11, OthersAs
  <2>23. ASSUME NEW m \in Node
         PROVE  IF m = h THEN running'[m] = {} /\ code'[m] = None
                ELSE /\ running'[m] = running[m] /\ code'[m] = code[m]
                     /\ m \in begun' <=> m \in begun
    BY <1>2, <2>4, <2>5 DEF TypeOK
  <2>24. OneAtATime'
    BY <1>2, <2>22, <2>23 DEF Agents, OneAtATime
  <2>25. Started'
    BY <1>2, <2>23 DEF Agents, Started
  <2> QED BY <2>13, <2>14, <2>15, <2>17, <2>18, <2>19, <2>20, <2>21, <2>24, <2>25
       DEF IInv, Control, List, Agents
<1> QED BY <1>7, <1>8

-----------------------------------------------------------------------------
(* The theorems. *)

LEMMA NextOK == IInv /\ [Next]_vars => IInv'
<1> SUFFICES ASSUME IInv, [Next]_vars PROVE IInv'
  OBVIOUS
<1>1. CASE UNCHANGED vars
  <2>1. UNCHANGED <<manager, request, thread, agent, crossed>>
    BY <1>1 DEF vars
  <2>2. UNCHANGED Control
    BY <2>1 DEF Control, TypeOK, RequestOK, Threads, WorkerOK, Lock, Holds,
                manager, agent
  <2>3. UNCHANGED <<Distinct, FirstStays, Known>>
    BY <2>1 DEF Distinct, FirstStays, Alive, Sending, Shrinking, Known, Holds,
                Activating, manager
  <2>4. UNCHANGED Uniform
    BY <2>1 DEF Uniform, Due, Sending, ListOf, manager, agent
  <2>5. UNCHANGED InOrder
    BY <2>1, <2>4 DEF InOrder, Shrinking, Sending, AtEnd, Coherent, Holds, manager
  <2>6. UNCHANGED Agents
    BY <2>1 DEF Agents, OneAtATime, Busy, Started, agent
  <2> QED BY <2>2, <2>3, <2>5, <2>6 DEF IInv, List
<1>2. ASSUME NEW t \in Thread, Work(t) PROVE IInv'
  <2>1. CASE CreateNodes(t)
    <3>1. thread[t].op \in {"start", "add"}
      BY <2>1 DEF CreateNodes, At
    <3> QED BY <2>1, <3>1, CreateForStart, CreateForAdd
  <2> QED BY <1>2, <2>1, ActivateStep, UpdateCodeStep, StartInitStep, UpdatedStep,
       CallScriptStep, CalledStep, OnRemoveStep, DropNodeStep, FailStep DEF Work
<1>3. ASSUME NEW n \in Node, Agent(n) PROVE IInv'
  BY <1>3, DoInterruptStep, ScriptEndsStep DEF Agent
<1> QED BY <1>1, <1>2, <1>3, HandleStep DEF Next

\* IInv is inductive.
THEOREM Inductive == Spec => []IInv
BY InitOK, NextOK, PTL DEF Spec

\* Every variable of the manager and of the agents keeps its type, however long the
\* lists and whatever calls fail.
THEOREM TypeCorrect == Spec => []TypeOK
<1>1. IInv => TypeOK
  BY DEF IInv, Control
<1> QED BY <1>1, Inductive, PTL

\* When a service shows S_RUNNING every agent on its list has the active version, for
\* any number of nodes and workers: an activation loops over self.nodes itself, but
\* removals shorten that list only at the end it has still to come to.
THEOREM SameCodeAlways == Spec => []SameCode
<1>1. IInv => SameCode
  <2> SUFFICES ASSUME IInv, state = "RUNNING", ~crossed, NEW n \in ToSet(nodes)
               PROVE  code[n] = current
    BY DEF SameCode
  <2>1. Coherent /\ Uniform
    BY DEF IInv, List, InOrder, Coherent
  <2>2. \A t \in Thread : ~Sending(t)
    BY NobodyHolds DEF IInv, Control
  <2> QED BY <2>1, <2>2 DEF Uniform, Due
<1> QED BY <1>1, Inductive, PTL

\* The agent serves one call at a time, and update_code does not return before
\* init.sh has been started: every script of a version that an agent keeps runs
\* after the init.sh of that version has begun, but for interrupt.sh, which can
\* come first within update_code itself; and one at a time, interrupt.sh apart.
THEOREM InitFirstAlways == Spec => []InitFirst
<1>1. IInv => InitFirst
  <2> SUFFICES ASSUME IInv, NEW n \in Node, NEW c \in running[n]
               PROVE  /\ \/ n \in begun
                         \/ /\ c = "interrupt"
                            /\ \E t \in Thread : thread[t] # None /\ thread[t].at = n
                      /\ c # "interrupt" => running[n] \subseteq {c, "interrupt"}
    BY DEF InitFirst
  <2>1. c # "interrupt" => n \in begun /\ running[n] \subseteq {c, "interrupt"}
    BY DEF IInv, Agents, Started
  <2>2. n \in begun \/ \E t \in Thread : Busy(t, n)
    BY DEF IInv, Agents, OneAtATime
  <2> QED BY <2>1, <2>2 DEF Busy
<1> QED BY <1>1, Inductive, PTL

\* While a service runs its active version is not deleted, though delete_code_version
\* looks at no state: an activation looks the version up before it can end, because
\* the service always has a node (FirstStays) to send it to.
THEOREM ActiveAlwaysKept == Spec => []ActiveKept
<1>1. IInv => ActiveKept
  BY DEF IInv, List, Known, ActiveKept
<1> QED BY <1>1, Inductive, PTL
=============================================================================
