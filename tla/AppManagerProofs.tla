--------------------------- MODULE AppManagerProofs ---------------------------
(***************************************************************************)
(* Proofs about AppManager, for every number of nodes, services, threads   *)
(* and volumes: types, NodesLive and ReleasedOnce.                         *)
(***************************************************************************)
EXTENDS AppManager, TLAPS

\* What is always true of a worker, or of the request that becomes one.
WorkerOK(w) ==
    /\ \A n \in ToSet(w.nodes) \ {Junk} : owner[n] = w.sid
    /\ (\/ w.op = "start" /\ w.pc = "hook"
        \/ w.op = "remove" /\ w.pc = "notify"
        \/ w.pc = "drop") => w.nodes # <<>>
    /\ w.op = "remove" => w.count >= 1
    /\ w.op \in {"mkvol", "rmvol"} => w.vol \in VolName /\ w.at \in Node
    /\ w.pc = "clear" => Junk \notin ToSet(w.nodes)
    /\ (w.op # "remove" /\ w.pc = "drop") =>
         ToSet(w.nodes) \cap ({Junk} \cup ToSet(snodes[w.sid])) = {}

\* A list of nodes names every node once.
NoTwice(q) ==
    \A i, j \in 1..Len(q) : q[i] = q[j] /\ q[i] # Junk => i = j

ThreadsOK ==
    \A t \in Thread : thread[t] # None => WorkerOK(thread[t])

RequestOK ==
    request # None =>
      /\ request.op = "remove" => request.count >= 1
      /\ request.op \in {"mkvol", "rmvol"} =>
           request.vol \in VolName /\ request.at \in Node

ListsOK ==
    /\ \A n \in up : owner[n] # None
    /\ \A s \in Service : NoTwice(snodes[s])

IInv == TypeOK /\ NodesLive /\ ReleasedOnce /\ ListsOK /\ ThreadsOK /\ RequestOK

-----------------------------------------------------------------------------
(* Lists. *)

\* The elements of the tail of a list, and its head, are elements of the list.
LEMMA TailElements ==
    ASSUME NEW S, NEW q \in Seq(S), q # <<>>
    PROVE  /\ Tail(q) \in Seq(S)
           /\ ToSet(Tail(q)) \subseteq ToSet(q)
           /\ Head(q) \in ToSet(q)
BY DEF ToSet

\* Two lists one after the other have the elements of both.
LEMMA ConcatElements ==
    ASSUME NEW S, NEW p \in Seq(S), NEW q \in Seq(S)
    PROVE  /\ p \o q \in Seq(S)
           /\ ToSet(p \o q) = ToSet(p) \cup ToSet(q)
<1> DEFINE r == p \o q
<1>1. /\ r \in Seq(S)
      /\ Len(r) = Len(p) + Len(q)
      /\ Len(p) \in Nat /\ Len(q) \in Nat
      /\ \A i \in 1..Len(p) : r[i] = p[i]
      /\ \A i \in 1..Len(q) : r[Len(p) + i] = q[i]
      /\ DOMAIN p = 1..Len(p) /\ DOMAIN q = 1..Len(q) /\ DOMAIN r = 1..Len(r)
  OBVIOUS
<1> HIDE DEF r
<1>2. ASSUME NEW x \in ToSet(r) PROVE x \in ToSet(p) \cup ToSet(q)
  <2>1. PICK i \in 1..Len(r) : x = r[i]
    BY <1>1 DEF ToSet
  <2>2. CASE i <= Len(p)
    BY <1>1, <2>1, <2>2 DEF ToSet
  <2>3. CASE i > Len(p)
    <3>1. i - Len(p) \in 1..Len(q) /\ i = Len(p) + (i - Len(p))
      BY <1>1, <2>3
    <3>2. x = q[i - Len(p)]
      BY <1>1, <2>1, <3>1
    <3> QED BY <1>1, <3>1, <3>2 DEF ToSet
  <2> QED BY <1>1, <2>2, <2>3
<1>3. ToSet(p) \subseteq ToSet(r)
  BY <1>1 DEF ToSet
<1>4. ToSet(q) \subseteq ToSet(r)
  <2>1. ASSUME NEW i \in 1..Len(q) PROVE q[i] \in ToSet(r)
    <3>1. Len(p) + i \in 1..Len(r) /\ q[i] = r[Len(p) + i]
      BY <1>1
    <3> QED BY <1>1, <3>1 DEF ToSet
  <2> QED BY <1>1, <2>1 DEF ToSet
<1> QED BY <1>1, <1>2, <1>3, <1>4 DEF r

\* Where the elements of a list are when the place i has been removed.
Shift(i, j) == IF j < i THEN j ELSE j + 1

\* Removing a place from a list moves those behind it one place forward.
LEMMA RemoveAtPlaces ==
    ASSUME NEW S, NEW q \in Seq(S), NEW i \in 1..Len(q)
    PROVE  /\ RemoveAt(q, i) \in Seq(S)
           /\ Len(RemoveAt(q, i)) = Len(q) - 1
           /\ \A j \in 1..Len(RemoveAt(q, i)) : RemoveAt(q, i)[j] = q[Shift(i, j)]
<1> DEFINE r == RemoveAt(q, i)
           a == SubSeq(q, 1, i - 1)
           b == SubSeq(q, i + 1, Len(q))
<1>1. /\ a \in Seq(S) /\ b \in Seq(S)
      /\ Len(a) = i - 1 /\ Len(b) = Len(q) - i
      /\ \A j \in 1..(i - 1) : a[j] = q[j]
      /\ \A j \in 1..(Len(q) - i) : b[j] = q[i + j]
  OBVIOUS
<1>2. r = a \o b
  BY DEF RemoveAt
<1> HIDE DEF a, b, r
<1>3. r \in Seq(S) /\ Len(r) = Len(q) - 1
  BY <1>1, <1>2
<1>4. ASSUME NEW j \in 1..Len(r), j < i PROVE r[j] = q[j]
  <2>1. j \in 1..Len(a)
    BY <1>1, <1>3, <1>4
  <2>2. r[j] = a[j]
    BY <1>1, <1>2, <2>1
  <2> QED BY <1>1, <2>1, <2>2
<1>5. ASSUME NEW j \in 1..Len(r), ~(j < i) PROVE r[j] = q[j + 1]
  <2>1. PICK m \in 1..(Len(q) - i) : Len(a) + m = j /\ i + m = j + 1
    <3>1. j - (i - 1) \in 1..(Len(q) - i)
      BY <1>3, <1>5
    <3>2. Len(a) + (j - (i - 1)) = j /\ i + (j - (i - 1)) = j + 1
      BY <1>1, <1>3
    <3> QED BY <3>1, <3>2
  <2>2. (a \o b)[Len(a) + m] = b[m]
    <3>1. a \in Seq(S) /\ b \in Seq(S) /\ m \in 1..Len(b)
      BY <1>1
    <3> QED BY <3>1
  <2>3. b[m] = q[i + m]
    BY <1>1
  <2> QED BY <1>2, <2>1, <2>2, <2>3
<1>6. \A j \in 1..Len(r) : r[j] = q[Shift(i, j)]
  BY <1>4, <1>5 DEF Shift
<1> QED BY <1>3, <1>6 DEF r

\* Removing a place from a list removes nothing but what is there; in a list
\* that names every node once, the node is gone.
LEMMA RemoveAtElements ==
    ASSUME NEW S, NEW q \in Seq(S), NEW i \in 1..Len(q)
    PROVE  /\ RemoveAt(q, i) \in Seq(S)
           /\ ToSet(RemoveAt(q, i)) \subseteq ToSet(q)
           /\ NoTwice(q) => NoTwice(RemoveAt(q, i))
           /\ NoTwice(q) /\ q[i] # Junk => q[i] \notin ToSet(RemoveAt(q, i))
<1> DEFINE r == RemoveAt(q, i)
           At_(j) == Shift(i, j)
<1>1. /\ r \in Seq(S)
      /\ Len(r) = Len(q) - 1
      /\ \A j \in 1..Len(r) : r[j] = q[At_(j)]
  BY RemoveAtPlaces
<1>2. \A j \in 1..Len(r) : At_(j) \in 1..Len(q) /\ At_(j) # i
  BY <1>1 DEF Shift
<1>3. \A j, k \in 1..Len(r) : At_(j) = At_(k) => j = k
  BY <1>1 DEF Shift
<1> HIDE DEF r, At_
<1>4. ToSet(r) \subseteq ToSet(q)
  BY <1>1, <1>2 DEF ToSet
<1>5. NoTwice(q) => NoTwice(r)
  BY <1>1, <1>2, <1>3 DEF NoTwice
<1>6. NoTwice(q) /\ q[i] # Junk => q[i] \notin ToSet(r)
  <2>1. SUFFICES ASSUME NoTwice(q), q[i] # Junk,
                        NEW j \in 1..Len(r), r[j] = q[i]
                 PROVE  FALSE
    BY <1>1 DEF ToSet
  <2>2. q[At_(j)] = q[i] /\ At_(j) \in 1..Len(q)
    BY <1>1, <1>2, <2>1
  <2>3. At_(j) = i
    BY <2>1, <2>2 DEF NoTwice
  <2> QED BY <1>2, <2>3
<1> QED BY <1>1, <1>4, <1>5, <1>6 DEF r

\* What is popped from a list comes from the list.
LEMMA PoppedElements ==
    ASSUME NEW S, NEW q \in Seq(S), NEW k \in 1..Len(q)
    PROVE  /\ Popped(q, k) \in Seq(S)
           /\ Popped(q, k) # <<>>
           /\ ToSet(Popped(q, k)) \subseteq ToSet(q)
<1>1. \A i \in 1..k : Len(q) + 1 - i \in 1..Len(q)
  OBVIOUS
<1>2. Popped(q, k) \in [1..k -> S]
  BY <1>1 DEF Popped
<1>3. Popped(q, k) \in Seq(S) /\ Len(Popped(q, k)) = k
  BY <1>2
<1> QED BY <1>1, <1>3 DEF Popped, ToSet

\* The director's new nodes are a list of nodes that nobody owned, each once.
LEMMA FreshNodes ==
    ASSUME NEW k \in Nat \ {0}, NEW q \in Fresh(k)
    PROVE  /\ q \in Seq(Node)
           /\ q # <<>>
           /\ NoTwice(q)
           /\ \A n \in ToSet(q) : n \in Node /\ owner[n] = None
<1>1. q \in [1..k -> {n \in Node : owner[n] = None}]
  BY DEF Fresh
<1>2. q \in Seq(Node) /\ Len(q) = k /\ DOMAIN q = 1..k
  BY <1>1
<1>3. \A n \in ToSet(q) : n \in Node /\ owner[n] = None
  BY <1>1, <1>2 DEF ToSet
<1>4. NoTwice(q)
  BY <1>2 DEF Fresh, NoTwice
<1> QED BY <1>2, <1>3, <1>4

-----------------------------------------------------------------------------
(* Steps that change one slot and leave the lists alone. *)

\* What slot t may become when the lists of nodes do not change: empty, a new
\* worker that has taken nothing, or the same worker elsewhere.
SlotOK(t, w) ==
    \/ w = None
    \/ /\ w \in Worker
       /\ WorkerOK(w)
       /\ \/ w.gone = {}
          \/ /\ thread[t] # None
             /\ w.gone = thread[t].gone
             /\ w.sid = thread[t].sid

\* A worker that moves elsewhere is a worker.
LEMMA WorkerMoves ==
    ASSUME NEW w \in Worker, NEW pc \in Pc
    PROVE  LET v == [w EXCEPT !.pc = pc] IN
           /\ v \in Worker
           /\ v.pc = pc /\ v.op = w.op /\ v.sid = w.sid /\ v.count = w.count
           /\ v.nodes = w.nodes /\ v.gone = w.gone
           /\ v.vol = w.vol /\ v.at = w.at /\ v.dev = w.dev
BY DEF Worker

\* The lists stay live and nothing is released twice when only one slot moves.
LEMMA SlotStep ==
    ASSUME IInv, NEW t \in Thread, NEW w, SlotOK(t, w),
           thread' = [thread EXCEPT ![t] = w],
           UNCHANGED <<nodes, snodes, up, owner>>
    PROVE  /\ thread' \in [Thread -> Worker \cup {None}]
           /\ NodesLive' /\ ReleasedOnce' /\ ListsOK' /\ ThreadsOK'
<1> USE DEF IInv
<1>1. /\ thread \in [Thread -> Worker \cup {None}]
      /\ thread'[t] = w
      /\ \A u \in Thread \ {t} : thread'[u] = thread[u]
  BY DEF TypeOK
<1>2. thread' \in [Thread -> Worker \cup {None}]
  BY <1>1 DEF SlotOK
<1>3. NodesLive' /\ ListsOK'
  BY DEF NodesLive, ListsOK, NoTwice, ToSet
<1>4. ReleasedOnce'
  <2>1. ASSUME NEW u \in Thread, thread'[u] # None
        PROVE  /\ thread'[u].gone \subseteq up \ nodes
               /\ \A n \in thread'[u].gone : owner[n] = thread'[u].sid
    BY <1>1, <2>1 DEF ReleasedOnce, SlotOK
  <2>2. ASSUME NEW u \in Thread, NEW v \in Thread \ {u},
               thread'[u] # None, thread'[v] # None
        PROVE  thread'[u].gone \cap thread'[v].gone = {}
    BY <1>1, <2>2 DEF ReleasedOnce, SlotOK
  <2> QED BY <2>1, <2>2 DEF ReleasedOnce
<1>5. ThreadsOK'
  <2>1. SUFFICES ASSUME NEW u \in Thread, thread'[u] # None
                 PROVE  WorkerOK(thread[u])'
    BY DEF ThreadsOK
  <2>2. WorkerOK(thread'[u])
    BY <1>1, <2>1 DEF ThreadsOK, SlotOK
  <2> QED BY <2>2 DEF WorkerOK
<1> QED BY <1>2, <1>3, <1>4, <1>5

\* A worker that only moves, and not into its loop, keeps its slot in order.
LEMMA GotoOK ==
    ASSUME IInv, NEW t \in Thread, thread[t] # None,
           NEW pc \in Pc \ {"hook", "clear", "drop"},
           pc = "notify" => thread[t].op # "remove"
    PROVE  SlotOK(t, [thread[t] EXCEPT !.pc = pc])
<1> DEFINE w == [thread[t] EXCEPT !.pc = pc]
<1>1. thread[t] \in Worker /\ WorkerOK(thread[t])
  BY DEF IInv, TypeOK, ThreadsOK
<1>2. /\ w \in Worker
      /\ w.pc = pc /\ w.op = thread[t].op /\ w.sid = thread[t].sid
      /\ w.count = thread[t].count /\ w.nodes = thread[t].nodes
      /\ w.gone = thread[t].gone
      /\ w.vol = thread[t].vol /\ w.at = thread[t].at
  BY <1>1, WorkerMoves
<1> HIDE DEF w
<1>3. WorkerOK(w)
  BY <1>1, <1>2 DEF WorkerOK
<1> QED BY <1>2, <1>3 DEF SlotOK, w

-----------------------------------------------------------------------------
(* The server thread. *)

\* Requests, checks and refusals change neither the lists nor the workers.
LEMMA ServerStep ==
    ASSUME IInv, Handle \/ Refuse
    PROVE  IInv'
<1> USE DEF IInv
<1>1. CASE add_service
  <2>1. service_id' \in 0..MaxService /\ instances' \subseteq 1..service_id'
    BY <1>1, BoundAssumption DEF add_service, TypeOK
  <2>2. mstate' \in State
    BY <1>1 DEF add_service, State
  <2>3. TypeOK'
    BY <1>1, <2>1, <2>2 DEF add_service, TypeOK
  <2> QED BY <1>1, <2>3 DEF add_service, NodesLive, ReleasedOnce, ListsOK,
                            NoTwice, ThreadsOK, WorkerOK, RequestOK
<1>2. ASSUME NEW op \in Op, NEW s \in Service, NEW k \in 0..MaxCount,
             NEW v \in VolName \cup {None}, NEW n \in Node \cup {None},
             Checked(op, s, k, v, n),
             op = "remove" => k >= 1,
             op \in {"mkvol", "rmvol"} => v \in VolName /\ n \in Node
      PROVE  IInv'
  <2>1. request' \in Request /\ RequestOK'
    BY <1>2 DEF Checked, Request, RequestOK
  <2>2. TypeOK'
    BY <1>2, <2>1 DEF Checked, TypeOK
  <2> QED BY <1>2, <2>1, <2>2 DEF Checked, NodesLive, ReleasedOnce, ListsOK,
                                  NoTwice, ThreadsOK, WorkerOK
<1>3. CASE Refuse
  <2>1. TypeOK' /\ RequestOK'
    BY <1>3 DEF Refuse, TypeOK, RequestOK
  <2> QED BY <1>3, <2>1 DEF Refuse, NodesLive, ReleasedOnce, ListsOK,
                            NoTwice, ThreadsOK, WorkerOK
<1>4. ASSUME NEW s \in Service, start_service(s) \/ stop_service(s)
                                  \/ remove_service(s)
      PROVE  IInv'
  BY <1>2, <1>4, BoundAssumption
     DEF start_service, stop_service, remove_service, Op
<1>5. ASSUME NEW s \in Service, NEW k \in 1..MaxCount,
             add_nodes(s, k) \/ remove_nodes(s, k)
      PROVE  IInv'
  BY <1>2, <1>5, BoundAssumption DEF add_nodes, remove_nodes, Op
<1>6. ASSUME NEW s \in Service, NEW v \in VolName, NEW n \in Node,
             create_volume(s, v, n)
      PROVE  IInv'
  BY <1>2, <1>6, BoundAssumption DEF create_volume, Op
<1>7. ASSUME NEW s \in Service, NEW v \in VolName, delete_volume(s, v)
      PROVE  IInv'
  <2>1. volumes[v].node \in Node
    BY <1>7 DEF delete_volume, TypeOK
  <2> QED BY <1>2, <1>7, <2>1, BoundAssumption DEF delete_volume, Op
<1> QED BY <1>1, <1>3, <1>4, <1>5, <1>6, <1>7 DEF Handle

\* A commit fills a slot with a worker that has taken nothing.
LEMMA CommitStep ==
    ASSUME IInv, NEW t \in Thread, Commit(t)
    PROVE  IInv'
<1> DEFINE w == [op |-> request.op, pc |-> FirstPc(request.op),
                 sid |-> request.sid, count |-> request.count, nodes |-> <<>>,
                 gone |-> {}, vol |-> request.vol, at |-> request.at, dev |-> 0]
<1>1. request \in Request /\ RequestOK
  BY DEF IInv, TypeOK, Commit
<1>2. FirstPc(request.op) \in {"begin", "call", "hook"}
  BY DEF FirstPc
<1>3. w \in Worker
  BY <1>1, <1>2, BoundAssumption DEF Worker, Request, Pc
<1>4. WorkerOK(w)
  BY <1>1, <1>2 DEF WorkerOK, RequestOK, Commit, FirstPc, ToSet
<1>5. SlotOK(t, w)
  BY <1>3, <1>4 DEF SlotOK
<1>6. thread' = [thread EXCEPT ![t] = w]
  BY DEF Commit
<1> HIDE DEF w
<1>7. /\ thread' \in [Thread -> Worker \cup {None}]
      /\ NodesLive' /\ ReleasedOnce' /\ ListsOK' /\ ThreadsOK'
  BY <1>5, <1>6, SlotStep DEF Commit
<1>8. CommitState(request.op, state[request.sid]) \in State
  BY <1>1 DEF CommitState, State, IInv, TypeOK, Request
<1>9. TypeOK' /\ RequestOK'
  BY <1>1, <1>7, <1>8 DEF Commit, IInv, TypeOK, RequestOK, Request, State
<1> QED BY <1>7, <1>9 DEF IInv

-----------------------------------------------------------------------------
(* Workers that leave the lists alone. *)

\* The slot of a worker that ends is in order.
LEMMA EndOK == ASSUME NEW t PROVE SlotOK(t, None)
BY DEF SlotOK

\* The lookup of the service in httpsserver.instances moves or ends a worker.
LEMMA BeginStep ==
    ASSUME IInv, NEW t \in Thread, Begin(t)
    PROVE  IInv'
<1>1. thread[t] \in Worker /\ thread[t] # None
  BY DEF IInv, TypeOK, Begin, At
<1>2. PICK w : SlotOK(t, w) /\ thread' = [thread EXCEPT ![t] = w]
  <2>1. CASE Goto(t, "call")
    BY <1>1, <2>1, GotoOK DEF Goto, Pc
  <2>2. CASE Die(t)
    BY <2>2, EndOK DEF Die
  <2> QED BY <2>1, <2>2 DEF Begin
<1>3. /\ thread' \in [Thread -> Worker \cup {None}]
      /\ NodesLive' /\ ReleasedOnce' /\ ListsOK' /\ ThreadsOK'
  BY <1>2, SlotStep DEF Begin
<1>4. died' \subseteq Service
  BY <1>1 DEF Begin, Die, IInv, TypeOK, Worker
<1>5. TypeOK' /\ RequestOK'
  BY <1>3, <1>4 DEF Begin, IInv, TypeOK, RequestOK
<1> QED BY <1>3, <1>5 DEF IInv

\* A failed callbacker.create_nodes ends the worker and touches no list.
LEMMA CreateFailedStep ==
    ASSUME IInv, NEW t \in Thread, CreateFailed(t)
    PROVE  IInv'
<1>1. thread[t] \in Worker
  BY DEF IInv, TypeOK, CreateFailed, At
<1>2. /\ thread' \in [Thread -> Worker \cup {None}]
      /\ NodesLive' /\ ReleasedOnce' /\ ListsOK' /\ ThreadsOK'
  BY EndOK, SlotStep DEF CreateFailed, Die
<1>3. died' \subseteq Service
  BY <1>1 DEF CreateFailed, Die, IInv, TypeOK, Worker
<1>4. TypeOK' /\ RequestOK'
  BY <1>2, <1>3 DEF CreateFailed, IInv, TypeOK, RequestOK
<1> QED BY <1>2, <1>4 DEF IInv

\* on_start names the first of the new nodes the master and ends the worker.
LEMMA OnStartStep ==
    ASSUME IInv, NEW t \in Thread, on_start(t)
    PROVE  IInv'
<1> DEFINE s == thread[t].sid
           new == thread[t].nodes
<1>1. /\ thread[t] \in Worker /\ s \in Service
      /\ new \in Seq(Item) /\ new # <<>>
  BY DEF IInv, TypeOK, on_start, At, Worker, ThreadsOK, WorkerOK
<1>2. Done(t) /\ state' \in [Service -> State]
  BY <1>1 DEF on_start, Finish, IInv, TypeOK, State
<1>3. /\ thread' \in [Thread -> Worker \cup {None}]
      /\ NodesLive' /\ ReleasedOnce' /\ ListsOK' /\ ThreadsOK'
  BY <1>2, EndOK, SlotStep DEF on_start, Done
<1>4. Junk \notin ToSet(new) => new[1] \in Node
  BY <1>1 DEF ToSet, Item
<1>5. agents' \in [Service -> Nat] /\ master' \in [Service -> Node \cup {None}]
  <2>1. \/ UNCHANGED <<agents, master>>
        \/ /\ Junk \notin ToSet(new)
           /\ agents' = [agents EXCEPT ![s] = @ + 1]
           /\ master' = [master EXCEPT ![s] = new[1]]
    BY DEF on_start
  <2>2. /\ agents \in [Service -> Nat]
        /\ master \in [Service -> Node \cup {None}]
    BY DEF IInv, TypeOK
  <2> HIDE DEF s, new
  <2>3. agents' \in [Service -> Nat]
    BY <1>1, <2>1, <2>2
  <2> QED BY <1>1, <1>4, <2>1, <2>2, <2>3
<1>6. TypeOK' /\ RequestOK'
  BY <1>2, <1>3, <1>5 DEF on_start, Done, IInv, TypeOK, RequestOK
<1> QED BY <1>3, <1>6 DEF IInv

\* on_add_nodes counts the new agents; the lists stay as they are.
LEMMA OnAddStep ==
    ASSUME IInv, NEW t \in Thread, on_add_nodes(t)
    PROVE  IInv'
<1>1. thread[t] \in Worker /\ thread[t] # None /\ thread[t].op = "add"
  BY DEF IInv, TypeOK, on_add_nodes, At
<1>2. PICK w : SlotOK(t, w) /\ thread' = [thread EXCEPT ![t] = w]
  <2>1. CASE Goto(t, "notify")
    BY <1>1, <2>1, GotoOK DEF Goto, Pc
  <2>2. CASE Die(t)
    BY <2>2, EndOK DEF Die
  <2> QED BY <2>1, <2>2 DEF on_add_nodes
<1>3. /\ thread' \in [Thread -> Worker \cup {None}]
      /\ NodesLive' /\ ReleasedOnce' /\ ListsOK' /\ ThreadsOK'
  BY <1>2, SlotStep DEF on_add_nodes
<1>4. died' \subseteq Service
  BY <1>1 DEF on_add_nodes, Die, IInv, TypeOK, Worker
<1>5. agents' \in [Service -> Nat]
  BY <1>1 DEF on_add_nodes, IInv, TypeOK, Worker
<1>6. TypeOK' /\ RequestOK'
  BY <1>3, <1>4, <1>5 DEF on_add_nodes, IInv, TypeOK, RequestOK
<1> QED BY <1>3, <1>6 DEF IInv

\* The calls to the new agents end the worker, whether they succeed or not.
LEMMA AddNotifyStep ==
    ASSUME IInv, NEW t \in Thread, AddNotify(t)
    PROVE  IInv'
<1>1. thread[t] \in Worker /\ thread[t].sid \in Service
  BY DEF IInv, TypeOK, AddNotify, At, Worker
<1>2. /\ thread' = [thread EXCEPT ![t] = None]
      /\ died' \subseteq Service
      /\ state' \in [Service -> State]
  BY <1>1 DEF AddNotify, Finish, Done, Die, IInv, TypeOK, State
<1>3. /\ thread' \in [Thread -> Worker \cup {None}]
      /\ NodesLive' /\ ReleasedOnce' /\ ListsOK' /\ ThreadsOK'
  BY <1>2, EndOK, SlotStep DEF AddNotify
<1>4. TypeOK' /\ RequestOK'
  BY <1>2, <1>3 DEF AddNotify, IInv, TypeOK, RequestOK
<1> QED BY <1>3, <1>4 DEF IInv

\* on_remove_nodes chooses nodes from the list of the worker's own service.
LEMMA OnRemoveStep ==
    ASSUME IInv, NEW t \in Thread, on_remove_nodes(t)
    PROVE  IInv'
<1> DEFINE s == thread[t].sid
           k == thread[t].count
           cp == snodes[s]
<1>1. /\ thread[t] \in Worker /\ WorkerOK(thread[t])
      /\ thread[t] # None /\ thread[t].op = "remove"
      /\ s \in Service /\ k \in Nat \ {0} /\ cp \in Seq(Item)
      /\ agents \in [Service -> Nat]
  BY BoundAssumption DEF IInv, TypeOK, on_remove_nodes, At, Worker, ThreadsOK,
                         WorkerOK
<1>2. \A n \in ToSet(cp) \ {Junk} : owner[n] = s
  BY <1>1 DEF IInv, NodesLive
<1>3. CASE ~Fits(s, k)
  <2>1. /\ thread' = [thread EXCEPT ![t] = None]
        /\ died' = died \cup {s}
        /\ \E left \in 0..agents[s] : agents' = [agents EXCEPT ![s] = left]
        /\ UNCHANGED <<state, master>>
    BY <1>3 DEF on_remove_nodes, Die
  <2>2. /\ thread' \in [Thread -> Worker \cup {None}]
        /\ NodesLive' /\ ReleasedOnce' /\ ListsOK' /\ ThreadsOK'
    BY <2>1, EndOK, SlotStep DEF on_remove_nodes
  <2>3. agents' \in [Service -> Nat] /\ died' \subseteq Service
    BY <1>1, <2>1 DEF IInv, TypeOK
  <2>4. TypeOK' /\ RequestOK'
    BY <2>1, <2>2, <2>3 DEF on_remove_nodes, IInv, TypeOK, RequestOK
  <2> QED BY <2>2, <2>4 DEF IInv
<1>4. CASE Fits(s, k)
  <2> DEFINE pc == IF Kept(cp, k) = <<>> THEN "drop" ELSE "notify"
             w == [thread[t] EXCEPT !.nodes = Popped(cp, k), !.pc = pc]
  <2>1. /\ Popped(cp, k) \in Seq(Item) /\ Popped(cp, k) # <<>>
        /\ ToSet(Popped(cp, k)) \subseteq ToSet(cp)
    BY <1>1, <1>4, PoppedElements DEF Fits
  <2>2. thread' = [thread EXCEPT ![t] = w]
    BY <1>4 DEF on_remove_nodes
  <2>3. /\ w \in Worker
        /\ w.op = "remove" /\ w.pc = pc /\ w.sid = s /\ w.count = k
        /\ w.nodes = Popped(cp, k) /\ w.gone = thread[t].gone
    BY <1>1, <2>1 DEF Worker, Pc
  <2> HIDE DEF w
  <2>4. SlotOK(t, w)
    BY <1>1, <1>2, <2>1, <2>3 DEF SlotOK, WorkerOK
  <2>5. /\ thread' \in [Thread -> Worker \cup {None}]
        /\ NodesLive' /\ ReleasedOnce' /\ ListsOK' /\ ThreadsOK'
    BY <2>2, <2>4, SlotStep DEF on_remove_nodes
  <2>6. agents' \in [Service -> Nat]
    BY <1>1, <1>4 DEF on_remove_nodes, Fits
  <2>7. /\ state' \in [Service -> State]
        /\ master' \in [Service -> Node \cup {None}]
    BY <1>1, <1>4 DEF on_remove_nodes, IInv, TypeOK, State
  <2>8. TypeOK' /\ RequestOK'
    BY <1>4, <2>5, <2>6, <2>7 DEF on_remove_nodes, IInv, TypeOK, RequestOK
  <2> QED BY <2>5, <2>8 DEF IInv
<1> QED BY <1>3, <1>4

\* The notification of the nodes that stay takes nothing off the lists.
LEMMA RemoveNotifyStep ==
    ASSUME IInv, NEW t \in Thread, RemoveNotify(t)
    PROVE  IInv'
<1>1. /\ thread[t] \in Worker /\ WorkerOK(thread[t]) /\ thread[t] # None
      /\ thread[t].sid \in Service
      /\ thread[t].op = "remove" /\ thread[t].pc = "notify"
  BY DEF IInv, TypeOK, RemoveNotify, At, Worker, ThreadsOK
<1>2. PICK w : SlotOK(t, w) /\ thread' = [thread EXCEPT ![t] = w]
  <2>1. CASE Goto(t, "drop")
    <3> DEFINE w == [thread[t] EXCEPT !.pc = "drop"]
    <3>1. /\ w \in Worker
          /\ w.pc = "drop" /\ w.op = "remove" /\ w.sid = thread[t].sid
          /\ w.count = thread[t].count /\ w.nodes = thread[t].nodes
          /\ w.gone = thread[t].gone
      BY <1>1, WorkerMoves DEF Pc
    <3>2. thread' = [thread EXCEPT ![t] = w]
      BY <2>1 DEF Goto
    <3> HIDE DEF w
    <3>3. SlotOK(t, w)
      BY <1>1, <3>1 DEF SlotOK, WorkerOK
    <3> QED BY <3>2, <3>3
  <2>2. CASE Die(t)
    BY <2>2, EndOK DEF Die
  <2> QED BY <2>1, <2>2 DEF RemoveNotify
<1>3. /\ thread' \in [Thread -> Worker \cup {None}]
      /\ NodesLive' /\ ReleasedOnce' /\ ListsOK' /\ ThreadsOK'
  BY <1>2, SlotStep DEF RemoveNotify
<1>4. died' \subseteq Service /\ state' \in [Service -> State]
  BY <1>1 DEF RemoveNotify, Die, IInv, TypeOK, State
<1>5. TypeOK' /\ RequestOK'
  BY <1>3, <1>4 DEF RemoveNotify, IInv, TypeOK, RequestOK
<1> QED BY <1>3, <1>5 DEF IInv

\* on_stop hands the worker the whole list of its service.
LEMMA OnStopStep ==
    ASSUME IInv, NEW t \in Thread, on_stop(t)
    PROVE  IInv'
<1> DEFINE s == thread[t].sid
<1>1. /\ thread[t] \in Worker /\ WorkerOK(thread[t]) /\ thread[t] # None
      /\ thread[t].op \in {"stop", "unregister"}
      /\ s \in Service /\ snodes[s] \in Seq(Item)
  BY DEF IInv, TypeOK, on_stop, At, Worker, ThreadsOK
<1>2. PICK w : SlotOK(t, w) /\ thread' = [thread EXCEPT ![t] = w]
  <2>1. CASE Goto(t, "forget")
    BY <1>1, <2>1, GotoOK DEF Goto, Pc
  <2>2. CASE Done(t) \/ Die(t)
    BY <2>2, EndOK DEF Done, Die
  <2>3. CASE /\ Junk \notin ToSet(snodes[s])
             /\ thread' = [thread EXCEPT ![t].nodes = snodes[s],
                               ![t].pc = "clear"]
    <3> DEFINE w == [thread[t] EXCEPT !.nodes = snodes[s], !.pc = "clear"]
    <3>1. /\ w \in Worker
          /\ w.pc = "clear" /\ w.op = thread[t].op /\ w.sid = s
          /\ w.nodes = snodes[s] /\ w.gone = thread[t].gone
      BY <1>1 DEF Worker, Pc
    <3>2. thread' = [thread EXCEPT ![t] = w]
      BY <2>3
    <3> HIDE DEF w
    <3>3. \A n \in ToSet(snodes[s]) \ {Junk} : owner[n] = s
      BY <1>1 DEF IInv, NodesLive
    <3>4. WorkerOK(w)
      BY <1>1, <2>3, <3>1, <3>3 DEF WorkerOK
    <3> QED BY <3>1, <3>2, <3>4, <1>1 DEF SlotOK
  <2> QED BY <2>1, <2>2, <2>3 DEF on_stop
<1>3. /\ thread' \in [Thread -> Worker \cup {None}]
      /\ NodesLive' /\ ReleasedOnce' /\ ListsOK' /\ ThreadsOK'
  BY <1>2, SlotStep DEF on_stop
<1>4. /\ died' \subseteq Service
      /\ state' \in [Service -> State]
      /\ agents' \in [Service -> Nat]
      /\ master' \in [Service -> Node \cup {None}]
  <2>1. died' = died \/ died' = died \cup {s}
    BY DEF on_stop, Done, Die
  <2>2. state' = state \/ state' = [state EXCEPT ![s] = "STOPPED"]
    BY DEF on_stop, Done, Die
  <2>3. agents' = agents \/ agents' = [agents EXCEPT ![s] = 0]
    BY DEF on_stop, Done, Die
  <2>4. master' = master \/ master' = [master EXCEPT ![s] = None]
    BY DEF on_stop, Done, Die
  <2>5. /\ died \subseteq Service
        /\ state \in [Service -> State] /\ "STOPPED" \in State
        /\ agents \in [Service -> Nat] /\ 0 \in Nat
        /\ master \in [Service -> Node \cup {None}]
    BY DEF IInv, TypeOK, State
  <2> HIDE DEF s
  <2>6. died' \subseteq Service
    BY <1>1, <2>1, <2>5
  <2>7. state' \in [Service -> State]
    BY <2>2, <2>5
  <2>8. agents' \in [Service -> Nat]
    BY <2>3, <2>5
  <2>9. master' \in [Service -> Node \cup {None}]
    BY <2>4, <2>5
  <2> QED BY <2>6, <2>7, <2>8, <2>9
<1>5. TypeOK' /\ RequestOK'
  BY <1>3, <1>4 DEF on_stop, IInv, TypeOK, RequestOK
<1> QED BY <1>3, <1>5 DEF IInv

\* The removal of a service from httpsserver.instances touches no list.
LEMMA ForgetStep ==
    ASSUME IInv, NEW t \in Thread, Forget(t)
    PROVE  IInv'
<1>1. thread[t] \in Worker /\ thread[t].sid \in Service
  BY DEF IInv, TypeOK, Forget, At, Worker
<1>2. /\ thread' = [thread EXCEPT ![t] = None]
      /\ died' \subseteq Service
      /\ instances' \subseteq instances
      /\ mstate' \in State
  BY <1>1 DEF Forget, Done, Die, IInv, TypeOK, State
<1>3. /\ thread' \in [Thread -> Worker \cup {None}]
      /\ NodesLive' /\ ReleasedOnce' /\ ListsOK' /\ ThreadsOK'
  BY <1>2, EndOK, SlotStep DEF Forget
<1>4. TypeOK' /\ RequestOK'
  BY <1>2, <1>3 DEF Forget, IInv, TypeOK, RequestOK
<1> QED BY <1>3, <1>4 DEF IInv

\* _do_create_volume chooses a device for a node that is listed.
LEMMA CreateVolumeStep ==
    ASSUME IInv, NEW t \in Thread, CreateVolume(t)
    PROVE  IInv'
<1>1. /\ thread[t] \in Worker /\ WorkerOK(thread[t]) /\ thread[t] # None
      /\ thread[t].sid \in Service /\ thread[t].op = "mkvol"
  BY DEF IInv, TypeOK, CreateVolume, At, Worker, ThreadsOK
<1>2. PICK w : SlotOK(t, w) /\ thread' = [thread EXCEPT ![t] = w]
  <2>1. ASSUME NEW d \in 0..MaxDev,
               thread' = [thread EXCEPT ![t].pc = "mount", ![t].dev = d]
        PROVE  \E w : SlotOK(t, w) /\ thread' = [thread EXCEPT ![t] = w]
    <3> DEFINE w == [thread[t] EXCEPT !.pc = "mount", !.dev = d]
    <3>1. /\ w \in Worker
          /\ w.pc = "mount" /\ w.op = "mkvol" /\ w.sid = thread[t].sid
          /\ w.nodes = thread[t].nodes /\ w.gone = thread[t].gone
          /\ w.vol = thread[t].vol /\ w.at = thread[t].at
      BY <1>1 DEF Worker, Pc
    <3>2. thread' = [thread EXCEPT ![t] = w]
      BY <2>1
    <3> HIDE DEF w
    <3>3. WorkerOK(w)
      BY <1>1, <3>1 DEF WorkerOK
    <3> QED BY <1>1, <3>1, <3>2, <3>3 DEF SlotOK
  <2>2. CASE Finish(t, "ERROR")
    BY <2>2, EndOK DEF Finish, Done
  <2> QED BY <2>1, <2>2 DEF CreateVolume
<1>3. /\ thread' \in [Thread -> Worker \cup {None}]
      /\ NodesLive' /\ ReleasedOnce' /\ ListsOK' /\ ThreadsOK'
  BY <1>2, SlotStep DEF CreateVolume
<1>4. died' = died /\ state' \in [Service -> State]
  BY <1>1 DEF CreateVolume, Finish, Done, IInv, TypeOK, State
<1>5. TypeOK' /\ RequestOK'
  BY <1>3, <1>4 DEF CreateVolume, IInv, TypeOK, RequestOK
<1> QED BY <1>3, <1>5 DEF IInv

\* The new volume enters the table with the node and device of the worker.
LEMMA MountVolumeStep ==
    ASSUME IInv, NEW t \in Thread, MountVolume(t)
    PROVE  IInv'
<1>1. /\ thread[t] \in Worker /\ thread[t].sid \in Service
      /\ thread[t].vol \in VolName /\ thread[t].at \in Node
      /\ thread[t].dev \in 0..MaxDev
  BY DEF IInv, TypeOK, MountVolume, At, Worker, ThreadsOK, WorkerOK
<1>2. /\ thread' = [thread EXCEPT ![t] = None]
      /\ died' = died
      /\ state' \in [Service -> State]
      /\ volumes' \in [VolName ->
                         [node : Node, dev : 0..MaxDev] \cup {None}]
  <2>1. /\ thread' = [thread EXCEPT ![t] = None]
        /\ died' = died
        /\ state' \in [Service -> State]
    BY <1>1 DEF MountVolume, Finish, Done, IInv, TypeOK, State
  <2> DEFINE rec == [node |-> thread[t].at, dev |-> thread[t].dev]
  <2>2. rec \in [node : Node, dev : 0..MaxDev]
    BY <1>1
  <2>3. \/ volumes' = volumes
        \/ volumes' = [volumes EXCEPT ![thread[t].vol] = rec]
    BY DEF MountVolume
  <2>4. volumes \in [VolName -> [node : Node, dev : 0..MaxDev] \cup {None}]
    BY DEF IInv, TypeOK
  <2> HIDE DEF rec
  <2> QED BY <1>1, <2>1, <2>2, <2>3, <2>4
<1>3. /\ thread' \in [Thread -> Worker \cup {None}]
      /\ NodesLive' /\ ReleasedOnce' /\ ListsOK' /\ ThreadsOK'
  BY <1>2, EndOK, SlotStep DEF MountVolume
<1>4. TypeOK' /\ RequestOK'
  BY <1>2, <1>3 DEF MountVolume, IInv, TypeOK, RequestOK
<1> QED BY <1>3, <1>4 DEF IInv

\* _do_delete_volume takes an entry out of the table.
LEMMA DestroyVolumeStep ==
    ASSUME IInv, NEW t \in Thread, DestroyVolume(t)
    PROVE  IInv'
<1>1. /\ thread[t] \in Worker /\ thread[t].sid \in Service
      /\ thread[t].vol \in VolName
  BY DEF IInv, TypeOK, DestroyVolume, At, Worker, ThreadsOK, WorkerOK
<1>2. /\ thread' = [thread EXCEPT ![t] = None]
      /\ died' \subseteq Service
      /\ state' \in [Service -> State]
      /\ volumes' \in [VolName ->
                         [node : Node, dev : 0..MaxDev] \cup {None}]
  BY <1>1 DEF DestroyVolume, Finish, Done, Die, IInv, TypeOK, State
<1>3. /\ thread' \in [Thread -> Worker \cup {None}]
      /\ NodesLive' /\ ReleasedOnce' /\ ListsOK' /\ ThreadsOK'
  BY <1>2, EndOK, SlotStep DEF DestroyVolume
<1>4. TypeOK' /\ RequestOK'
  BY <1>2, <1>3 DEF DestroyVolume, IInv, TypeOK, RequestOK
<1> QED BY <1>3, <1>4 DEF IInv

-----------------------------------------------------------------------------
(* New nodes. *)

\* A list goes on with nodes that it does not have.
LEMMA NoTwiceConcat ==
    ASSUME NEW p \in Seq(Item), NEW q \in Seq(Item), NoTwice(p), NoTwice(q),
           ToSet(p) \cap ToSet(q) \subseteq {Junk}
    PROVE  NoTwice(p \o q)
<1> DEFINE r == p \o q
<1>1. /\ Len(r) = Len(p) + Len(q)
      /\ Len(p) \in Nat /\ Len(q) \in Nat
      /\ \A i \in 1..Len(p) : r[i] = p[i]
      /\ \A i \in 1..Len(q) : r[Len(p) + i] = q[i]
      /\ DOMAIN p = 1..Len(p) /\ DOMAIN q = 1..Len(q)
  OBVIOUS
<1> HIDE DEF r
<1>2. \A i \in 1..Len(r) :
        \/ i \in 1..Len(p) /\ r[i] = p[i]
        \/ \E j \in 1..Len(q) : i = Len(p) + j /\ r[i] = q[j]
  <2>1. TAKE i \in 1..Len(r)
  <2>2. CASE i <= Len(p)
    BY <1>1, <2>2
  <2>3. CASE i > Len(p)
    <3>1. i - Len(p) \in 1..Len(q) /\ i = Len(p) + (i - Len(p))
      BY <1>1, <2>3
    <3>2. r[Len(p) + (i - Len(p))] = q[i - Len(p)]
      BY <1>1, <3>1
    <3> QED BY <3>1, <3>2
  <2> QED BY <1>1, <2>2, <2>3
<1>3. SUFFICES ASSUME NEW i \in 1..Len(r), NEW j \in 1..Len(r),
                      r[i] = r[j], r[i] # Junk
               PROVE  i = j
  BY DEF NoTwice, r
<1>4. ASSUME NEW a \in 1..Len(p), NEW b \in 1..Len(q), p[a] = q[b]
      PROVE  p[a] = Junk
  BY <1>1, <1>4 DEF ToSet
<1>5. CASE i \in 1..Len(p) /\ r[i] = p[i]
  BY <1>2, <1>3, <1>4, <1>5 DEF NoTwice
<1>6. CASE \E k \in 1..Len(q) : i = Len(p) + k /\ r[i] = q[k]
  BY <1>2, <1>3, <1>4, <1>6 DEF NoTwice
<1> QED BY <1>2, <1>5, <1>6

\* Nobody in the manager knows a node that has no owner yet.
LEMMA Unknown ==
    ASSUME IInv, NEW n \in Node, owner[n] = None
    PROVE  /\ n \notin up /\ n \notin nodes /\ n # Junk
           /\ \A s \in Service : n \notin ToSet(snodes[s])
           /\ \A t \in Thread : thread[t] # None =>
                n \notin thread[t].gone /\ n \notin ToSet(thread[t].nodes)
<1>1. n \notin up /\ n # Junk
  BY NodeAssumption DEF IInv, ListsOK
<1>2. n \notin nodes
  BY <1>1 DEF IInv, NodesLive
<1>3. \A s \in Service : n \notin ToSet(snodes[s])
  BY <1>2 DEF IInv, NodesLive
<1>4. ASSUME NEW t \in Thread, thread[t] # None
      PROVE  n \notin thread[t].gone /\ n \notin ToSet(thread[t].nodes)
  <2>1. thread[t].sid # None
    BY <1>4, NoneAssumption DEF IInv, TypeOK, Worker, Service
  <2>2. n \notin thread[t].gone
    BY <1>1, <1>4 DEF IInv, ReleasedOnce
  <2>3. n \notin ToSet(thread[t].nodes)
    BY <1>1, <1>4, <2>1 DEF IInv, ThreadsOK, WorkerOK
  <2> QED BY <2>2, <2>3
<1> QED BY <1>1, <1>2, <1>3, <1>4

\* The director starts nodes that the manager does not hear of.
LEMMA CreateLostStep ==
    ASSUME IInv, NEW t \in Thread, CreateLost(t)
    PROVE  IInv'
<1> DEFINE s == thread[t].sid
<1>1. /\ thread[t] \in Worker /\ s \in Service
      /\ thread[t].count \in Nat
      /\ thread \in [Thread -> Worker \cup {None}]
  BY BoundAssumption DEF IInv, TypeOK, CreateLost, At, Worker
<1>2. PICK k \in 1..thread[t].count : \E q \in Fresh(k) : Launch(q, s)
  BY DEF CreateLost
<1>3. PICK q \in Fresh(k) : Launch(q, s)
  BY <1>2
<1> DEFINE F == ToSet(q)
<1>4. F \subseteq Node /\ \A n \in F : owner[n] = None
  BY <1>1, <1>2, FreshNodes
<1>5. /\ up' = up \cup F
      /\ owner' = [n \in Node |-> IF n \in F THEN s ELSE owner[n]]
      /\ UNCHANGED <<nodes, snodes>>
      /\ thread' = [thread EXCEPT ![t] = None] /\ died' = died \cup {s}
  BY <1>3 DEF Launch, CreateLost, Die
<1> HIDE DEF F
<1>6. /\ thread' \in [Thread -> Worker \cup {None}]
      /\ \A u \in Thread : thread'[u] # None => thread'[u] = thread[u]
  BY <1>1, <1>5
<1>7. TypeOK' /\ RequestOK'
  <2>1. /\ up' \subseteq Node /\ owner' \in [Node -> Service \cup {None}]
        /\ died' \subseteq Service
    BY <1>1, <1>4, <1>5 DEF IInv, TypeOK
  <2> QED BY <1>6, <2>1 DEF CreateLost, IInv, TypeOK, RequestOK
<1>8. nodes \subseteq Item /\ \A u \in Service : snodes[u] \in Seq(Item)
  BY DEF IInv, TypeOK
<1>9. \A n \in Node : n \notin F => owner'[n] = owner[n]
  BY <1>5
<1>10. NodesLive'
  <2>1. nodes \subseteq up' \cup {Junk}
    BY <1>5 DEF IInv, NodesLive
  <2>2. ASSUME NEW u \in Service, NEW n \in ToSet(snodes[u]) \ {Junk}
        PROVE  owner'[n] = u
    <3>1. n \in Node /\ owner[n] = u
      BY <1>8 DEF IInv, NodesLive, Item
    <3> QED BY <1>4, <1>9, <3>1, Unknown
  <2> QED BY <1>5, <2>1, <2>2 DEF IInv, NodesLive
<1>11. ReleasedOnce'
  <2>1. ASSUME NEW u \in Thread, thread'[u] # None
        PROVE  /\ thread'[u].gone \subseteq up' \ nodes
               /\ \A n \in thread'[u].gone : owner'[n] = thread'[u].sid
    <3>1. thread[u].gone \subseteq up \ nodes /\ thread[u] # None
      BY <1>6, <2>1 DEF IInv, ReleasedOnce
    <3>2. up \subseteq Node
      BY DEF IInv, TypeOK
    <3> QED BY <1>4, <1>5, <1>6, <1>9, <2>1, <3>1, <3>2, Unknown
            DEF IInv, ReleasedOnce
  <2>2. ASSUME NEW u \in Thread, NEW v \in Thread \ {u},
               thread'[u] # None, thread'[v] # None
        PROVE  thread'[u].gone \cap thread'[v].gone = {}
    BY <1>6, <2>2 DEF IInv, ReleasedOnce
  <2> QED BY <1>5, <2>1, <2>2 DEF ReleasedOnce
<1>12. ListsOK'
  <2>1. \A n \in up' : owner'[n] # None
    BY <1>1, <1>4, <1>5, NoneAssumption DEF IInv, ListsOK, TypeOK, Service
  <2> QED BY <1>5, <2>1 DEF IInv, ListsOK
<1>13. ThreadsOK'
  <2>1. SUFFICES ASSUME NEW u \in Thread, thread'[u] # None
                 PROVE  WorkerOK(thread[u])'
    BY DEF ThreadsOK
  <2>2. thread'[u] = thread[u] /\ WorkerOK(thread[u]) /\ thread[u] \in Worker
    BY <1>1, <1>6, <2>1 DEF IInv, ThreadsOK
  <2>3. \A n \in ToSet(thread[u].nodes) \ {Junk} : owner'[n] = owner[n]
    <3>1. ToSet(thread[u].nodes) \subseteq Item
      BY <2>2 DEF Worker, ToSet
    <3> QED BY <1>4, <1>9, <2>1, <2>2, <3>1, Unknown DEF Item
  <2> QED BY <1>5, <2>2, <2>3 DEF WorkerOK
<1> QED BY <1>7, <1>10, <1>11, <1>12, <1>13 DEF IInv

\* A worker puts the nodes of a reply q, of which F are real and new, on the
\* lists: nothing that was known changes its owner.
LEMMA DeliverStep ==
    ASSUME IInv, NEW t \in Thread, At(t, {"start", "add"}, "call"),
           NEW q \in Seq(Item), q # <<>>, NoTwice(q),
           NEW F, F = ToSet(q) \ {Junk},
           \A n \in F : n \in Node /\ owner[n] = None,
           up' = up \cup F,
           owner' = [n \in Node |-> IF n \in F THEN thread[t].sid ELSE owner[n]],
           Deliver(t, q),
           UNCHANGED <<mstate, service_id, instances, state, master, agents,
                       volumes, request, stops>>
    PROVE  IInv'
<1> DEFINE s == thread[t].sid
           w == [thread[t] EXCEPT !.pc = "hook", !.nodes = q]
           new == IF thread[t].op = "add" THEN snodes[s] \o q ELSE q
<1>1. /\ thread[t] \in Worker /\ WorkerOK(thread[t]) /\ thread[t] # None
      /\ s \in Service /\ thread \in [Thread -> Worker \cup {None}]
      /\ thread[t].op \in {"start", "add"}
      /\ snodes \in [Service -> Seq(Item)] /\ snodes[s] \in Seq(Item)
      /\ nodes \subseteq Item /\ up \subseteq Node
      /\ owner \in [Node -> Service \cup {None}] /\ died \subseteq Service
  BY DEF IInv, TypeOK, At, Worker, ThreadsOK
<1>2. /\ nodes' = nodes \cup ToSet(q)
      /\ ToSet(q) \subseteq Item /\ ToSet(q) \subseteq F \cup {Junk}
  BY DEF Deliver, ToSet
<1>3. /\ w \in Worker /\ w.op = thread[t].op /\ w.pc = "hook" /\ w.sid = s
      /\ w.nodes = q /\ w.gone = thread[t].gone
      /\ w.count = thread[t].count
  BY <1>1 DEF Worker, Pc
<1>4. \/ /\ thread' = [thread EXCEPT ![t] = None]
         /\ died' = died \cup {s} /\ snodes' = snodes
      \/ /\ thread' = [thread EXCEPT ![t] = w]
         /\ died' = died /\ snodes' = [snodes EXCEPT ![s] = new]
  BY DEF Deliver, Die
<1>5. /\ new \in Seq(Item) /\ NoTwice(new)
      /\ ToSet(new) \subseteq ToSet(snodes[s]) \cup ToSet(q)
  <2>1. CASE thread[t].op = "add"
    <3>1. ToSet(snodes[s]) \cap ToSet(q) \subseteq {Junk}
      BY <1>1, <1>2, Unknown
    <3>2. NoTwice(snodes[s])
      BY <1>1 DEF IInv, ListsOK
    <3> QED BY <1>1, <2>1, <3>1, <3>2, ConcatElements, NoTwiceConcat
  <2>2. CASE thread[t].op # "add"
    BY <2>2
  <2> QED BY <2>1, <2>2
<1> HIDE DEF w, new
<1>6. /\ thread' \in [Thread -> Worker \cup {None}]
      /\ \A u \in Thread \ {t} : thread'[u] = thread[u]
      /\ thread'[t] = None \/ thread'[t] = w
      /\ snodes' \in [Service -> Seq(Item)]
      /\ \A u \in Service \ {s} : snodes'[u] = snodes[u]
      /\ snodes'[s] = snodes[s] \/ snodes'[s] = new
      /\ died' \subseteq Service
  BY <1>1, <1>3, <1>4, <1>5
<1>7. \A n \in Node : n \notin F => owner'[n] = owner[n]
  OBVIOUS
<1>8. TypeOK' /\ RequestOK'
  <2>1. /\ nodes' \subseteq Item /\ up' \subseteq Node
        /\ owner' \in [Node -> Service \cup {None}]
    BY <1>1, <1>2
  <2> QED BY <1>6, <2>1 DEF IInv, TypeOK, RequestOK
<1>9. \A u \in Service : ToSet(snodes'[u]) \subseteq ToSet(snodes[u]) \cup ToSet(q)
  BY <1>5, <1>6
<1>10. NodesLive'
  <2>1. nodes' \subseteq up' \cup {Junk}
    BY <1>2 DEF IInv, NodesLive
  <2>2. ASSUME NEW u \in Service PROVE ToSet(snodes'[u]) \subseteq nodes'
    BY <1>2, <1>9 DEF IInv, NodesLive
  <2>3. ASSUME NEW u \in Service, NEW n \in ToSet(snodes'[u]) \ {Junk}
        PROVE  owner'[n] = u
    <3>1. CASE n \in ToSet(snodes[u])
      <4>1. n \in Node /\ owner[n] = u
        BY <1>1, <3>1 DEF IInv, NodesLive, Item
      <4> QED BY <1>7, <3>1, <4>1, Unknown
    <3>2. CASE n \notin ToSet(snodes[u])
      <4>1. n \in F /\ u = s
        BY <1>2, <1>6, <1>9, <3>2
      <4> QED BY <4>1
    <3> QED BY <3>1, <3>2
  <2>4. \A u \in Service : /\ ToSet(snodes'[u]) \subseteq nodes'
                           /\ \A n \in ToSet(snodes'[u]) \ {Junk} : owner'[n] = u
    BY <2>2, <2>3
  <2> QED BY <2>1, <2>4 DEF NodesLive
<1>11. ReleasedOnce'
  <2>1. ASSUME NEW u \in Thread, thread'[u] # None
        PROVE  /\ thread[u] # None /\ thread'[u].gone = thread[u].gone
               /\ thread'[u].sid = thread[u].sid
    BY <1>1, <1>3, <1>6, <2>1
  <2>2. ASSUME NEW u \in Thread, thread'[u] # None
        PROVE  /\ thread'[u].gone \subseteq up' \ nodes'
               /\ \A n \in thread'[u].gone : owner'[n] = thread'[u].sid
    <3>1. /\ thread[u].gone \subseteq up \ nodes
          /\ \A n \in thread[u].gone : owner[n] = thread[u].sid
      BY <2>1, <2>2 DEF IInv, ReleasedOnce
    <3>2. thread[u].gone \cap F = {} /\ Junk \notin thread[u].gone
      BY <1>1, <2>1, <2>2, <3>1, Unknown, NodeAssumption
    <3> QED BY <1>1, <1>2, <1>7, <2>1, <2>2, <3>1, <3>2
  <2>3. ASSUME NEW u \in Thread, NEW v \in Thread \ {u},
               thread'[u] # None, thread'[v] # None
        PROVE  thread'[u].gone \cap thread'[v].gone = {}
    BY <2>1, <2>3 DEF IInv, ReleasedOnce
  <2> QED BY <2>2, <2>3 DEF ReleasedOnce
<1>12. ListsOK'
  <2>1. \A n \in up' : owner'[n] # None
    BY <1>1, NoneAssumption DEF IInv, ListsOK, Service
  <2>2. \A u \in Service : NoTwice(snodes'[u])
    BY <1>5, <1>6 DEF IInv, ListsOK
  <2> QED BY <2>1, <2>2 DEF ListsOK, NoTwice
<1>13. ThreadsOK'
  <2>1. SUFFICES ASSUME NEW u \in Thread, thread'[u] # None
                 PROVE  WorkerOK(thread[u])'
    BY DEF ThreadsOK
  <2>2. CASE u = t
    <3>1. \A n \in ToSet(q) \ {Junk} : owner'[n] = s
      BY <1>2
    <3> QED BY <1>1, <1>3, <1>6, <2>1, <2>2, <3>1 DEF WorkerOK
  <2>3. CASE u # t
    <3>1. thread'[u] = thread[u] /\ WorkerOK(thread[u]) /\ thread[u] \in Worker
          /\ thread[u].sid \in Service
      BY <1>1, <1>6, <2>1, <2>3 DEF IInv, ThreadsOK, Worker
    <3>2. /\ ToSet(thread[u].nodes) \subseteq Item
          /\ ToSet(thread[u].nodes) \cap F = {}
      <4>1. ToSet(thread[u].nodes) \subseteq Item
        BY <3>1 DEF Worker, ToSet
      <4>2. ToSet(thread[u].nodes) \cap F = {}
        BY <2>1, <3>1, Unknown
      <4> QED BY <4>1, <4>2
    <3>3. \A n \in ToSet(thread[u].nodes) \ {Junk} : owner'[n] = owner[n]
      BY <1>7, <3>2 DEF Item
    <3>4. ToSet(thread[u].nodes) \cap ({Junk} \cup ToSet(snodes[thread[u].sid]))
            = {} =>
          ToSet(thread[u].nodes) \cap ({Junk} \cup ToSet(snodes'[thread[u].sid]))
            = {}
      BY <1>2, <1>9, <3>1, <3>2
    <3> QED BY <3>1, <3>3, <3>4 DEF WorkerOK
  <2> QED BY <2>2, <2>3
<1> QED BY <1>8, <1>10, <1>11, <1>12, <1>13 DEF IInv

\* callbacker.create_nodes delivers new nodes: a case of DeliverStep.
LEMMA CreateNodesStep ==
    ASSUME IInv, NEW t \in Thread, CreateNodes(t)
    PROVE  IInv'
<1>1. thread[t].count \in Nat
  BY BoundAssumption DEF IInv, TypeOK, CreateNodes, At, Worker
<1>2. PICK k \in 1..thread[t].count :
        \E q \in Fresh(k) : Launch(q, thread[t].sid) /\ Deliver(t, q)
  BY DEF CreateNodes
<1>3. PICK q \in Fresh(k) : Launch(q, thread[t].sid) /\ Deliver(t, q)
  BY <1>2
<1>4. /\ q \in Seq(Node) /\ q # <<>> /\ NoTwice(q)
      /\ \A n \in ToSet(q) : n \in Node /\ owner[n] = None
  BY <1>1, <1>2, FreshNodes
<1>5. q \in Seq(Item)
  BY <1>4 DEF Item
<1>6. ToSet(q) = ToSet(q) \ {Junk}
  BY <1>4, NodeAssumption
<1>7. /\ up' = up \cup ToSet(q)
      /\ owner' = [n \in Node |->
                     IF n \in ToSet(q) THEN thread[t].sid ELSE owner[n]]
  BY <1>3 DEF Launch
<1> QED BY <1>3, <1>4, <1>5, <1>6, <1>7, DeliverStep DEF CreateNodes

\* The director's error reply delivers its key: a case of DeliverStep.
LEMMA CreateRefusedStep ==
    ASSUME IInv, NEW t \in Thread, CreateRefused(t)
    PROVE  IInv'
<1>1. /\ ErrorReply \in Seq(Item) /\ ErrorReply # <<>> /\ NoTwice(ErrorReply)
      /\ ToSet(ErrorReply) = {Junk}
  BY DEF ErrorReply, Item, NoTwice, ToSet
<1>2. up' = up \cup {} /\ {} = ToSet(ErrorReply) \ {Junk}
  BY <1>1 DEF CreateRefused
<1>3. owner' = [n \in Node |-> IF n \in {} THEN thread[t].sid ELSE owner[n]]
  BY DEF CreateRefused, IInv, TypeOK
<1> QED BY <1>1, <1>2, <1>3, DeliverStep DEF CreateRefused

-----------------------------------------------------------------------------
(* Nodes that go. *)

\* _do_stop_service empties the list of a service whose nodes the worker has.
LEMMA ClearServiceStep ==
    ASSUME IInv, NEW t \in Thread, ClearService(t)
    PROVE  IInv'
<1> DEFINE s == thread[t].sid
           pc == IF thread[t].nodes = <<>> THEN "release" ELSE "drop"
           w == [thread[t] EXCEPT !.pc = pc]
<1>1. /\ thread[t] \in Worker /\ WorkerOK(thread[t]) /\ thread[t] # None
      /\ s \in Service /\ thread \in [Thread -> Worker \cup {None}]
      /\ thread[t].op \in {"stop", "unregister"} /\ thread[t].pc = "clear"
      /\ snodes \in [Service -> Seq(Item)] /\ state \in [Service -> State]
  BY DEF IInv, TypeOK, ClearService, At, Worker, ThreadsOK
<1>2. /\ w \in Worker /\ w.op = thread[t].op /\ w.pc = pc /\ w.sid = s
      /\ w.nodes = thread[t].nodes /\ w.gone = thread[t].gone
  <2>1. pc \in Pc
    BY DEF Pc
  <2> HIDE DEF pc
  <2> QED BY <1>1, <2>1, WorkerMoves
<1>3. thread' = [thread EXCEPT ![t] = w]
  BY DEF ClearService, Goto
<1> HIDE DEF w
<1>4. /\ thread' \in [Thread -> Worker \cup {None}] /\ thread'[t] = w
      /\ \A u \in Thread \ {t} : thread'[u] = thread[u]
  BY <1>1, <1>2, <1>3
<1>5. /\ snodes' \in [Service -> Seq(Item)] /\ snodes'[s] = <<>>
      /\ \A u \in Service \ {s} : snodes'[u] = snodes[u]
      /\ state' \in [Service -> State]
  BY <1>1 DEF ClearService, State
<1>6. ToSet(<<>>) = {} /\ NoTwice(<<>>)
  BY DEF ToSet, NoTwice
<1>7. TypeOK' /\ RequestOK'
  BY <1>4, <1>5 DEF ClearService, IInv, TypeOK, RequestOK
<1>8. \A u \in Service : ToSet(snodes'[u]) \subseteq ToSet(snodes[u])
  BY <1>5, <1>6
<1>9. NodesLive'
  BY <1>8 DEF ClearService, IInv, NodesLive
<1>10. ReleasedOnce'
  BY <1>1, <1>2, <1>4 DEF ClearService, IInv, ReleasedOnce
<1>11. ListsOK'
  <2>1. \A u \in Service : NoTwice(snodes'[u])
    BY <1>5, <1>6 DEF IInv, ListsOK
  <2> QED BY <2>1 DEF ClearService, IInv, ListsOK, NoTwice
<1>12. ThreadsOK'
  <2>1. SUFFICES ASSUME NEW u \in Thread, thread'[u] # None
                 PROVE  WorkerOK(thread[u])'
    BY DEF ThreadsOK
  <2>2. owner' = owner
    BY DEF ClearService
  <2>3. CASE u = t
    BY <1>1, <1>2, <1>4, <1>5, <1>6, <2>2, <2>3 DEF WorkerOK
  <2>4. CASE u # t
    <3>1. thread'[u] = thread[u] /\ WorkerOK(thread[u])
          /\ thread[u].sid \in Service
      BY <1>1, <1>4, <2>1, <2>4 DEF IInv, ThreadsOK, Worker
    <3> QED BY <1>8, <2>2, <3>1 DEF WorkerOK
  <2> QED BY <2>3, <2>4
<1> QED BY <1>7, <1>9, <1>10, <1>11, <1>12 DEF IInv

\* A round of the loop that drops nodes: the node leaves self.nodes once, and it
\* is this worker that takes it.
LEMMA DropNodeStep ==
    ASSUME IInv, NEW t \in Thread, DropNode(t)
    PROVE  IInv'
<1> DEFINE s == thread[t].sid
           n == Head(thread[t].nodes)
           pc == IF Tail(thread[t].nodes) = <<>> THEN "release" ELSE "drop"
           w == [thread[t] EXCEPT !.nodes = Tail(@), !.gone = @ \cup {n},
                                  !.pc = pc]
           places == {i \in 1..Len(snodes[s]) : snodes[s][i] = n}
<1>1. /\ thread[t] \in Worker /\ WorkerOK(thread[t]) /\ thread[t] # None
      /\ s \in Service /\ thread \in [Thread -> Worker \cup {None}]
      /\ thread[t].op \in {"remove", "stop", "unregister"}
      /\ thread[t].pc = "drop"
      /\ thread[t].nodes \in Seq(Item) /\ thread[t].gone \subseteq Node
      /\ snodes \in [Service -> Seq(Item)] /\ nodes \subseteq Item
      /\ snodes[s] \in Seq(Item)
  BY DEF IInv, TypeOK, DropNode, At, Worker, ThreadsOK
<1>2. /\ Tail(thread[t].nodes) \in Seq(Item)
      /\ ToSet(Tail(thread[t].nodes)) \subseteq ToSet(thread[t].nodes)
      /\ n \in ToSet(thread[t].nodes)
  BY <1>1, TailElements DEF WorkerOK
<1>3. /\ UNCHANGED <<mstate, service_id, instances, state, master, agents,
                     request, up, owner, stops>>
      /\ nodes' = IF Listed(n) THEN nodes \ {n} ELSE nodes
      /\ DeleteVolumes(n)
  BY DEF DropNode
<1>4. Listed(n) => n \in Node /\ n \in nodes /\ n # Junk /\ owner[n] = s
  BY <1>1, <1>2 DEF Listed, Item, WorkerOK
<1>5. \/ /\ Listed(n) /\ thread[t].op # "remove" /\ snodes' = snodes
         /\ died' = died /\ thread' = [thread EXCEPT ![t] = w]
      \/ /\ Listed(n) /\ thread[t].op = "remove"
         /\ \E i \in places : snodes' = [snodes EXCEPT ![s] = RemoveAt(@, i)]
         /\ died' = died /\ thread' = [thread EXCEPT ![t] = w]
      \/ /\ ~Listed(n) \/ (thread[t].op = "remove" /\ places = {})
         /\ snodes' = snodes /\ died' = died \cup {s}
         /\ thread' = [thread EXCEPT ![t] = None]
  BY DEF DropNode, NextNode, Die
<1>6. Listed(n) =>
      /\ w \in Worker /\ w.op = thread[t].op /\ w.pc = pc /\ w.sid = s
      /\ w.nodes = Tail(thread[t].nodes) /\ w.gone = thread[t].gone \cup {n}
      /\ w.count = thread[t].count
  <2>1. pc \in Pc
    BY DEF Pc
  <2> HIDE DEF pc
  <2> QED BY <1>1, <1>2, <1>4, <2>1 DEF Worker
<1>7. /\ snodes' \in [Service -> Seq(Item)]
      /\ \A u \in Service : /\ ToSet(snodes'[u]) \subseteq ToSet(snodes[u])
                            /\ NoTwice(snodes'[u])
      /\ Listed(n) => n \notin ToSet(snodes'[s])
  <2>1. \A u \in Service : NoTwice(snodes[u])
    BY DEF IInv, ListsOK
  <2>2. CASE snodes' = snodes
    <3>1. Listed(n) => n \notin ToSet(snodes[s])
      <4>1. CASE thread[t].op = "remove" /\ places = {}
        <5> HIDE DEF n, s
        <5>1. DOMAIN snodes[s] = 1..Len(snodes[s])
          BY <1>1
        <5> QED BY <4>1, <5>1 DEF ToSet
      <4>2. CASE thread[t].op # "remove"
        BY <1>1, <1>2, <4>2 DEF WorkerOK
      <4>3. CASE \E i \in places : snodes' = [snodes EXCEPT ![s] = RemoveAt(@, i)]
        <5>1. PICK i \in places : snodes' = [snodes EXCEPT ![s] = RemoveAt(@, i)]
          BY <4>3
        <5>2. snodes[s] = RemoveAt(snodes[s], i)
          BY <1>1, <2>2, <5>1
        <5> QED BY <1>1, <1>4, <2>1, <5>1, <5>2, RemoveAtElements
      <4> QED BY <1>5, <4>1, <4>2, <4>3
    <3> QED BY <1>1, <2>1, <2>2, <3>1
  <2>3. ASSUME NEW i \in places, snodes' = [snodes EXCEPT ![s] = RemoveAt(@, i)]
        PROVE  /\ snodes' \in [Service -> Seq(Item)]
               /\ \A u \in Service :
                    /\ ToSet(snodes'[u]) \subseteq ToSet(snodes[u])
                    /\ NoTwice(snodes'[u])
               /\ Listed(n) => n \notin ToSet(snodes'[s])
    <3>1. i \in 1..Len(snodes[s]) /\ snodes[s][i] = n
      OBVIOUS
    <3>2. /\ RemoveAt(snodes[s], i) \in Seq(Item)
          /\ ToSet(RemoveAt(snodes[s], i)) \subseteq ToSet(snodes[s])
          /\ NoTwice(RemoveAt(snodes[s], i))
          /\ n # Junk => n \notin ToSet(RemoveAt(snodes[s], i))
      BY <1>1, <2>1, <3>1, RemoveAtElements
    <3>3. /\ snodes'[s] = RemoveAt(snodes[s], i)
          /\ \A u \in Service \ {s} : snodes'[u] = snodes[u]
          /\ snodes' \in [Service -> Seq(Item)]
      BY <1>1, <2>3, <3>2
    <3> QED BY <1>4, <2>1, <3>2, <3>3
  <2> QED BY <1>5, <2>2, <2>3
<1> HIDE DEF w, pc, places
<1>8. /\ thread' \in [Thread -> Worker \cup {None}]
      /\ \A u \in Thread \ {t} : thread'[u] = thread[u]
      /\ thread'[t] = None \/ (Listed(n) /\ thread'[t] = w)
      /\ died' \subseteq Service
  <2>1. died' \subseteq Service
    BY <1>1, <1>5 DEF IInv, TypeOK
  <2>2. CASE Listed(n) /\ thread' = [thread EXCEPT ![t] = w]
    BY <1>1, <1>6, <2>1, <2>2
  <2>3. CASE thread' = [thread EXCEPT ![t] = None]
    BY <1>1, <2>1, <2>3
  <2> QED BY <1>5, <2>2, <2>3
<1>9. nodes' \subseteq nodes /\ (Listed(n) => n \notin nodes')
      /\ (nodes \ nodes') \subseteq {n}
      /\ (nodes' # nodes => Listed(n))
  BY <1>3
<1>10. TypeOK' /\ RequestOK'
  <2>1. volumes' \in [VolName -> [node : Node, dev : 0..MaxDev] \cup {None}]
    BY <1>3 DEF DeleteVolumes, IInv, TypeOK
  <2>2. nodes' \subseteq Item
    BY <1>1, <1>9
  <2> QED BY <1>3, <1>7, <1>8, <2>1, <2>2 DEF IInv, TypeOK, RequestOK
<1>11. NodesLive'
  <2>1. nodes' \subseteq up' \cup {Junk}
    BY <1>3, <1>9 DEF IInv, NodesLive
  <2>2. ASSUME NEW u \in Service PROVE ToSet(snodes'[u]) \subseteq nodes'
    <3>1. ToSet(snodes'[u]) \subseteq nodes
      BY <1>7 DEF IInv, NodesLive
    <3>2. Listed(n) => n \notin ToSet(snodes'[u])
      <4>1. CASE u = s
        BY <1>7, <4>1
      <4>2. CASE u # s
        BY <1>4, <1>7, <4>2 DEF IInv, NodesLive
      <4> QED BY <4>1, <4>2
    <3> QED BY <1>9, <3>1, <3>2
  <2>3. ASSUME NEW u \in Service, NEW m \in ToSet(snodes'[u]) \ {Junk}
        PROVE  owner'[m] = u
    BY <1>3, <1>7 DEF IInv, NodesLive
  <2>4. \A u \in Service : /\ ToSet(snodes'[u]) \subseteq nodes'
                           /\ \A m \in ToSet(snodes'[u]) \ {Junk} : owner'[m] = u
    BY <2>2, <2>3
  <2> QED BY <2>1, <2>4 DEF NodesLive
<1>12. ReleasedOnce'
  <2>1. ASSUME NEW u \in Thread, thread'[u] # None
        PROVE  /\ thread[u] # None /\ thread'[u].sid = thread[u].sid
               /\ \/ thread'[u].gone = thread[u].gone
                  \/ u = t /\ Listed(n) /\ thread'[u].gone = thread[u].gone \cup {n}
    BY <1>1, <1>6, <1>8, <2>1
  <2>2. ASSUME NEW u \in Thread, thread[u] # None
        PROVE  /\ thread[u].gone \subseteq up \ nodes
               /\ \A m \in thread[u].gone : owner[m] = thread[u].sid
               /\ \A v \in Thread \ {u} :
                    thread[v] # None => thread[u].gone \cap thread[v].gone = {}
    BY <2>2 DEF IInv, ReleasedOnce
  <2>3. Listed(n) => n \in up
    BY <1>4 DEF IInv, NodesLive
  <2>4. ASSUME NEW u \in Thread, thread'[u] # None
        PROVE  /\ thread'[u].gone \subseteq up' \ nodes'
               /\ \A m \in thread'[u].gone : owner'[m] = thread'[u].sid
    <3>1. CASE thread'[u].gone = thread[u].gone
      BY <1>3, <1>9, <2>1, <2>2, <2>4, <3>1
    <3>2. CASE u = t /\ Listed(n) /\ thread'[u].gone = thread[u].gone \cup {n}
      BY <1>3, <1>4, <1>9, <2>1, <2>2, <2>3, <2>4, <3>2
    <3> QED BY <2>1, <2>4, <3>1, <3>2
  <2>5. ASSUME NEW u \in Thread, NEW v \in Thread \ {u},
               thread'[u] # None, thread'[v] # None
        PROVE  thread'[u].gone \cap thread'[v].gone = {}
    <3>1. /\ thread[u].gone \cap thread[v].gone = {}
          /\ Listed(n) => n \notin thread[u].gone /\ n \notin thread[v].gone
      BY <1>4, <2>1, <2>2, <2>5
    <3> QED BY <2>1, <2>5, <3>1
  <2> QED BY <2>4, <2>5 DEF ReleasedOnce
<1>13. ListsOK'
  <2>1. \A u \in Service : NoTwice(snodes'[u])
    BY <1>7
  <2> QED BY <1>3, <2>1 DEF IInv, ListsOK, NoTwice
<1>14. ThreadsOK'
  <2>1. SUFFICES ASSUME NEW u \in Thread, thread'[u] # None
                 PROVE  WorkerOK(thread[u])'
    BY DEF ThreadsOK
  <2>2. CASE u = t
    <3>1. Listed(n) /\ thread'[u] = w
      BY <1>8, <2>1, <2>2
    <3>2. /\ w.op = thread[t].op /\ w.pc = pc /\ w.sid = s
          /\ w.nodes = Tail(thread[t].nodes) /\ w.count = thread[t].count
      BY <1>6, <3>1
    <3>3. pc = IF w.nodes = <<>> THEN "release" ELSE "drop"
      BY <3>2 DEF pc
    <3>4. (w.op # "remove" /\ w.pc = "drop") =>
            ToSet(w.nodes) \cap ({Junk} \cup ToSet(snodes'[s])) = {}
      BY <1>1, <1>2, <1>7, <3>2 DEF WorkerOK
    <3>5. \A m \in ToSet(w.nodes) \ {Junk} : owner'[m] = s
      BY <1>1, <1>2, <1>3, <3>2 DEF WorkerOK
    <3> HIDE DEF s
    <3> QED BY <1>1, <3>1, <3>2, <3>3, <3>4, <3>5 DEF WorkerOK
  <2>3. CASE u # t
    <3>1. thread'[u] = thread[u] /\ WorkerOK(thread[u])
          /\ thread[u].sid \in Service
      BY <1>1, <1>8, <2>1, <2>3 DEF IInv, ThreadsOK, Worker
    <3> QED BY <1>3, <1>7, <3>1 DEF WorkerOK
  <2> QED BY <2>2, <2>3
<1> QED BY <1>10, <1>11, <1>12, <1>13, <1>14 DEF IInv

\* callbacker.remove_nodes ends nodes that are on no list and that no other
\* worker has taken.
LEMMA ReleaseStep ==
    ASSUME IInv, NEW t \in Thread, Release(t)
    PROVE  IInv'
<1> DEFINE w == [thread[t] EXCEPT !.pc = "forget", !.gone = {}]
<1>1. /\ thread[t] \in Worker /\ WorkerOK(thread[t]) /\ thread[t] # None
      /\ thread[t].sid \in Service /\ thread \in [Thread -> Worker \cup {None}]
      /\ thread[t].op \in {"remove", "stop", "unregister"}
      /\ thread[t].gone \subseteq Node
  BY DEF IInv, TypeOK, Release, At, Worker, ThreadsOK
<1>2. /\ w \in Worker /\ w.op = thread[t].op /\ w.pc = "forget"
      /\ w.sid = thread[t].sid /\ w.nodes = thread[t].nodes /\ w.gone = {}
      /\ w.count = thread[t].count
  BY <1>1 DEF Worker, Pc
<1>3. \/ thread' = [thread EXCEPT ![t] = w]
      \/ thread' = [thread EXCEPT ![t] = None]
  BY <1>1 DEF Release
<1>4. /\ UNCHANGED <<mstate, service_id, instances, state, nodes, snodes,
                     master, agents, volumes, request, owner, stops>>
      /\ up' = up \/ up' = up \ thread[t].gone
      /\ died' = died \/ died' = died \cup {thread[t].sid}
  BY DEF Release
<1> HIDE DEF w
<1>5. /\ thread' \in [Thread -> Worker \cup {None}]
      /\ \A u \in Thread \ {t} : thread'[u] = thread[u]
      /\ thread'[t] = None \/ thread'[t] = w
  BY <1>1, <1>2, <1>3
<1>6. TypeOK' /\ RequestOK'
  <2>1. up' \subseteq Node /\ died' \subseteq Service
    BY <1>1, <1>4 DEF IInv, TypeOK
  <2> QED BY <1>4, <1>5, <2>1 DEF IInv, TypeOK, RequestOK
<1>7. NodesLive'
  <2>1. nodes \cap thread[t].gone = {}
    BY <1>1 DEF IInv, ReleasedOnce
  <2>2. nodes' \subseteq up' \cup {Junk}
    BY <1>4, <2>1 DEF IInv, NodesLive
  <2> QED BY <1>4, <2>2 DEF IInv, NodesLive
<1>8. ReleasedOnce'
  <2>1. ASSUME NEW u \in Thread, thread'[u] # None
        PROVE  /\ thread[u] # None /\ thread'[u].sid = thread[u].sid
               /\ \/ u # t /\ thread'[u].gone = thread[u].gone
                  \/ thread'[u].gone = {}
    BY <1>1, <1>2, <1>5, <2>1
  <2>2. ASSUME NEW u \in Thread, thread[u] # None
        PROVE  /\ thread[u].gone \subseteq up \ nodes
               /\ \A m \in thread[u].gone : owner[m] = thread[u].sid
               /\ \A v \in Thread \ {u} :
                    thread[v] # None => thread[u].gone \cap thread[v].gone = {}
    BY <2>2 DEF IInv, ReleasedOnce
  <2>3. ASSUME NEW u \in Thread, thread'[u] # None
        PROVE  /\ thread'[u].gone \subseteq up' \ nodes'
               /\ \A m \in thread'[u].gone : owner'[m] = thread'[u].sid
    <3>1. CASE thread'[u].gone = {}
      BY <3>1
    <3>2. CASE u # t /\ thread'[u].gone = thread[u].gone
      BY <1>1, <1>4, <2>1, <2>2, <2>3, <3>2
    <3> QED BY <2>1, <2>3, <3>1, <3>2
  <2>4. ASSUME NEW u \in Thread, NEW v \in Thread \ {u},
               thread'[u] # None, thread'[v] # None
        PROVE  thread'[u].gone \cap thread'[v].gone = {}
    BY <2>1, <2>2, <2>4
  <2> QED BY <2>3, <2>4 DEF ReleasedOnce
<1>9. ListsOK'
  BY <1>4 DEF IInv, ListsOK, NoTwice
<1>10. ThreadsOK'
  <2>1. SUFFICES ASSUME NEW u \in Thread, thread'[u] # None
                 PROVE  WorkerOK(thread[u])'
    BY DEF ThreadsOK
  <2>2. CASE u = t
    BY <1>1, <1>2, <1>4, <1>5, <2>1, <2>2 DEF WorkerOK
  <2>3. CASE u # t
    <3>1. thread'[u] = thread[u] /\ WorkerOK(thread[u])
      BY <1>5, <2>1, <2>3 DEF IInv, ThreadsOK
    <3> QED BY <1>4, <3>1 DEF WorkerOK
  <2> QED BY <2>2, <2>3
<1> QED BY <1>6, <1>7, <1>8, <1>9, <1>10 DEF IInv

-----------------------------------------------------------------------------
(* The theorems. *)

\* The application manager starts in order.
LEMMA InitOK == Init => IInv
<1> SUFFICES ASSUME Init PROVE IInv
  OBVIOUS
<1> USE DEF Init
<1>1. TypeOK
  BY BoundAssumption DEF TypeOK, State, Service
<1>2. NodesLive /\ ReleasedOnce /\ ListsOK /\ ThreadsOK /\ RequestOK
  BY DEF NodesLive, ReleasedOnce, ListsOK, NoTwice, ThreadsOK, RequestOK, ToSet
<1> QED BY <1>1, <1>2 DEF IInv

\* Every step of the server thread and of every worker keeps IInv.
LEMMA NextOK == IInv /\ [Next]_vars => IInv'
<1> SUFFICES ASSUME IInv, [Next]_vars PROVE IInv'
  OBVIOUS
<1>1. CASE UNCHANGED vars
  <2>1. TypeOK' /\ NodesLive' /\ ReleasedOnce'
    BY <1>1 DEF vars, IInv, TypeOK, NodesLive, ReleasedOnce
  <2>2. ListsOK' /\ RequestOK'
    BY <1>1 DEF vars, IInv, ListsOK, RequestOK
  <2>3. ThreadsOK'
    BY <1>1 DEF vars, IInv, ThreadsOK, WorkerOK
  <2> QED
    BY <2>1, <2>2, <2>3 DEF IInv
<1>2. CASE Handle \/ Refuse
  BY <1>2, ServerStep
<1>3. ASSUME NEW t \in Thread, Commit(t) PROVE IInv'
  BY <1>3, CommitStep
<1>4. ASSUME NEW t \in Thread, Work(t) PROVE IInv'
  BY <1>4, BeginStep, CreateNodesStep, CreateRefusedStep, CreateFailedStep,
     CreateLostStep, OnStartStep, OnAddStep, AddNotifyStep, OnRemoveStep,
     RemoveNotifyStep, OnStopStep, ClearServiceStep, DropNodeStep, ReleaseStep,
     ForgetStep, CreateVolumeStep, MountVolumeStep, DestroyVolumeStep DEF Work
<1> QED BY <1>1, <1>2, <1>3, <1>4 DEF Next, Serve

\* IInv is inductive.
THEOREM Inductive == Spec => []IInv
BY InitOK, NextOK, PTL DEF Spec

\* Every variable of the manager keeps its type, whatever calls fail.
THEOREM TypeCorrect == Spec => []TypeOK
<1>1. IInv => TypeOK
  BY DEF IInv
<1> QED BY <1>1, Inductive, PTL

\* The manager never lists a node that it has released, or that belongs to
\* another service, for any number of concurrent workers: _do_add_nodes,
\* _do_remove_nodes and _do_stop_service may race in any way.
THEOREM NodesStayLive == Spec => []NodesLive
<1>1. IInv => NodesLive
  BY DEF IInv
<1> QED BY <1>1, Inductive, PTL

\* No two workers hand the same node back to the director: the IndexError of
\* the filter over self.nodes stops the second one before callbacker.remove_nodes.
THEOREM NothingReleasedTwice == Spec => []ReleasedOnce
<1>1. IInv => ReleasedOnce
  BY DEF IInv
<1> QED BY <1>1, Inductive, PTL

-----------------------------------------------------------------------------
(* AppManager implements NodePool: the life of a virtual machine. *)


\* The nodes that slot t has taken off the lists.
Taken(t) == IF thread[t] = None THEN {} ELSE thread[t].gone

\* A worker that starts a service or adds nodes has taken none.
EmptyHanded ==
    \A t \in Thread :
      thread[t] # None /\ thread[t].op \in {"start", "add"} => thread[t].gone = {}

\* Slot t is emptied, or its worker goes on with what it has taken.
Moves(t) ==
    /\ \A u \in Thread \ {t} : thread'[u] = thread[u]
    /\ \/ thread'[t] = None
       \/ /\ thread[t] # None
          /\ thread'[t].op = thread[t].op
          /\ thread'[t].gone = thread[t].gone

-----------------------------------------------------------------------------
(* What the steps do to the workers. *)

\* A change of the place, the list or the device of a worker keeps the rest.
LEMMA FieldsKept ==
    ASSUME NEW w \in Worker, NEW pc, NEW q, NEW d
    PROVE  /\ [w EXCEPT !.pc = pc].op = w.op
           /\ [w EXCEPT !.pc = pc].gone = w.gone
           /\ [w EXCEPT !.nodes = q, !.pc = pc].op = w.op
           /\ [w EXCEPT !.nodes = q, !.pc = pc].gone = w.gone
           /\ [w EXCEPT !.pc = pc, !.nodes = q].op = w.op
           /\ [w EXCEPT !.pc = pc, !.nodes = q].gone = w.gone
           /\ [w EXCEPT !.pc = pc, !.dev = d].op = w.op
           /\ [w EXCEPT !.pc = pc, !.dev = d].gone = w.gone
BY DEF Worker

\* The steps of a worker that touch no list and release nothing.
Quiet(t) ==
    \/ Begin(t) \/ CreateFailed(t) \/ on_start(t) \/ on_add_nodes(t)
    \/ AddNotify(t) \/ on_remove_nodes(t) \/ RemoveNotify(t) \/ on_stop(t)
    \/ ClearService(t) \/ Forget(t)
    \/ CreateVolume(t) \/ MountVolume(t) \/ DestroyVolume(t)

LEMMA QuietMoves ==
    ASSUME IInv, NEW t \in Thread, Quiet(t)
    PROVE  Moves(t) /\ UNCHANGED <<nodes, up, owner>>
<1>1. /\ thread[t] \in Worker /\ thread[t] # None
      /\ thread \in [Thread -> Worker \cup {None}]
  BY DEF IInv, TypeOK, Quiet, At, Begin, CreateFailed, on_start, on_add_nodes,
         AddNotify, on_remove_nodes, RemoveNotify, on_stop, ClearService, Forget,
         CreateVolume, MountVolume, DestroyVolume
<1>2. UNCHANGED <<nodes, up, owner>>
  BY DEF Quiet, Begin, CreateFailed, on_start, on_add_nodes, AddNotify,
         on_remove_nodes, RemoveNotify, on_stop, ClearService, Forget,
         CreateVolume, MountVolume, DestroyVolume
<1> SUFFICES Moves(t)
  BY <1>2
<1>3. ASSUME NEW w, thread' = [thread EXCEPT ![t] = w],
             w = None \/ (w.op = thread[t].op /\ w.gone = thread[t].gone)
      PROVE  Moves(t)
  BY <1>1, <1>3 DEF Moves
<1>4. CASE thread' = [thread EXCEPT ![t] = None]
  BY <1>3, <1>4
<1>5. ASSUME NEW pc, Goto(t, pc) PROVE Moves(t)
  BY <1>1, <1>3, <1>5, FieldsKept DEF Goto
<1>6. CASE Begin(t) \/ on_add_nodes(t) \/ RemoveNotify(t) \/ ClearService(t)
  BY <1>4, <1>5, <1>6 DEF Begin, on_add_nodes, RemoveNotify, ClearService, Die
<1>7. CASE CreateFailed(t) \/ on_start(t) \/ AddNotify(t) \/ Forget(t)
           \/ MountVolume(t) \/ DestroyVolume(t)
  BY <1>4, <1>7 DEF CreateFailed, on_start, AddNotify, Forget, MountVolume,
                    DestroyVolume, Finish, Done, Die
<1>8. CASE on_remove_nodes(t)
  <2>1. \/ thread' = [thread EXCEPT ![t] = None]
        \/ thread' = [thread EXCEPT
              ![t].nodes = Popped(snodes[thread[t].sid], thread[t].count),
              ![t].pc = IF Kept(snodes[thread[t].sid], thread[t].count) = <<>>
                        THEN "drop" ELSE "notify"]
    BY <1>8 DEF on_remove_nodes, Die
  <2>2. ASSUME NEW q, NEW pc,
               thread' = [thread EXCEPT ![t].nodes = q, ![t].pc = pc]
        PROVE  Moves(t)
    <3> DEFINE w == [thread[t] EXCEPT !.nodes = q, !.pc = pc]
    <3>1. thread' = [thread EXCEPT ![t] = w]
      BY <1>1, <2>2
    <3>2. w.op = thread[t].op /\ w.gone = thread[t].gone
      BY <1>1, FieldsKept
    <3> HIDE DEF w
    <3> QED BY <1>3, <3>1, <3>2
  <2> QED BY <1>4, <2>1, <2>2
<1>9. CASE on_stop(t)
  <2>1. \/ thread' = [thread EXCEPT ![t] = None]
        \/ Goto(t, "forget")
        \/ thread' = [thread EXCEPT ![t].nodes = snodes[thread[t].sid],
                                    ![t].pc = "clear"]
    BY <1>9 DEF on_stop, Die, Done
  <2>2. ASSUME NEW q, NEW pc,
               thread' = [thread EXCEPT ![t].nodes = q, ![t].pc = pc]
        PROVE  Moves(t)
    <3> DEFINE w == [thread[t] EXCEPT !.nodes = q, !.pc = pc]
    <3>1. thread' = [thread EXCEPT ![t] = w]
      BY <1>1, <2>2
    <3>2. w.op = thread[t].op /\ w.gone = thread[t].gone
      BY <1>1, FieldsKept
    <3> HIDE DEF w
    <3> QED BY <1>3, <3>1, <3>2
  <2> QED BY <1>4, <1>5, <2>1, <2>2
<1>10. CASE CreateVolume(t)
  <2>1. \/ thread' = [thread EXCEPT ![t] = None]
        \/ \E d \in 0..MaxDev :
             thread' = [thread EXCEPT ![t].pc = "mount", ![t].dev = d]
    BY <1>10 DEF CreateVolume, Finish, Done
  <2>2. ASSUME NEW d, thread' = [thread EXCEPT ![t].pc = "mount", ![t].dev = d]
        PROVE  Moves(t)
    <3> DEFINE w == [thread[t] EXCEPT !.pc = "mount", !.dev = d]
    <3>1. thread' = [thread EXCEPT ![t] = w]
      BY <1>1, <2>2
    <3>2. w.op = thread[t].op /\ w.gone = thread[t].gone
      BY <1>1, FieldsKept
    <3> HIDE DEF w
    <3> QED BY <1>3, <3>1, <3>2
  <2> QED BY <1>4, <2>1, <2>2
<1> QED BY <1>6, <1>7, <1>8, <1>9, <1>10 DEF Quiet

\* The other steps of the workers change one slot, and op and gone only as
\* NextNode and Release do.
LEMMA EmptyHandedKept ==
    ASSUME IInv, EmptyHanded, [Next]_vars
    PROVE  EmptyHanded'
<1>1. thread \in [Thread -> Worker \cup {None}]
  BY DEF IInv, TypeOK
<1>2. CASE UNCHANGED thread
  BY <1>2 DEF EmptyHanded
<1>3. ASSUME NEW t \in Thread, Moves(t) PROVE EmptyHanded'
  BY <1>3 DEF Moves, EmptyHanded
<1>4. ASSUME NEW t \in Thread, NEW w, thread' = [thread EXCEPT ![t] = w],
             w # None => w.gone = {} \/ w.op \notin {"start", "add"}
      PROVE  EmptyHanded'
  BY <1>1, <1>4 DEF EmptyHanded
<1>5. CASE Handle \/ Refuse
  BY <1>2, <1>5 DEF Handle, Refuse, add_service, start_service, stop_service,
       remove_service, add_nodes, remove_nodes, create_volume, delete_volume,
       Checked
<1>6. ASSUME NEW t \in Thread, Commit(t) PROVE EmptyHanded'
  BY <1>4, <1>6 DEF Commit
<1>7. ASSUME NEW t \in Thread, Quiet(t) PROVE EmptyHanded'
  BY <1>3, <1>7, QuietMoves
<1>8. ASSUME NEW t \in Thread, CreateNodes(t) \/ CreateRefused(t) \/ CreateLost(t)
      PROVE  EmptyHanded'
  <2>1. thread[t] \in Worker /\ thread[t] # None
    BY <1>1, <1>8 DEF CreateNodes, CreateRefused, CreateLost, At
  <2>2. \/ thread' = [thread EXCEPT ![t] = None]
        \/ \E q : thread' = [thread EXCEPT ![t].pc = "hook", ![t].nodes = q]
    BY <1>8 DEF CreateNodes, CreateRefused, CreateLost, Deliver, Die
  <2>3. CASE thread' = [thread EXCEPT ![t] = None]
    BY <1>4, <2>3
  <2>4. ASSUME NEW q, thread' = [thread EXCEPT ![t].pc = "hook", ![t].nodes = q]
        PROVE  EmptyHanded'
    <3> DEFINE w == [thread[t] EXCEPT !.pc = "hook", !.nodes = q]
    <3>1. thread' = [thread EXCEPT ![t] = w]
      BY <1>1, <2>4
    <3>2. w.op = thread[t].op /\ w.gone = thread[t].gone
      BY <2>1, FieldsKept
    <3> HIDE DEF w
    <3> QED BY <1>4, <2>1, <3>1, <3>2 DEF EmptyHanded
  <2> QED BY <2>2, <2>3, <2>4
<1>9. ASSUME NEW t \in Thread, DropNode(t) \/ Release(t) PROVE EmptyHanded'
  <2>1. /\ thread[t] \in Worker /\ thread[t] # None
        /\ thread[t].op \notin {"start", "add"}
    BY <1>1, <1>9 DEF DropNode, Release, At
  <2>2. PICK w : /\ thread' = [thread EXCEPT ![t] = w]
                 /\ w # None => w.op = thread[t].op
    <3>1. CASE thread' = [thread EXCEPT ![t] = None]
      BY <3>1
    <3>2. CASE \E n : NextNode(t, n)
      <4>1. PICK n : NextNode(t, n)
        BY <3>2
      <4> DEFINE w == [thread[t] EXCEPT
                         !.nodes = Tail(@), !.gone = @ \cup {n},
                         !.pc = IF Tail(thread[t].nodes) = <<>>
                                THEN "release" ELSE "drop"]
      <4>2. thread' = [thread EXCEPT ![t] = w]
        BY <1>1, <4>1 DEF NextNode
      <4>3. w.op = thread[t].op
        BY <2>1 DEF Worker
      <4> HIDE DEF w
      <4> QED BY <4>2, <4>3
    <3>3. CASE Release(t)
      <4> DEFINE w == [thread[t] EXCEPT !.pc = "forget", !.gone = {}]
      <4>1. \/ thread' = [thread EXCEPT ![t] = w]
            \/ thread' = [thread EXCEPT ![t] = None]
        BY <1>1, <3>3 DEF Release
      <4>2. w.op = thread[t].op
        BY <2>1 DEF Worker
      <4> HIDE DEF w
      <4> QED BY <4>1, <4>2
    <3>4. CASE DropNode(t)
      BY <3>1, <3>2, <3>4 DEF DropNode, Die
    <3> QED BY <1>9, <3>3, <3>4
  <2> QED BY <1>4, <2>1, <2>2
<1> QED BY <1>2, <1>5, <1>6, <1>7, <1>8, <1>9 DEF Next, Serve, Work, Quiet, vars

-----------------------------------------------------------------------------
(* The refinement mapping. *)

Leaving == UNION {Taken(t) : t \in Thread}

\* What the steps mean for the nodes that are leaving: the slots hold different
\* nodes, so what one worker lets go is let go.
LEMMA LeavingStep ==
    ASSUME IInv, NEW t \in Thread,
           \A u \in Thread \ {t} : thread'[u] = thread[u]
    PROVE  /\ Taken(t)' = Taken(t) => Leaving' = Leaving
           /\ Taken(t)' = {} => Leaving' = Leaving \ Taken(t)
           /\ \A n : Taken(t)' = Taken(t) \cup {n} => Leaving' = Leaving \cup {n}
<1>1. \A u \in Thread \ {t} : Taken(u)' = Taken(u)
  BY DEF Taken
<1>2. \A u \in Thread \ {t} : Taken(u) \cap Taken(t) = {}
  BY DEF Taken, IInv, ReleasedOnce
<1>3. Leaving = Taken(t) \cup UNION {Taken(u) : u \in Thread \ {t}}
  BY DEF Leaving
<1>4. Leaving' = Taken(t)' \cup UNION {Taken(u) : u \in Thread \ {t}}
  BY <1>1 DEF Leaving
<1> QED BY <1>2, <1>3, <1>4

\* What is leaving runs and is on no list.
LEMMA LeavingOffLists ==
    ASSUME IInv
    PROVE  Leaving \subseteq up \ nodes /\ \A t \in Thread : Taken(t) \subseteq Leaving
BY DEF Leaving, Taken, IInv, ReleasedOnce

\* A worker that dies, or ends, loses what it has taken, and the node that it
\* has just taken off the list.
LEMMA LoseStep ==
    ASSUME IInv, NEW t \in Thread, NEW X \in SUBSET Node,
           \A u \in Thread \ {t} : thread'[u] = thread[u],
           Taken(t)' = {}, nodes' = nodes \ X, X \subseteq nodes,
           UNCHANGED <<up, owner>>
    PROVE  Pool!Next
<1> DEFINE S == Taken(t) \cup X
<1>1. Leaving' = Leaving \ Taken(t)
  BY LeavingStep
<1>2. Leaving \subseteq up \ nodes /\ Taken(t) \subseteq Leaving
  BY LeavingOffLists
<1>3. Leaving' = Leaving \ S /\ nodes' \ {Junk} = (nodes \ {Junk}) \ S
  BY <1>1, <1>2
<1>4. S \in SUBSET Node
  BY <1>2 DEF IInv, TypeOK
<1>5. Pool!Lose(S)
  BY <1>3 DEF Pool!Lose, Leaving, Taken
<1> HIDE DEF S
<1> QED BY <1>4, <1>5 DEF Pool!Next, Pool!Lose

\* New nodes are nodes that nobody ever owned.
LEMMA GiveStep ==
    ASSUME IInv, EmptyHanded, NEW t \in Thread, NEW s \in Service,
           thread[t] # None, thread[t].op \in {"start", "add"},
           \A u \in Thread \ {t} : thread'[u] = thread[u],
           Taken(t)' = {},
           NEW q \in Seq(Node), \A n \in ToSet(q) : owner[n] = None,
           Launch(q, s), nodes' = nodes \/ nodes' = nodes \cup ToSet(q)
    PROVE  Pool!Next
<1>1. Taken(t) = {} /\ Leaving' = Leaving
  BY LeavingStep DEF EmptyHanded, Taken
<1>2. ToSet(q) \subseteq Node
  BY DEF ToSet
<1>3. /\ ToSet(q) \cap {n \in Node : owner[n] # None} = {}
      /\ {n \in Node : owner'[n] # None}
           = {n \in Node : owner[n] # None} \cup ToSet(q)
      /\ up' = up \cup ToSet(q)
  BY <1>2, NoneAssumption DEF Launch, Service
<1>4. nodes' \ {Junk} = nodes \ {Junk}
      \/ nodes' \ {Junk} = (nodes \ {Junk}) \cup ToSet(q)
  BY <1>2, NodeAssumption
<1>5. Pool!Give(ToSet(q))
  BY <1>1, <1>3, <1>4 DEF Pool!Give, Leaving, Taken
<1> QED BY <1>2, <1>5 DEF Pool!Next

\* _do_stop_service and _do_remove_nodes take a node off self.nodes, or fail.
LEMMA DropNodeRefines ==
    ASSUME IInv, NEW t \in Thread, DropNode(t)
    PROVE  Pool!Next
<1> DEFINE n == Head(thread[t].nodes)
<1>1. /\ thread[t] \in Worker /\ thread[t] # None
      /\ thread \in [Thread -> Worker \cup {None}]
      /\ thread[t].nodes \in Seq(Item) /\ thread[t].nodes # <<>>
      /\ nodes \subseteq Item
  BY DEF IInv, TypeOK, DropNode, At, Worker, ThreadsOK, WorkerOK
<1>2. /\ UNCHANGED <<up, owner>>
      /\ nodes' = IF Listed(n) THEN nodes \ {n} ELSE nodes
      /\ \/ Listed(n) /\ NextNode(t, n)
         \/ thread' = [thread EXCEPT ![t] = None]
  BY DEF DropNode, Die
<1>3. Listed(n) => n \in nodes /\ n \in Node
  BY <1>1 DEF Listed, Item
<1> HIDE DEF n
<1>4. CASE thread' = [thread EXCEPT ![t] = None]
  <2>1. Taken(t)' = {} /\ \A u \in Thread \ {t} : thread'[u] = thread[u]
    BY <1>1, <1>4 DEF Taken
  <2>2. CASE Listed(n)
    <3>1. {n} \in SUBSET Node /\ nodes' = nodes \ {n} /\ {n} \subseteq nodes
      BY <1>2, <1>3, <2>2
    <3> QED BY <1>2, <2>1, <3>1, LoseStep
  <2>3. CASE ~Listed(n)
    <3>1. {} \in SUBSET Node /\ nodes' = nodes \ {} /\ {} \subseteq nodes
      BY <1>2, <2>3
    <3> QED BY <1>2, <2>1, <3>1, LoseStep
  <2> QED BY <2>2, <2>3
<1>5. CASE Listed(n) /\ NextNode(t, n)
  <2> DEFINE w == [thread[t] EXCEPT
                     !.nodes = Tail(@), !.gone = @ \cup {n},
                     !.pc = IF Tail(thread[t].nodes) = <<>>
                            THEN "release" ELSE "drop"]
  <2>1. thread' = [thread EXCEPT ![t] = w]
    BY <1>1, <1>5 DEF NextNode
  <2>2. w.gone = thread[t].gone \cup {n}
    BY <1>1 DEF Worker
  <2> HIDE DEF w
  <2>3. CASE w = None
    BY <1>4, <2>1, <2>3
  <2>4. CASE w # None
    <3>1. /\ Taken(t)' = Taken(t) \cup {n}
          /\ \A u \in Thread \ {t} : thread'[u] = thread[u]
      BY <1>1, <2>1, <2>2, <2>4 DEF Taken
    <3>2. Leaving' = Leaving \cup {n}
      BY <3>1, LeavingStep
    <3>3. Pool!TakeOff(n)
      BY <1>2, <1>3, <1>5, <3>2, NodeAssumption DEF Pool!TakeOff, Leaving, Taken
    <3> QED BY <1>3, <1>5, <3>3 DEF Pool!Next, Pool!TakeOff
  <2> QED BY <2>3, <2>4
<1> QED BY <1>2, <1>4, <1>5

\* callbacker.remove_nodes hands back what one worker has taken, or fails.
LEMMA ReleaseRefines ==
    ASSUME IInv, NEW t \in Thread, Release(t)
    PROVE  Pool!Next
<1> DEFINE S == Taken(t)
           w == [thread[t] EXCEPT !.pc = "forget", !.gone = {}]
<1>1. /\ thread[t] \in Worker /\ thread[t] # None
      /\ thread \in [Thread -> Worker \cup {None}]
  BY DEF IInv, TypeOK, Release, At
<1>2. /\ UNCHANGED <<nodes, owner>>
      /\ up' = up \/ up' = up \ S
  BY <1>1 DEF Release, Taken
<1>3. \/ thread' = [thread EXCEPT ![t] = w]
      \/ thread' = [thread EXCEPT ![t] = None]
  BY <1>1 DEF Release
<1>4. w.gone = {}
  BY <1>1 DEF Worker
<1> HIDE DEF w
<1>5. Taken(t)' = {} /\ \A u \in Thread \ {t} : thread'[u] = thread[u]
  BY <1>1, <1>3, <1>4 DEF Taken
<1>6. CASE up' = up
  <2>1. {} \in SUBSET Node /\ nodes' = nodes \ {} /\ {} \subseteq nodes
    BY <1>2
  <2> QED BY <1>2, <1>5, <1>6, <2>1, LoseStep
<1>7. CASE up' = up \ S
  <2>1. Leaving' = Leaving \ S
    BY <1>5, LeavingStep
  <2>2. S \subseteq Leaving /\ S \in SUBSET Node
    BY LeavingOffLists DEF IInv, TypeOK
  <2>3. Pool!Return(S)
    BY <1>2, <1>7, <2>1, <2>2 DEF Pool!Return, Leaving, Taken
  <2> HIDE DEF S
  <2> QED BY <2>2, <2>3 DEF Pool!Next, Pool!Return
<1> QED BY <1>2, <1>6, <1>7

\* callbacker.create_nodes gives the manager nodes that it never had.
LEMMA CreateRefines ==
    ASSUME IInv, EmptyHanded, NEW t \in Thread,
           CreateNodes(t) \/ CreateRefused(t) \/ CreateLost(t)
    PROVE  Pool!Next
<1> DEFINE s == thread[t].sid
<1>1. /\ thread[t] \in Worker /\ thread[t] # None
      /\ thread[t].op \in {"start", "add"}
      /\ thread \in [Thread -> Worker \cup {None}]
  BY DEF IInv, TypeOK, CreateNodes, CreateRefused, CreateLost, At
<1>2. s \in Service
  BY <1>1 DEF Worker
<1>3. Taken(t)' = {} /\ \A u \in Thread \ {t} : thread'[u] = thread[u]
  <2>1. \/ thread' = [thread EXCEPT ![t] = None]
        \/ \E q : thread' = [thread EXCEPT ![t].pc = "hook", ![t].nodes = q]
    BY DEF CreateNodes, CreateRefused, CreateLost, Deliver, Die
  <2>2. CASE thread' = [thread EXCEPT ![t] = None]
    BY <1>1, <2>2 DEF Taken
  <2>3. ASSUME NEW q, thread' = [thread EXCEPT ![t].pc = "hook", ![t].nodes = q]
        PROVE  Taken(t)' = {} /\ \A u \in Thread \ {t} : thread'[u] = thread[u]
    <3> DEFINE w == [thread[t] EXCEPT !.pc = "hook", !.nodes = q]
    <3>1. thread' = [thread EXCEPT ![t] = w]
      BY <1>1, <2>3
    <3>2. w.gone = thread[t].gone
      BY <1>1, FieldsKept
    <3> HIDE DEF w
    <3> QED BY <1>1, <3>1, <3>2 DEF EmptyHanded, Taken
  <2> QED BY <2>1, <2>2, <2>3
<1>4. ASSUME NEW k \in 1..thread[t].count, NEW q \in Fresh(k), Launch(q, s),
             nodes' = nodes \/ nodes' = nodes \cup ToSet(q)
      PROVE  Pool!Next
  <2>1. k \in Nat \ {0}
    BY <1>1, <1>4, BoundAssumption DEF Worker
  <2>2. q \in Seq(Node) /\ \A n \in ToSet(q) : owner[n] = None
    BY <1>4, <2>1, FreshNodes
  <2> HIDE DEF s
  <2> QED BY <1>1, <1>2, <1>3, <1>4, <2>2, GiveStep
<1>5. CASE CreateNodes(t)
  <2>1. PICK k \in 1..thread[t].count : \E q \in Fresh(k) :
               Launch(q, thread[t].sid) /\ Deliver(t, q)
    BY <1>5 DEF CreateNodes
  <2>2. PICK q \in Fresh(k) : Launch(q, s) /\ Deliver(t, q)
    BY <2>1
  <2> QED BY <1>4, <2>2 DEF Deliver
<1>6. CASE CreateLost(t)
  <2>1. PICK k \in 1..thread[t].count : \E q \in Fresh(k) :
               Launch(q, thread[t].sid)
    BY <1>6 DEF CreateLost
  <2>2. PICK q \in Fresh(k) : Launch(q, s)
    BY <2>1
  <2>3. nodes' = nodes
    BY <1>6 DEF CreateLost
  <2> QED BY <1>4, <2>2, <2>3
<1>7. CASE CreateRefused(t)
  <2>1. ToSet(ErrorReply) = {Junk}
    BY DEF ErrorReply, ToSet
  <2>2. /\ nodes' \ {Junk} = nodes \ {Junk} /\ UNCHANGED <<up, owner>>
        /\ Leaving' = Leaving
    BY <1>1, <1>3, <1>7, <2>1, LeavingStep
       DEF CreateRefused, Deliver, EmptyHanded, Taken
  <2>3. Pool!Lose({})
    <3>1. /\ nodes' \ {Junk} = (nodes \ {Junk}) \ {}
          /\ Leaving' = Leaving \ {}
      BY <2>2
    <3> QED BY <2>2, <3>1 DEF Pool!Lose, Leaving, Taken
  <2> QED BY <2>3 DEF Pool!Next, Pool!Lose
<1> QED BY <1>5, <1>6, <1>7

\* A step that leaves the lists, the machines and what the workers have taken
\* alone is no step of the pool.
LEMMA Stutter ==
    ASSUME UNCHANGED <<nodes, up, owner>>, Leaving' = Leaving
    PROVE  UNCHANGED Pool!pool
BY DEF Pool!pool, Leaving, Taken

\* Every step of the manager is a step of the pool, or none.
LEMMA StepRefines ==
    ASSUME IInv, EmptyHanded, [Next]_vars
    PROVE  [Pool!Next]_(Pool!pool)
<1>1. CASE UNCHANGED vars
  BY <1>1, Stutter DEF vars, Leaving, Taken
<1>2. CASE Handle \/ Refuse
  <2>1. UNCHANGED <<nodes, up, owner, thread>>
    BY <1>2 DEF Handle, Refuse, add_service, start_service, stop_service,
         remove_service, add_nodes, remove_nodes, create_volume, delete_volume,
         Checked
  <2> QED BY <2>1, Stutter DEF Leaving, Taken
<1>3. ASSUME NEW t \in Thread, Commit(t) PROVE [Pool!Next]_(Pool!pool)
  <2> DEFINE w == [op |-> request.op, pc |-> FirstPc(request.op),
                   sid |-> request.sid, count |-> request.count,
                   nodes |-> <<>>, gone |-> {}, vol |-> request.vol,
                   at |-> request.at, dev |-> 0]
  <2>1. /\ thread[t] = None /\ thread' = [thread EXCEPT ![t] = w]
        /\ UNCHANGED <<nodes, up, owner>>
        /\ thread \in [Thread -> Worker \cup {None}]
    BY <1>3 DEF Commit, IInv, TypeOK
  <2>2. w.gone = {}
    OBVIOUS
  <2> HIDE DEF w
  <2>3. /\ Taken(t)' = Taken(t)
        /\ \A u \in Thread \ {t} : thread'[u] = thread[u]
    BY <2>1, <2>2 DEF Taken
  <2> QED BY <2>1, <2>3, LeavingStep, Stutter
<1>4. ASSUME NEW t \in Thread, Quiet(t) PROVE [Pool!Next]_(Pool!pool)
  <2>1. Moves(t) /\ UNCHANGED <<nodes, up, owner>>
    BY <1>4, QuietMoves
  <2>2. CASE thread'[t] = None
    <3>1. Taken(t)' = {} /\ \A u \in Thread \ {t} : thread'[u] = thread[u]
      BY <2>1, <2>2 DEF Taken, Moves
    <3>2. {} \in SUBSET Node /\ nodes' = nodes \ {} /\ {} \subseteq nodes
      BY <2>1
    <3> QED BY <2>1, <3>1, <3>2, LoseStep
  <2>3. CASE thread'[t] # None
    <3>1. /\ Taken(t)' = Taken(t)
          /\ \A u \in Thread \ {t} : thread'[u] = thread[u]
      BY <2>1, <2>3 DEF Taken, Moves
    <3> QED BY <2>1, <3>1, LeavingStep, Stutter
  <2> QED BY <2>2, <2>3
<1>5. ASSUME NEW t \in Thread, Work(t) PROVE [Pool!Next]_(Pool!pool)
  BY <1>4, <1>5, CreateRefines, DropNodeRefines, ReleaseRefines DEF Work, Quiet
<1> QED BY <1>1, <1>2, <1>3, <1>5 DEF Next, Serve

\* The manager starts with no machine.
LEMMA InitRefines == Init => Pool!Init /\ EmptyHanded
BY DEF Init, Pool!Init, EmptyHanded

\* AppManager implements NodePool: for any number of worker threads that share
\* self.nodes without a lock, and whatever calls fail, a virtual machine is given
\* once, leaves the list once, in one worker, and is handed back at most once.
THEOREM Refinement == Spec => ImplementsNodePool
<1>1. Spec => [](IInv /\ EmptyHanded)
  <2>1. IInv /\ EmptyHanded /\ [Next]_vars => (IInv /\ EmptyHanded)'
    BY NextOK, EmptyHandedKept
  <2> QED BY <2>1, InitOK, InitRefines, PTL DEF Spec
<1>2. Init => Pool!Init
  BY InitRefines
<1>3. IInv /\ EmptyHanded /\ [Next]_vars => [Pool!Next]_(Pool!pool)
  BY StepRefines
<1> QED BY <1>1, <1>2, <1>3, PTL DEF Spec, ImplementsNodePool, Pool!Spec

\* A step of the pool keeps it sound, wherever the pool is implemented.
LEMMA PoolStep ==
    ASSUME Pool!Sound, [Pool!Next]_(Pool!pool)
    PROVE  Pool!Sound'
<1>1. ASSUME NEW S \in SUBSET Node, Pool!Give(S) PROVE Pool!Sound'
  BY <1>1 DEF Pool!Sound, Pool!Give
<1>2. ASSUME NEW S \in SUBSET Node, Pool!Return(S) PROVE Pool!Sound'
  BY <1>2 DEF Pool!Sound, Pool!Return
<1>3. ASSUME NEW S \in SUBSET Node, Pool!Lose(S) PROVE Pool!Sound'
  BY <1>3 DEF Pool!Sound, Pool!Lose
<1>4. ASSUME NEW n \in Node, Pool!TakeOff(n) PROVE Pool!Sound'
  BY <1>4, SMTT(30) DEF Pool!Sound, Pool!TakeOff
<1>5. CASE UNCHANGED Pool!pool
  BY <1>5 DEF Pool!Sound, Pool!pool
<1> QED BY <1>1, <1>2, <1>3, <1>4, <1>5 DEF Pool!Next

\* What the pool promises, the manager keeps: the machines on its lists and those
\* that its workers have taken off them run, none is both, and so no machine that
\* callbacker.remove_nodes has handed back is listed or handed back again.
THEOREM PoolIsSound == Spec => []Pool!Sound
<1>1. Pool!Init => Pool!Sound
  BY DEF Pool!Init, Pool!Sound
<1>2. Pool!Sound /\ [Pool!Next]_(Pool!pool) => Pool!Sound'
  BY PoolStep
<1> QED BY <1>1, <1>2, Refinement, PTL DEF ImplementsNodePool, Pool!Spec
=============================================================================
