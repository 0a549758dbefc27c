---------------------------- MODULE LifecycleProofs ----------------------------
(***************************************************************************)
(* Proofs about AppManager, for every number of nodes, services, threads   *)
(* and volumes: what the state of a service promises.  It is a lock        *)
(* (StateIsLock); a running service has its master (RunningHasMaster); the *)
(* user pays for no node out of sight (NoLeak); devices and names of       *)
(* volumes are kept apart (DevicesDistinct, NamesKept).                    *)
(*                                                                         *)
(* All of it rests on IInv, which AppManagerProofs shows to be inductive.  *)
(* What is said of a service is disturbed only by its own workers: Frame.  *)
(***************************************************************************)
EXTENDS AppManagerProofs

\* Worker t is one of service s, with this operation.
Is(t, op, s) ==
    /\ thread[t] # None
    /\ thread[t].op = op
    /\ thread[t].sid = s

\* The places of a worker that has still to set the state of its service.
BusyPc == {"begin", "call", "hook", "notify", "mount"}

\* Whoever stops or removes a service has been asked to.
Stopped ==
    \A t \in Thread :
      thread[t] # None /\ thread[t].op \in {"stop", "unregister"} =>
        thread[t].sid \in stops

\* A worker that removes nodes has some only while it takes them off the lists,
\* and none of them is the 'error' of an error reply.
Removers ==
    \A t \in Thread : thread[t] # None /\ thread[t].op = "remove" =>
      /\ thread[t].pc \in {"hook", "release"} => thread[t].nodes = <<>>
      /\ Junk \notin ToSet(thread[t].nodes)

\* The state of service s is a lock.
Lock(s) ==
    /\ \A t, u \in Thread : Busy(t, s) /\ Busy(u, s) => t = u
    /\ \A t \in Thread : Busy(t, s) =>
         state[s] = IF thread[t].op = "start" THEN "PROLOGUE" ELSE "ADAPTING"
    /\ (/\ request # None /\ request.sid = s
        /\ request.op \notin {"stop", "unregister"}) =>
         /\ \A t \in Thread : ~Busy(t, s)
         /\ IF request.op = "start" THEN state[s] \in {"INIT", "STOPPED"}
            ELSE state[s] = "RUNNING"

\* A service that runs or adapts has a first node, its master, which no worker
\* is about to take off the list.
Mastered(s) ==
    state[s] \in {"RUNNING", "ADAPTING"} =>
      /\ snodes[s] # <<>>
      /\ master[s] = Head(snodes[s])
      /\ \A t \in Thread : Is(t, "remove", s) =>
           Head(snodes[s]) \notin ToSet(thread[t].nodes)

\* A worker that starts a service with nodes works on the list of the service,
\* and those that still remove nodes, on nodes of an earlier life.
Anew(s) ==
    \A t \in Thread : Is(t, "start", s) /\ thread[t].pc = "hook" =>
      /\ snodes[s] = thread[t].nodes
      /\ \A u \in Thread : Is(u, "remove", s) =>
           ToSet(thread[u].nodes) \cap ToSet(snodes[s]) = {}

\* A worker is removing node n from service s.
Held(n, s) ==
    \E t \in Thread :
      Is(t, "remove", s) /\ n \in thread[t].gone \cup ToSet(thread[t].nodes)

\* The list of service s may be replaced, now or by the next start.
Replaceable(s) ==
    \/ state[s] \in {"INIT", "STOPPED"}
    \/ \E t \in Thread : Is(t, "start", s) /\ thread[t].pc \in {"begin", "call"}

\* While nothing fails, the nodes of a service are on its list or are being
\* removed, and all are being removed when the list may be replaced.
Covered(s) ==
    s \notin died =>
      /\ \A n \in up : owner[n] = s => n \in ToSet(snodes[s]) \/ Held(n, s)
      /\ Replaceable(s) => \A n \in ToSet(snodes[s]) \ {Junk} : Held(n, s)

\* What is true of a service that nobody stops.
InOrder(s) == Lock(s) /\ Mastered(s) /\ Anew(s) /\ Covered(s)

\* The name v is not that of a volume of service s.
NameFree(v, s) == volumes[v] = None \/ owner[volumes[v].node] # s

\* A volume that is being created is for a node of its service; while nobody
\* stops the service, no other volume of it takes its name or its device.
VolumesOK ==
    /\ \A v \in VolName : volumes[v] # None => owner[volumes[v].node] # None
    /\ request # None /\ request.op = "mkvol" =>
         /\ owner[request.at] = request.sid
         /\ request.sid \notin stops => NameFree(request.vol, request.sid)
    /\ \A t \in Thread : thread[t] # None /\ thread[t].op = "mkvol" =>
         /\ owner[thread[t].at] = thread[t].sid
         /\ thread[t].pc \in {"call", "mount"}
         /\ thread[t].sid \notin stops =>
              /\ NameFree(thread[t].vol, thread[t].sid)
              /\ thread[t].pc = "mount" =>
                   thread[t].dev \notin dev_names_in_use(thread[t].at)

LInv ==
    /\ IInv /\ Stopped /\ Removers /\ VolumesOK /\ DevicesDistinct
    /\ \A s \in Service \ stops : InOrder(s)

-----------------------------------------------------------------------------
(* A worker disturbs only its own service. *)

\* What a step of worker t leaves alone, and what it may do to the machines.
Frame(t) ==
    /\ thread[t] \in Worker
    /\ thread'[t] # None =>
         thread'[t].op = thread[t].op /\ thread'[t].sid = thread[t].sid
    /\ \A u \in Thread \ {t} : thread'[u] = thread[u]
    /\ UNCHANGED <<request, stops>>
    /\ died \subseteq died'
    /\ \A s \in Service \ {thread[t].sid} :
         UNCHANGED <<state[s], master[s], snodes[s]>>
    /\ \A n \in Node :
         /\ owner[n] # None => owner'[n] = owner[n]
         /\ owner'[n] \in {owner[n], thread[t].sid}
         /\ owner'[n] # thread[t].sid => (n \in up' <=> n \in up)

\* The machines that a cloud gives have no owner yet, and get one.
LEMMA LaunchOwns ==
    ASSUME IInv, NEW s \in Service, NEW k \in Nat \ {0}, NEW q \in Fresh(k),
           Launch(q, s)
    PROVE  /\ \A n \in ToSet(q) : n \in Node /\ owner[n] = None /\ owner'[n] = s
           /\ \A n \in Node \ ToSet(q) : owner'[n] = owner[n]
           /\ up' = up \cup ToSet(q)
BY FreshNodes DEF Launch

\* Every step of a worker has this frame.
LEMMA WorkFrame ==
    ASSUME IInv, NEW t \in Thread, Work(t)
    PROVE  Frame(t)
<1>1. /\ thread \in [Thread -> Worker \cup {None}]
      /\ state \in [Service -> State]
      /\ master \in [Service -> Node \cup {None}]
      /\ snodes \in [Service -> Seq(Item)]
  BY DEF IInv, TypeOK
<1>2. thread[t] \in Worker /\ thread[t] # None
  BY <1>1 DEF Work, Begin, CreateNodes, CreateRefused, CreateFailed, CreateLost,
     on_start, on_add_nodes, AddNotify, on_remove_nodes, RemoveNotify, on_stop,
     ClearService, DropNode, Release, Forget, CreateVolume, MountVolume,
     DestroyVolume, At
<1>3. thread[t].sid \in Service /\ thread[t].count \in Nat
      /\ thread[t].gone \subseteq Node
  BY <1>2, BoundAssumption DEF Worker
<1>4. CASE Begin(t)
  BY <1>1, <1>2, <1>3, <1>4 DEF Begin, Goto, Die, Frame, Worker
<1>5. CASE CreateFailed(t)
  BY <1>1, <1>2, <1>3, <1>5 DEF CreateFailed, Die, Frame, Worker
<1>6. CASE on_start(t)
  BY <1>1, <1>2, <1>3, <1>6 DEF on_start, Finish, Done, Frame, Worker
<1>7. CASE on_add_nodes(t)
  BY <1>1, <1>2, <1>3, <1>7 DEF on_add_nodes, Goto, Die, Frame, Worker
<1>8. CASE AddNotify(t)
  BY <1>1, <1>2, <1>3, <1>8 DEF AddNotify, Finish, Done, Die, Frame, Worker
<1>9. CASE on_remove_nodes(t)
  BY <1>1, <1>2, <1>3, <1>9 DEF on_remove_nodes, Die, Frame, Worker
<1>10. CASE RemoveNotify(t)
  BY <1>1, <1>2, <1>3, <1>10 DEF RemoveNotify, Goto, Die, Frame, Worker
<1>11. CASE on_stop(t)
  BY <1>1, <1>2, <1>3, <1>11 DEF on_stop, Goto, Done, Die, Frame, Worker
<1>12. CASE ClearService(t)
  BY <1>1, <1>2, <1>3, <1>12 DEF ClearService, Goto, Frame, Worker
<1>13. CASE DropNode(t)
  BY <1>1, <1>2, <1>3, <1>13 DEF DropNode, NextNode, Die, Frame, Worker
<1>14. CASE Forget(t)
  BY <1>1, <1>2, <1>3, <1>14 DEF Forget, Done, Die, Frame, Worker
<1>15. CASE CreateVolume(t)
  BY <1>1, <1>2, <1>3, <1>15 DEF CreateVolume, Finish, Done, Frame, Worker
<1>16. CASE MountVolume(t)
  BY <1>1, <1>2, <1>3, <1>16 DEF MountVolume, Finish, Done, Frame, Worker
<1>17. CASE DestroyVolume(t)
  BY <1>1, <1>2, <1>3, <1>17 DEF DestroyVolume, Finish, Done, Die, Frame, Worker
<1>18. CASE Release(t)
  <2>1. \A m \in thread[t].gone : owner[m] = thread[t].sid
    BY <1>2 DEF IInv, ReleasedOnce
  <2>2. thread'[t] # None =>
          thread'[t].op = thread[t].op /\ thread'[t].sid = thread[t].sid
    BY <1>1, <1>2, <1>18 DEF Release, Worker
  <2> QED BY <1>1, <1>2, <1>3, <1>18, <2>1, <2>2 DEF Release, Frame
<1>19. CASE CreateRefused(t)
  BY <1>1, <1>2, <1>3, <1>19 DEF CreateRefused, Deliver, Die, Frame, Worker
<1>20. CASE CreateNodes(t) \/ CreateLost(t)
  <2>1. PICK k \in 1..thread[t].count : \E q \in Fresh(k) :
          Launch(q, thread[t].sid) /\ (Deliver(t, q) \/ Die(t))
    BY <1>20 DEF CreateNodes, CreateLost
  <2>2. PICK q \in Fresh(k) :
          Launch(q, thread[t].sid) /\ (Deliver(t, q) \/ Die(t))
    BY <2>1
  <2>3. /\ \A m \in ToSet(q) : owner[m] = None /\ owner'[m] = thread[t].sid
        /\ \A m \in Node \ ToSet(q) : owner'[m] = owner[m]
        /\ up' = up \cup ToSet(q)
    BY <1>3, <2>2, LaunchOwns
  <2>4. /\ UNCHANGED <<request, stops, state, master>>
        /\ died \subseteq died'
        /\ \A s \in Service \ {thread[t].sid} : snodes'[s] = snodes[s]
        /\ thread'[t] # None =>
             thread'[t].op = thread[t].op /\ thread'[t].sid = thread[t].sid
        /\ \A u \in Thread \ {t} : thread'[u] = thread[u]
    BY <1>1, <1>2, <1>3, <1>20, <2>2
       DEF CreateNodes, CreateLost, Deliver, Die, Worker
  <2> QED BY <1>1, <1>2, <1>3, <2>3, <2>4 DEF Frame
<1> QED BY <1>4, <1>5, <1>6, <1>7, <1>8, <1>9, <1>10, <1>11, <1>12, <1>13, <1>14, <1>15, <1>16, <1>17, <1>18, <1>19, <1>20 DEF Work

\* The services of others stay in order.
LEMMA OthersStep ==
    ASSUME IInv, IInv', NEW t \in Thread, thread[t] # None, Frame(t),
           NEW s \in Service, s # thread[t].sid, InOrder(s)
    PROVE  InOrder(s)'
<1>1. \A u \in Thread :
        /\ Busy(u, s)' <=> Busy(u, s)
        /\ \A op : Is(u, op, s)' <=> Is(u, op, s)
        /\ \A op : Is(u, op, s) => thread'[u] = thread[u]
        /\ Busy(u, s) => thread'[u] = thread[u]
  BY DEF Frame, Busy, Is
<1>2. UNCHANGED <<state[s], master[s], snodes[s], request>>
  BY DEF Frame
<1>3. Lock(s)'
  BY <1>1, <1>2 DEF InOrder, Lock
<1>4. Mastered(s)' /\ Anew(s)'
  BY <1>1, <1>2 DEF InOrder, Mastered, Anew
<1>5. Covered(s)'
  <2>1. \A n : Held(n, s) => Held(n, s)'
    BY <1>1 DEF Held
  <2>2. Replaceable(s)' => Replaceable(s)
    BY <1>1, <1>2 DEF Replaceable
  <2>3. \A n \in up' : owner'[n] = s => n \in up /\ owner[n] = s
    BY DEF Frame, IInv, TypeOK
  <2>4. s \notin died' => s \notin died
    BY DEF Frame
  <2>5. InOrder(s) => Covered(s)
    BY DEF InOrder
  <2>6. snodes'[s] = snodes[s]
    BY <1>2
  <2>7. (\A n \in up' : owner'[n] = s => n \in ToSet(snodes[s]) \/ Held(n, s)')
        \/ s \in died'
    BY <2>1, <2>3, <2>4, <2>5 DEF Covered
  <2>8. (Replaceable(s)' => \A n \in ToSet(snodes[s]) \ {Junk} : Held(n, s)')
        \/ s \in died'
    BY <2>1, <2>2, <2>4, <2>5 DEF Covered
  <2> QED BY <2>6, <2>7, <2>8 DEF Covered
<1> QED BY <1>3, <1>4, <1>5 DEF InOrder

\* The state stays a lock when only a busy worker sets it, and then is done.
LEMMA OwnLock ==
    ASSUME NEW t \in Thread, thread[t] # None, Frame(t),
           NEW s \in Service, s = thread[t].sid, Lock(s),
           thread[t].op \notin {"stop", "unregister"},
           state'[s] = state[s] \/ thread[t].pc \in BusyPc,
           thread'[t] # None /\ thread'[t].pc \in BusyPc =>
             thread[t].pc \in BusyPc /\ state'[s] = state[s]
    PROVE  Lock(s)'
<1>1. \A u \in Thread \ {t} : thread'[u] = thread[u] /\ (Busy(u, s)' <=> Busy(u, s))
  BY DEF Frame, Busy
<1>2. /\ Busy(t, s) <=> thread[t].pc \in BusyPc
      /\ Busy(t, s)' => Busy(t, s) /\ state'[s] = state[s]
                        /\ thread'[t].op = thread[t].op
  BY DEF Busy, BusyPc, Frame
<1>3. UNCHANGED request
  BY DEF Frame
<1>4. CASE Busy(t, s)
  <2>1. \A u \in Thread \ {t} : ~Busy(u, s)'
    BY <1>1, <1>4 DEF Lock
  <2>2. ~(/\ request # None /\ request.sid = s
          /\ request.op \notin {"stop", "unregister"})
    BY <1>4 DEF Lock
  <2>3. state[s] = IF thread[t].op = "start" THEN "PROLOGUE" ELSE "ADAPTING"
    BY <1>4 DEF Lock
  <2> QED BY <1>2, <1>3, <2>1, <2>2, <2>3 DEF Lock
<1>5. CASE ~Busy(t, s)
  <2>1. state'[s] = state[s] /\ ~Busy(t, s)'
    BY <1>2, <1>5
  <2> QED BY <1>1, <1>3, <1>5, <2>1 DEF Lock
<1> QED BY <1>4, <1>5

\* The master stays at the head of a list that no step touches, and the worker
\* that starts the service stays in place.
LEMMA OwnHead ==
    ASSUME NEW t \in Thread, thread[t] # None, Frame(t),
           NEW s \in Service, s = thread[t].sid, Mastered(s), Anew(s),
           UNCHANGED <<snodes[s], master[s]>>,
           state'[s] \in {"RUNNING", "ADAPTING"} =>
             state[s] \in {"RUNNING", "ADAPTING"},
           thread'[t] # None => thread'[t].nodes = thread[t].nodes,
           thread'[t] # None /\ thread'[t].pc = "hook" => thread[t].pc = "hook"
    PROVE  Mastered(s)' /\ Anew(s)'
<1>1. \A u \in Thread :
        /\ \A op : Is(u, op, s)' =>
             Is(u, op, s) /\ thread'[u].nodes = thread[u].nodes
        /\ thread'[u] # None /\ thread'[u].pc = "hook" => thread[u].pc = "hook"
  BY DEF Frame, Is
<1>2. Mastered(s)'
  BY <1>1 DEF Mastered
<1>3. Anew(s)'
  BY <1>1 DEF Anew, Is
<1> QED BY <1>2, <1>3

\* No node is lost from sight by a step that touches neither the list nor the
\* nodes of a worker that removes.
LEMMA OwnCover ==
    ASSUME NEW t \in Thread, thread[t] # None, Frame(t),
           NEW s \in Service, s = thread[t].sid, Covered(s),
           UNCHANGED <<snodes[s], up, owner>>,
           thread'[t] # None =>
             thread'[t].nodes = thread[t].nodes /\ thread'[t].gone = thread[t].gone,
           thread'[t] = None => thread[t].op # "remove" \/ s \in died',
           Replaceable(s)' => Replaceable(s)
    PROVE  Covered(s)'
<1>1. CASE s \in died'
  BY <1>1 DEF Covered
<1>2. CASE s \notin died'
  <2>1. s \notin died
    BY <1>2 DEF Frame
  <2>2. ASSUME NEW n, Held(n, s) PROVE Held(n, s)'
    <3>1. PICK u \in Thread :
            Is(u, "remove", s) /\ n \in thread[u].gone \cup ToSet(thread[u].nodes)
      BY <2>2 DEF Held
    <3>2. Is(u, "remove", s)' /\ thread'[u].gone = thread[u].gone
          /\ thread'[u].nodes = thread[u].nodes
      BY <1>2, <3>1 DEF Frame, Is
    <3> QED BY <3>1, <3>2 DEF Held
  <2>3. (\A n \in up : owner[n] = s => n \in ToSet(snodes[s]) \/ Held(n, s)')
    BY <2>1, <2>2 DEF Covered
  <2>4. Replaceable(s)' => \A n \in ToSet(snodes[s]) \ {Junk} : Held(n, s)'
    BY <2>1, <2>2 DEF Covered
  <2> QED BY <2>3, <2>4 DEF Covered
<1> QED BY <1>1, <1>2

-----------------------------------------------------------------------------
(* Lists. *)

\* What is added behind a list leaves its head in place.
LEMMA HeadOfConcat ==
    ASSUME NEW S, NEW p \in Seq(S), NEW q \in Seq(S), p # <<>>
    PROVE  p \o q # <<>> /\ Head(p \o q) = Head(p)
<1>1. Len(p) \in Nat \ {0} /\ Len(p \o q) = Len(p) + Len(q) /\ Len(q) \in Nat
  OBVIOUS
<1>2. (p \o q)[1] = p[1]
  BY <1>1
<1>3. p \o q # <<>>
  BY <1>1
<1> QED BY <1>1, <1>2, <1>3

\* A list has the elements of its head and of its tail.
LEMMA HeadOrTail ==
    ASSUME NEW S, NEW q \in Seq(S), q # <<>>
    PROVE  ToSet(q) = {Head(q)} \cup ToSet(Tail(q))
<1> DEFINE r == Tail(q)
<1>1. /\ r \in Seq(S) /\ Len(r) = Len(q) - 1 /\ Len(q) \in Nat \ {0}
      /\ \A i \in 1..Len(r) : i + 1 \in 1..Len(q) /\ r[i] = q[i + 1]
      /\ Head(q) = q[1] /\ 1 \in 1..Len(q)
      /\ DOMAIN q = 1..Len(q) /\ DOMAIN r = 1..Len(r)
  OBVIOUS
<1> HIDE DEF r
<1>2. ASSUME NEW i \in 1..Len(q) PROVE q[i] \in {Head(q)} \cup ToSet(r)
  <2>1. CASE i = 1
    BY <1>1, <2>1
  <2>2. CASE i # 1
    <3>1. i - 1 \in 1..Len(r) /\ r[i - 1] = q[(i - 1) + 1] /\ (i - 1) + 1 = i
      BY <1>1, <2>2
    <3> QED BY <1>1, <3>1 DEF ToSet
  <2> QED BY <2>1, <2>2
<1>3. {Head(q)} \cup ToSet(r) \subseteq ToSet(q)
  BY <1>1 DEF ToSet
<1> QED BY <1>2, <1>3 DEF ToSet, r

\* Removing a place keeps all other elements, and the head unless it is there.
LEMMA RemoveAtKeeps ==
    ASSUME NEW S, NEW q \in Seq(S), NEW i \in 1..Len(q)
    PROVE  /\ ToSet(q) \ {q[i]} \subseteq ToSet(RemoveAt(q, i))
           /\ i # 1 => /\ RemoveAt(q, i) # <<>>
                       /\ Head(RemoveAt(q, i)) = Head(q)
<1> DEFINE r == RemoveAt(q, i)
<1>1. /\ r \in Seq(S) /\ Len(r) = Len(q) - 1 /\ Len(q) \in Nat
      /\ \A j \in 1..Len(r) : r[j] = q[Shift(i, j)]
  BY RemoveAtPlaces
<1> HIDE DEF r
<1>2. ASSUME NEW j \in 1..Len(q), j # i PROVE q[j] \in ToSet(r)
  <2>1. CASE j < i
    <3>1. j \in 1..Len(r) /\ Shift(i, j) = j
      BY <1>1, <2>1 DEF Shift
    <3> QED BY <1>1, <3>1 DEF ToSet
  <2>2. CASE j > i
    <3>1. j - 1 \in 1..Len(r) /\ Shift(i, j - 1) = j
      BY <1>1, <2>2 DEF Shift
    <3> QED BY <1>1, <3>1 DEF ToSet
  <2> QED BY <1>2, <2>1, <2>2
<1>3. ToSet(q) \ {q[i]} \subseteq ToSet(r)
  BY <1>2 DEF ToSet
<1>4. ASSUME i # 1 PROVE r # <<>> /\ Head(r) = Head(q)
  <2>1. Len(r) >= 1 /\ 1 \in 1..Len(r) /\ Shift(i, 1) = 1
    BY <1>1, <1>4 DEF Shift
  <2>2. r[1] = q[1]
    BY <1>1, <2>1
  <2> QED BY <1>1, <2>1, <2>2
<1> QED BY <1>3, <1>4 DEF r

\* What is popped from a list is all of it when nothing is kept, and else not
\* its head.
LEMMA PoppedAllOrNotHead ==
    ASSUME NEW S, NEW q \in Seq(S), NEW k \in 1..Len(q)
    PROVE  /\ Kept(q, k) = <<>> => ToSet(q) \subseteq ToSet(Popped(q, k))
           /\ Kept(q, k) # <<>> /\ NoTwice(q) /\ Junk \notin ToSet(q) =>
                Head(q) \notin ToSet(Popped(q, k))
<1> DEFINE r == Popped(q, k)
<1>1. /\ Len(q) \in Nat \ {0} /\ DOMAIN r = 1..k
      /\ \A i \in 1..k : r[i] = q[Len(q) + 1 - i]
  BY DEF Popped
<1>2. /\ Kept(q, k) = <<>> => k = Len(q)
      /\ Kept(q, k) # <<>> => k < Len(q)
  <2>1. Kept(q, k) \in Seq(S) /\ Len(Kept(q, k)) = Len(q) - k
    BY <1>1 DEF Kept
  <2>2. Kept(q, k) = <<>> <=> Len(Kept(q, k)) = 0
    BY <2>1
  <2> QED BY <1>1, <2>1, <2>2
<1>3. ToSet(q) = {q[i] : i \in 1..Len(q)} /\ ToSet(r) = {r[i] : i \in 1..k}
  BY <1>1 DEF ToSet
<1> HIDE DEF r
<1>4. ASSUME k = Len(q), NEW i \in 1..Len(q) PROVE q[i] \in ToSet(r)
  <2>1. Len(q) + 1 - i \in 1..k /\ Len(q) + 1 - (Len(q) + 1 - i) = i
    BY <1>1, <1>4
  <2> QED BY <1>1, <1>3, <2>1
<1>5. ASSUME k < Len(q), NoTwice(q), Junk \notin ToSet(q), NEW i \in 1..k,
             Head(q) = r[i]
      PROVE  FALSE
  <2>1. Len(q) + 1 - i \in 1..Len(q) /\ Len(q) + 1 - i # 1 /\ 1 \in 1..Len(q)
    BY <1>1, <1>5
  <2>2. q[1] = q[Len(q) + 1 - i] /\ q[1] # Junk
    BY <1>1, <1>3, <1>5, <2>1
  <2> QED BY <1>5, <2>1, <2>2 DEF NoTwice
<1> QED BY <1>2, <1>3, <1>4, <1>5 DEF r

-----------------------------------------------------------------------------
(* The worker's own service. *)

\* A busy worker is the only one, and its service is as it says.
LEMMA BusyAlone ==
    ASSUME NEW t \in Thread, NEW s, Lock(s), thread[t] # None,
           thread[t].sid = s, thread[t].pc \in BusyPc
    PROVE  /\ state[s] = IF thread[t].op = "start" THEN "PROLOGUE" ELSE "ADAPTING"
           /\ \A u \in Thread \ {t} :
                Is(u, "start", s) => thread[u].pc \notin BusyPc
<1>1. Busy(t, s)
  BY DEF Busy, BusyPc
<1>2. \A u \in Thread \ {t} :
        Is(u, "start", s) /\ thread[u].pc \in BusyPc => Busy(u, s)
  BY DEF Is, Busy, BusyPc
<1> QED BY <1>1, <1>2 DEF Lock

\* A worker that only moves on, or ends and leaves its service running or in
\* error, keeps the service in order; one that removes ends by an exception.
LEMMA OwnQuiet ==
    ASSUME NEW t \in Thread, thread[t] # None, Frame(t),
           NEW s \in Service, s = thread[t].sid, InOrder(s),
           thread[t].op \notin {"stop", "unregister"},
           UNCHANGED <<snodes[s], master[s], up, owner>>,
           \/ state'[s] = state[s]
           \/ /\ thread[t].pc \in BusyPc /\ thread[t].op # "start"
              /\ state'[s] \in {"RUNNING", "ERROR"},
           thread'[t] = None => thread[t].op # "remove" \/ s \in died',
           thread'[t] # None =>
             /\ thread'[t].nodes = thread[t].nodes
             /\ thread'[t].gone = thread[t].gone
             /\ thread'[t].pc = "hook" => thread[t].pc = "hook"
             /\ thread'[t].pc \in {"begin", "call"} =>
                  thread[t].pc \in {"begin", "call"}
             /\ thread'[t].pc \in BusyPc =>
                  thread[t].pc \in BusyPc /\ state'[s] = state[s]
    PROVE  InOrder(s)'
<1>1. Lock(s) /\ Mastered(s) /\ Anew(s) /\ Covered(s)
  BY DEF InOrder
<1>2. Lock(s)'
  BY <1>1, OwnLock
<1>3. state'[s] # state[s] =>
        state[s] = "ADAPTING" /\ state'[s] \in {"RUNNING", "ERROR"}
  BY <1>1, BusyAlone
<1>4. Mastered(s)' /\ Anew(s)'
  BY <1>1, <1>3, OwnHead
<1>5. Replaceable(s)' => Replaceable(s)
  <2>1. ASSUME NEW u \in Thread, Is(u, "start", s)',
               thread'[u].pc \in {"begin", "call"}
        PROVE  Is(u, "start", s) /\ thread[u].pc \in {"begin", "call"}
    BY <2>1 DEF Frame, Is
  <2> QED BY <1>3, <2>1 DEF Replaceable
<1>6. Covered(s)'
  BY <1>1, <1>5, OwnCover
<1> QED BY <1>2, <1>4, <1>6 DEF InOrder

\* A service whose worker dies while the director starts nodes.
LEMMA OwnLost ==
    ASSUME NEW t \in Thread, thread[t] # None, Frame(t),
           NEW s \in Service, s = thread[t].sid, InOrder(s),
           thread[t].op \notin {"stop", "unregister"},
           UNCHANGED <<snodes[s], master[s], state[s]>>,
           thread'[t] = None, s \in died'
    PROVE  InOrder(s)'
<1>1. Lock(s)'
  BY OwnLock DEF InOrder
<1>2. Mastered(s)' /\ Anew(s)'
  BY OwnHead DEF InOrder
<1> QED BY <1>1, <1>2 DEF InOrder, Covered

\* New nodes enter the list of the service: behind the others when they are
\* added, in place of the others, which are all being removed, by a start.
LEMMA OwnDeliver ==
    ASSUME IInv, IInv', Removers, NEW t \in Thread, thread[t] # None, Frame(t),
           NEW s \in Service, s = thread[t].sid, InOrder(s),
           thread[t].op \in {"start", "add"}, thread[t].pc = "call",
           NEW q \in Seq(Item), \A n \in ToSet(q) : n = Junk \/ owner[n] = None,
           UNCHANGED <<master[s], state[s]>>,
           up' \subseteq up \cup ToSet(q),
           \A n \in up \ ToSet(q) : owner'[n] = owner[n],
           thread'[t] # None, thread'[t].pc = "hook", thread'[t].nodes = q,
           snodes'[s] = IF thread[t].op = "add" THEN snodes[s] \o q ELSE q
    PROVE  InOrder(s)'
<1>1. Lock(s) /\ Mastered(s) /\ Anew(s) /\ Covered(s)
  BY DEF InOrder
<1>2. Lock(s)'
  BY <1>1, OwnLock DEF BusyPc
<1>3. /\ state[s] = IF thread[t].op = "start" THEN "PROLOGUE" ELSE "ADAPTING"
      /\ \A u \in Thread \ {t} : Is(u, "start", s) => thread[u].pc \notin BusyPc
  BY <1>1, BusyAlone DEF BusyPc
<1>4. /\ \A u \in Thread : Is(u, "remove", s)' =>
           Is(u, "remove", s) /\ thread'[u] = thread[u]
      /\ \A u \in Thread : Is(u, "remove", s) => Is(u, "remove", s)'
      /\ \A u \in Thread : Is(u, "start", s)' /\ thread'[u].pc \in BusyPc =>
           u = t /\ thread[t].op = "start"
  BY <1>3 DEF Frame, Is
<1>5. snodes[s] \in Seq(Item)
  BY DEF IInv, TypeOK
<1>6. Mastered(s)'
  <2>1. CASE thread[t].op = "start"
    BY <1>3, <2>1 DEF Mastered
  <2>2. CASE thread[t].op = "add"
    <3>1. snodes[s] # <<>> /\ snodes'[s] = snodes[s] \o q
      BY <1>1, <1>3, <2>2 DEF Mastered
    <3>2. snodes'[s] # <<>> /\ Head(snodes'[s]) = Head(snodes[s])
      BY <1>5, <3>1, HeadOfConcat
    <3> QED BY <1>1, <1>3, <1>4, <2>2, <3>2 DEF Mastered
  <2> QED BY <2>1, <2>2
<1>7. Anew(s)'
  <2>1. SUFFICES ASSUME thread[t].op = "start",
                        NEW u \in Thread, Is(u, "remove", s),
                        NEW n \in ToSet(thread[u].nodes), n \in ToSet(q)
                 PROVE  FALSE
    BY <1>4 DEF Anew, BusyPc
  <2>2. n # Junk
    BY <2>1 DEF Removers, Is
  <2>3. owner[n] = s
    BY <2>1, <2>2 DEF IInv, ThreadsOK, WorkerOK, Is
  <2> QED BY <2>1, <2>2, <2>3, NoneAssumption DEF Service
<1>8. Covered(s)'
  <2>1. SUFFICES ASSUME s \notin died' PROVE Covered(s)'
    BY DEF Covered
  <2>2. s \notin died
    BY <2>1 DEF Frame
  <2>3. \A n : Held(n, s) => Held(n, s)'
    BY <1>4 DEF Held
  <2>4. ToSet(q) \subseteq ToSet(snodes'[s])
        /\ (thread[t].op = "add" => ToSet(snodes[s]) \subseteq ToSet(snodes'[s]))
    BY <1>5, ConcatElements
  <2>5. ASSUME NEW n \in up', owner'[n] = s, n \notin ToSet(snodes'[s])
        PROVE  Held(n, s)'
    <3>1. n \in up /\ owner[n] = s
      BY <2>4, <2>5
    <3>2. n \in ToSet(snodes[s]) \/ Held(n, s)
      BY <1>1, <2>2, <3>1 DEF Covered
    <3>3. CASE thread[t].op = "add"
      BY <2>3, <2>4, <2>5, <3>2, <3>3
    <3>4. CASE thread[t].op = "start"
      <4>1. Replaceable(s)
        BY <3>4 DEF Replaceable, Is
      <4>2. n # Junk
        BY <3>1, NodeAssumption DEF IInv, TypeOK
      <4> QED BY <1>1, <2>2, <2>3, <3>2, <4>1, <4>2 DEF Covered
    <3> QED BY <3>3, <3>4
  <2>6. ~Replaceable(s)'
    BY <1>3, <1>4 DEF Replaceable, BusyPc
  <2> QED BY <2>5, <2>6 DEF Covered
<1> QED BY <1>2, <1>6, <1>7, <1>8 DEF InOrder

\* A service that has started with its nodes runs, and the first is its master.
LEMMA OwnStarted ==
    ASSUME IInv, NEW t \in Thread, on_start(t), Frame(t),
           NEW s \in Service, s = thread[t].sid, InOrder(s)
    PROVE  InOrder(s)'
<1>1. Lock(s) /\ Mastered(s) /\ Anew(s) /\ Covered(s)
  BY DEF InOrder
<1>2. /\ thread[t] # None /\ thread[t].op = "start" /\ thread[t].pc = "hook"
      /\ thread \in [Thread -> Worker \cup {None}] /\ state \in [Service -> State]
      /\ master \in [Service -> Node \cup {None}]
  BY DEF on_start, At, IInv, TypeOK
<1>3. /\ UNCHANGED <<snodes, up, owner>> /\ thread'[t] = None
      /\ \/ state'[s] = "RUNNING" /\ master'[s] = thread[t].nodes[1]
         \/ state'[s] = "ERROR"
  BY <1>2 DEF on_start, Finish, Done
<1>4. Lock(s)'
  BY <1>1, <1>2, <1>3, OwnLock DEF BusyPc
<1>5. \A u \in Thread :
        /\ Is(u, "remove", s)' => Is(u, "remove", s) /\ thread'[u] = thread[u]
        /\ Is(u, "start", s)' => Is(u, "start", s) /\ thread'[u] = thread[u]
        /\ Is(u, "start", s)' => thread[u].pc \notin BusyPc
  BY <1>1, <1>2, <1>3, BusyAlone DEF Frame, Is, BusyPc
<1>6. Mastered(s)'
  <2>1. /\ Is(t, "start", s) /\ snodes[s] = thread[t].nodes
        /\ \A u \in Thread : Is(u, "remove", s) =>
             ToSet(thread[u].nodes) \cap ToSet(snodes[s]) = {}
    BY <1>1, <1>2 DEF Anew, Is
  <2>2. snodes[s] \in Seq(Item) /\ snodes[s] # <<>>
    BY <1>2, <2>1 DEF IInv, TypeOK, ThreadsOK, WorkerOK
  <2>3. Head(snodes[s]) = snodes[s][1] /\ Head(snodes[s]) \in ToSet(snodes[s])
    BY <2>2, TailElements
  <2> QED BY <1>3, <1>5, <2>1, <2>2, <2>3 DEF Mastered
<1>7. Anew(s)'
  BY <1>3, <1>5 DEF Anew, BusyPc, Is
<1>8. Replaceable(s)' => Replaceable(s)
  BY <1>3, <1>5 DEF Replaceable
<1>9. Covered(s)'
  BY <1>1, <1>2, <1>3, <1>8, OwnCover
<1> QED BY <1>4, <1>6, <1>7, <1>9 DEF InOrder

\* Nodes are popped from a copy of the list: never the master, or all of them.
LEMMA OwnPopped ==
    ASSUME IInv, Removers, NEW t \in Thread, on_remove_nodes(t), Frame(t),
           NEW s \in Service, s = thread[t].sid, InOrder(s)
    PROVE  InOrder(s)'
<1> DEFINE k == thread[t].count
           p == Popped(snodes[s], k)
<1>1. Lock(s) /\ Mastered(s) /\ Anew(s) /\ Covered(s)
  BY DEF InOrder
<1>2. /\ thread[t] # None /\ thread[t].op = "remove" /\ thread[t].pc = "hook"
      /\ thread \in [Thread -> Worker \cup {None}] /\ state \in [Service -> State]
      /\ master \in [Service -> Node \cup {None}]
      /\ snodes[s] \in Seq(Item) /\ NoTwice(snodes[s])
      /\ k \in Nat \ {0} /\ thread[t].nodes = <<>>
      /\ thread[t] \in Worker
  BY BoundAssumption
     DEF on_remove_nodes, At, IInv, TypeOK, ListsOK, ThreadsOK, WorkerOK, Worker,
         Removers
<1>3. UNCHANGED <<snodes, up, owner>>
  BY DEF on_remove_nodes
<1>4. CASE ~Fits(s, k)
  <2>1. thread'[t] = None /\ s \in died' /\ UNCHANGED <<state, master>>
    BY <1>2, <1>4 DEF on_remove_nodes, Die
  <2> QED BY <1>2, <1>3, <2>1, OwnQuiet
<1>5. CASE Fits(s, k)
  <2> DEFINE pc == IF Kept(snodes[s], k) = <<>> THEN "drop" ELSE "notify"
             w == [thread[t] EXCEPT !.nodes = p, !.pc = pc]
  <2>1. /\ Junk \notin ToSet(snodes[s]) /\ k \in 1..Len(snodes[s])
        /\ p \in Seq(Item)
    BY <1>2, <1>5, PoppedElements DEF Fits
  <2>2. thread' = [thread EXCEPT ![t] = w]
    BY <1>5 DEF on_remove_nodes
  <2>3. /\ w \in Worker /\ w.op = "remove" /\ w.sid = s
        /\ w.pc = pc /\ w.nodes = p /\ w.gone = thread[t].gone
    BY <1>2, <2>1 DEF Worker, Pc
  <2>4. /\ pc = "drop" => Kept(snodes[s], k) = <<>> /\ state'[s] = "STOPPED"
        /\ pc # "drop" =>
             Kept(snodes[s], k) # <<>> /\ UNCHANGED <<state, master>>
    BY <1>2, <1>5 DEF on_remove_nodes
  <2> HIDE DEF w
  <2>5. thread'[t] = w /\ thread'[t] # None
    BY <1>2, <2>2, <2>3, WorkerAssumption
  <2>6. Lock(s)'
    BY <1>1, <1>2, <2>3, <2>4, <2>5, OwnLock DEF BusyPc
  <2>7. /\ state[s] = "ADAPTING"
        /\ \A u \in Thread : Is(u, "start", s)' =>
             Is(u, "start", s) /\ thread'[u] = thread[u]
             /\ thread[u].pc \notin BusyPc
    BY <1>1, <1>2, <2>3, <2>5, BusyAlone DEF Frame, Is, BusyPc
  <2>8. Mastered(s)'
    <3>1. CASE pc = "drop"
      BY <2>4, <3>1 DEF Mastered
    <3>2. CASE pc # "drop"
      <4>1. Head(snodes[s]) \notin ToSet(p)
        BY <1>2, <2>1, <2>4, <3>2, PoppedAllOrNotHead
      <4>2. /\ snodes[s] # <<>> /\ master[s] = Head(snodes[s])
            /\ \A u \in Thread : Is(u, "remove", s) =>
                 Head(snodes[s]) \notin ToSet(thread[u].nodes)
        BY <1>1, <2>7 DEF Mastered
      <4>3. \A u \in Thread : Is(u, "remove", s)' =>
              Head(snodes[s]) \notin ToSet(thread'[u].nodes)
        BY <2>3, <2>5, <4>1, <4>2 DEF Frame, Is
      <4> QED BY <1>3, <2>4, <3>2, <4>2, <4>3 DEF Mastered
    <3> QED BY <3>1, <3>2
  <2>9. Anew(s)'
    BY <2>7 DEF Anew, BusyPc
  <2>10. Covered(s)'
    <3>1. SUFFICES ASSUME s \notin died' PROVE Covered(s)'
      BY DEF Covered
    <3>2. s \notin died
      BY <3>1 DEF Frame
    <3>3. ASSUME NEW n, Held(n, s) PROVE Held(n, s)'
      <4>1. PICK u \in Thread :
              Is(u, "remove", s) /\ n \in thread[u].gone \cup ToSet(thread[u].nodes)
        BY <3>3 DEF Held
      <4>2. CASE u = t
        <5>1. n \in thread[t].gone
          BY <1>2, <4>1, <4>2 DEF ToSet
        <5>2. Is(t, "remove", s)' /\ n \in thread'[t].gone
          BY <2>3, <2>5, <5>1 DEF Is
        <5> QED BY <5>2 DEF Held
      <4>3. CASE u # t
        BY <4>1, <4>3 DEF Frame, Is, Held
      <4> QED BY <4>2, <4>3
    <3>4. ASSUME Replaceable(s)', NEW n \in ToSet(snodes[s]) PROVE Held(n, s)'
      <4>1. pc = "drop"
        BY <2>4, <2>7, <3>4 DEF Replaceable, BusyPc
      <4>2. n \in ToSet(p)
        BY <1>2, <2>1, <2>4, <3>4, <4>1, PoppedAllOrNotHead
      <4>3. Is(t, "remove", s)' /\ n \in ToSet(thread'[t].nodes)
        BY <2>3, <2>5, <4>2 DEF Is
      <4> QED BY <4>3 DEF Held
    <3>5. \A n \in up : owner[n] = s => n \in ToSet(snodes[s]) \/ Held(n, s)'
      BY <1>1, <3>2, <3>3 DEF Covered
    <3> QED BY <1>3, <3>4, <3>5 DEF Covered
  <2> QED BY <2>6, <2>8, <2>9, <2>10 DEF InOrder
<1> QED BY <1>4, <1>5

\* A node leaves the list of the service and is held by the worker that took
\* it: the head, when the service runs, stays.
LEMMA OwnDropped ==
    ASSUME IInv, NEW t \in Thread, DropNode(t), Frame(t), thread[t].op = "remove",
           NEW s \in Service, s = thread[t].sid, InOrder(s),
           NEW n, n = Head(thread[t].nodes)
    PROVE  InOrder(s)'
<1>1. Lock(s) /\ Mastered(s) /\ Anew(s) /\ Covered(s)
  BY DEF InOrder
<1>2. /\ thread[t] \in Worker /\ thread[t] # None /\ thread[t].pc = "drop"
      /\ thread[t].nodes \in Seq(Item) /\ thread[t].nodes # <<>>
      /\ thread \in [Thread -> Worker \cup {None}]
      /\ snodes \in [Service -> Seq(Item)]
  BY DEF DropNode, At, IInv, TypeOK, Worker, ThreadsOK, WorkerOK
<1>3. UNCHANGED <<state, master, up, owner>>
  BY DEF DropNode
<1>4. CASE Die(t) /\ UNCHANGED snodes
  BY <1>2, <1>3, <1>4, OwnQuiet DEF Die
<1>5. ASSUME NEW i \in 1..Len(snodes[s]), snodes[s][i] = n, Listed(n),
             snodes' = [snodes EXCEPT ![s] = RemoveAt(@, i)], NextNode(t, n)
      PROVE  InOrder(s)'
  <2> DEFINE pc == IF Tail(thread[t].nodes) = <<>> THEN "release" ELSE "drop"
             w == [thread[t] EXCEPT !.nodes = Tail(@), !.gone = @ \cup {n},
                                    !.pc = pc]
             r == RemoveAt(snodes[s], i)
  <2>1. /\ Tail(thread[t].nodes) \in Seq(Item)
        /\ ToSet(thread[t].nodes) = {n} \cup ToSet(Tail(thread[t].nodes))
        /\ n \in Item
    BY <1>2, TailElements, HeadOrTail
  <2>2. n \in Node
    BY <1>5, <2>1 DEF Listed, Item
  <2>3. /\ w \in Worker /\ w.op = "remove" /\ w.sid = s /\ w.pc \notin BusyPc
        /\ w.nodes = Tail(thread[t].nodes) /\ w.gone = thread[t].gone \cup {n}
    BY <1>2, <2>1, <2>2 DEF Worker, Pc, BusyPc
  <2>4. thread' = [thread EXCEPT ![t] = w]
    BY <1>5 DEF NextNode
  <2>5. /\ snodes'[s] = r
        /\ ToSet(r) \subseteq ToSet(snodes[s])
        /\ ToSet(snodes[s]) \ {n} \subseteq ToSet(r)
        /\ i # 1 => r # <<>> /\ Head(r) = Head(snodes[s])
        /\ snodes[s][1] = Head(snodes[s]) /\ n \in ToSet(snodes[s])
    <3>1. snodes[s] \in Seq(Item) /\ snodes'[s] = r
      BY <1>2, <1>5
    <3>2. snodes[s][1] = Head(snodes[s]) /\ n \in ToSet(snodes[s])
      BY <1>5, <3>1 DEF ToSet
    <3> QED BY <1>5, <3>1, <3>2, RemoveAtElements, RemoveAtKeeps
  <2> HIDE DEF w, r, pc
  <2>6. thread'[t] = w /\ thread'[t] # None
    BY <1>2, <2>3, <2>4, WorkerAssumption
  <2>7. Is(t, "remove", s) /\ n \in ToSet(thread[t].nodes)
    BY <1>2, <2>1 DEF Is
  <2>8. \A u \in Thread :
          /\ Is(u, "remove", s)' <=> Is(u, "remove", s)
          /\ Is(u, "remove", s)' =>
               /\ ToSet(thread'[u].nodes) \subseteq ToSet(thread[u].nodes)
               /\ thread[u].gone \cup ToSet(thread[u].nodes)
                    \subseteq thread'[u].gone \cup ToSet(thread'[u].nodes)
          /\ Is(u, "start", s)' => Is(u, "start", s) /\ thread'[u] = thread[u]
    BY <2>1, <2>3, <2>6, <2>7 DEF Frame, Is
  <2>9. Lock(s)'
    BY <1>1, <1>2, <1>3, <2>3, <2>6, OwnLock
  <2>10. Mastered(s)'
    <3>1. SUFFICES ASSUME state[s] \in {"RUNNING", "ADAPTING"}
                   PROVE  /\ r # <<>> /\ Head(r) = master[s]
                          /\ \A u \in Thread : Is(u, "remove", s)' =>
                               Head(r) \notin ToSet(thread'[u].nodes)
      BY <1>3, <2>5 DEF Mastered
    <3>2. /\ snodes[s] # <<>> /\ master[s] = Head(snodes[s])
          /\ \A u \in Thread : Is(u, "remove", s) =>
               Head(snodes[s]) \notin ToSet(thread[u].nodes)
      BY <1>1, <3>1 DEF Mastered
    <3>3. i # 1
      BY <1>5, <2>5, <2>7, <3>2
    <3> QED BY <2>5, <2>8, <3>2, <3>3
  <2>11. Anew(s)'
    <3>1. \A u \in Thread : Is(u, "start", s) => thread[u].pc # "hook"
      BY <1>1, <2>5, <2>7 DEF Anew
    <3> QED BY <2>8, <3>1 DEF Anew
  <2>12. Covered(s)'
    <3>1. SUFFICES ASSUME s \notin died' PROVE Covered(s)'
      BY DEF Covered
    <3>2. s \notin died
      BY <3>1 DEF Frame
    <3>3. \A m : Held(m, s) => Held(m, s)'
      BY <2>8 DEF Held
    <3>4. Held(n, s)'
      BY <2>7, <3>3 DEF Held
    <3>5. Replaceable(s)' => Replaceable(s)
      BY <1>3, <2>8 DEF Replaceable
    <3>6. \A m \in up : owner[m] = s => m \in ToSet(r) \/ Held(m, s)'
      BY <1>1, <2>5, <3>2, <3>3, <3>4 DEF Covered
    <3>7. Replaceable(s) => \A m \in ToSet(r) \ {Junk} : Held(m, s)'
      BY <1>1, <2>5, <3>2, <3>3 DEF Covered
    <3> QED BY <1>3, <2>5, <3>5, <3>6, <3>7 DEF Covered
  <2> QED BY <2>9, <2>10, <2>11, <2>12 DEF InOrder
<1> QED BY <1>4, <1>5 DEF DropNode

\* The nodes of a worker that removes are handed back: none is on the list.
LEMMA OwnReleased ==
    ASSUME IInv, Removers, NEW t \in Thread, Release(t), Frame(t),
           thread[t].op = "remove",
           NEW s \in Service, s = thread[t].sid, InOrder(s)
    PROVE  InOrder(s)'
<1>1. Lock(s) /\ Mastered(s) /\ Anew(s) /\ Covered(s)
  BY DEF InOrder
<1>2. /\ thread[t] # None /\ thread[t].pc = "release"
      /\ thread[t].nodes = <<>> /\ thread[t].gone \cap nodes = {}
      /\ thread \in [Thread -> Worker \cup {None}]
      /\ ToSet(snodes[s]) \subseteq nodes
  BY DEF Release, At, IInv, TypeOK, Removers, ReleasedOnce, NodesLive
<1>3. /\ UNCHANGED <<state, master, snodes, owner>> /\ thread'[t] = None
      /\ \/ up' = up \ thread[t].gone
         \/ s \in died'
  BY <1>2 DEF Release
<1>4. Lock(s)'
  BY <1>1, <1>2, <1>3, OwnLock DEF BusyPc
<1>5. Mastered(s)' /\ Anew(s)'
  BY <1>1, <1>2, <1>3, OwnHead
<1>6. Covered(s)'
  <2>1. SUFFICES ASSUME s \notin died' PROVE Covered(s)'
    BY DEF Covered
  <2>2. s \notin died /\ up' = up \ thread[t].gone
    BY <1>3, <2>1 DEF Frame
  <2>3. ASSUME NEW n, Held(n, s), n \notin thread[t].gone PROVE Held(n, s)'
    <3>1. PICK u \in Thread :
            Is(u, "remove", s) /\ n \in thread[u].gone \cup ToSet(thread[u].nodes)
      BY <2>3 DEF Held
    <3>2. u # t
      BY <1>2, <2>3, <3>1 DEF ToSet
    <3> QED BY <3>1, <3>2 DEF Held, Is, Frame
  <2>4. Replaceable(s)' => Replaceable(s)
    BY <1>3 DEF Replaceable, Frame, Is
  <2>5. \A n \in up' : owner[n] = s => n \in ToSet(snodes[s]) \/ Held(n, s)'
    BY <1>1, <2>2, <2>3 DEF Covered
  <2>6. Replaceable(s) => \A n \in ToSet(snodes[s]) \ {Junk} : Held(n, s)'
    BY <1>1, <1>2, <2>2, <2>3 DEF Covered
  <2> QED BY <1>3, <2>4, <2>5, <2>6 DEF Covered
<1> QED BY <1>4, <1>5, <1>6 DEF InOrder

\* The workers that only move on, finish or die.
LEMMA OwnOther ==
    ASSUME IInv, NEW t \in Thread, Frame(t),
           \/ Begin(t) \/ CreateFailed(t) \/ on_add_nodes(t) \/ AddNotify(t)
           \/ RemoveNotify(t) \/ CreateVolume(t) \/ MountVolume(t)
           \/ DestroyVolume(t),
           NEW s \in Service, s = thread[t].sid, InOrder(s)
    PROVE  InOrder(s)'
<1>1. /\ thread[t] \in Worker /\ thread[t] # None
      /\ thread \in [Thread -> Worker \cup {None}] /\ state \in [Service -> State]
  BY DEF IInv, TypeOK, Begin, CreateFailed, on_add_nodes, AddNotify, RemoveNotify,
         CreateVolume, MountVolume, DestroyVolume, At
<1>2. /\ thread[t].op \in {"start", "add", "remove", "mkvol", "rmvol"}
      /\ UNCHANGED <<snodes, master, up, owner>>
  BY DEF Begin, CreateFailed, on_add_nodes, AddNotify, RemoveNotify,
         CreateVolume, MountVolume, DestroyVolume, At
<1>3. ASSUME NEW pc \in Pc, Goto(t, pc)
      PROVE  /\ thread'[t] # None
             /\ thread'[t].nodes = thread[t].nodes
             /\ thread'[t].gone = thread[t].gone /\ thread'[t].pc = pc
  <2>1. [thread[t] EXCEPT !.pc = pc] \in Worker
    BY <1>1, WorkerMoves
  <2>2. thread'[t] = [thread[t] EXCEPT !.pc = pc]
    BY <1>1, <1>3 DEF Goto
  <2> QED BY <1>1, <2>1, <2>2, WorkerMoves, WorkerAssumption
<1>4. CASE Begin(t)
  <2>1. UNCHANGED state /\ thread[t].pc = "begin" /\ thread[t].op # "remove"
    BY <1>4 DEF Begin, At
  <2>2. CASE Goto(t, "call")
    BY <1>1, <1>2, <1>3, <2>1, <2>2, OwnQuiet DEF Pc, BusyPc
  <2>3. CASE Die(t)
    BY <1>1, <1>2, <2>1, <2>3, OwnQuiet DEF Die
  <2> QED BY <1>4, <2>2, <2>3 DEF Begin
<1>5. CASE CreateFailed(t)
  BY <1>1, <1>2, <1>5, OwnQuiet DEF CreateFailed, Die
<1>6. CASE on_add_nodes(t)
  <2>1. UNCHANGED state /\ thread[t].pc = "hook" /\ thread[t].op # "remove"
    BY <1>6 DEF on_add_nodes, At
  <2>2. CASE Goto(t, "notify")
    BY <1>1, <1>2, <1>3, <2>1, <2>2, OwnQuiet DEF Pc, BusyPc
  <2>3. CASE Die(t)
    BY <1>1, <1>2, <2>1, <2>3, OwnQuiet DEF Die
  <2> QED BY <1>6, <2>2, <2>3 DEF on_add_nodes
<1>7. CASE RemoveNotify(t)
  <2>1. thread[t].pc = "notify" /\ thread[t].op = "remove"
    BY <1>7 DEF RemoveNotify, At
  <2>2. CASE Goto(t, "drop") /\ state' = [state EXCEPT ![s] = "RUNNING"]
    BY <1>1, <1>2, <1>3, <2>1, <2>2, OwnQuiet DEF Pc, BusyPc
  <2>3. CASE Die(t) /\ UNCHANGED state
    BY <1>1, <1>2, <2>1, <2>3, OwnQuiet DEF Die
  <2> QED BY <1>7, <2>2, <2>3 DEF RemoveNotify
<1>8. CASE AddNotify(t) \/ MountVolume(t) \/ DestroyVolume(t)
  <2>1. /\ thread[t].pc \in BusyPc /\ thread[t].op \notin {"start", "remove"}
        /\ thread'[t] = None
        /\ state'[s] \in {state[s], "RUNNING", "ERROR"}
    BY <1>1, <1>8 DEF AddNotify, MountVolume, DestroyVolume, At, Finish, Done, Die,
                      BusyPc
  <2> QED BY <1>1, <1>2, <2>1, OwnQuiet
<1>9. CASE CreateVolume(t)
  <2>1. thread[t].pc = "call" /\ thread[t].op = "mkvol"
    BY <1>9 DEF CreateVolume, At
  <2>2. CASE Finish(t, "ERROR")
    BY <1>1, <1>2, <2>1, <2>2, OwnQuiet DEF Finish, Done, BusyPc
  <2>3. ASSUME NEW d \in 0..MaxDev, UNCHANGED state,
               thread' = [thread EXCEPT ![t].pc = "mount", ![t].dev = d]
        PROVE  InOrder(s)'
    <3> DEFINE w == [thread[t] EXCEPT !.pc = "mount", !.dev = d]
    <3>1. w \in Worker /\ w.nodes = thread[t].nodes /\ w.gone = thread[t].gone
          /\ w.pc = "mount"
      BY <1>1 DEF Worker, Pc
    <3>2. thread' = [thread EXCEPT ![t] = w]
      BY <2>3
    <3> HIDE DEF w
    <3>3. thread'[t] = w /\ thread'[t] # None
      BY <1>1, <3>1, <3>2, WorkerAssumption
    <3> QED BY <1>1, <1>2, <2>1, <2>3, <3>1, <3>3, OwnQuiet DEF BusyPc
  <2> QED BY <1>9, <2>2, <2>3 DEF CreateVolume
<1> QED BY <1>4, <1>5, <1>6, <1>7, <1>8, <1>9

\* The reply of the director: nodes, an error, or an answer that is lost.
LEMMA OwnCreated ==
    ASSUME IInv, IInv', Removers, NEW t \in Thread, Frame(t),
           CreateNodes(t) \/ CreateRefused(t) \/ CreateLost(t),
           NEW s \in Service, s = thread[t].sid, InOrder(s)
    PROVE  InOrder(s)'
<1>1. /\ thread[t] \in Worker /\ thread[t] # None
      /\ thread \in [Thread -> Worker \cup {None}] /\ snodes[s] \in Seq(Item)
      /\ snodes \in [Service -> Seq(Item)]
      /\ thread[t].op \in {"start", "add"} /\ thread[t].pc = "call"
      /\ UNCHANGED <<state, master>>
  BY DEF IInv, TypeOK, CreateNodes, CreateRefused, CreateLost, At
<1>2. CASE Die(t) /\ UNCHANGED snodes
  <2>1. thread'[t] = None /\ s \in died'
    BY <1>1, <1>2 DEF Die
  <2> QED BY <1>1, <1>2, <2>1, OwnLost
<1>3. ASSUME NEW q \in Seq(Item), \A n \in ToSet(q) : n = Junk \/ owner[n] = None,
             up' \subseteq up \cup ToSet(q),
             \A n \in up \ ToSet(q) : owner'[n] = owner[n],
             Deliver(t, q)
      PROVE  InOrder(s)'
  <2>1. CASE thread[t].op = "add" /\ snodes[s] = ErrorReply
    BY <1>2, <1>3, <2>1 DEF Deliver
  <2>2. CASE ~(thread[t].op = "add" /\ snodes[s] = ErrorReply)
    <3> DEFINE w == [thread[t] EXCEPT !.pc = "hook", !.nodes = q]
    <3>1. /\ thread' = [thread EXCEPT ![t] = w]
          /\ snodes'[s] = IF thread[t].op = "add" THEN snodes[s] \o q ELSE q
      BY <1>1, <1>3, <2>2 DEF Deliver
    <3>2. w \in Worker /\ w.pc = "hook" /\ w.nodes = q
      BY <1>1, <1>3 DEF Worker, Pc
    <3> HIDE DEF w
    <3>3. thread'[t] = w /\ thread'[t] # None
      BY <1>1, <3>1, <3>2, WorkerAssumption
    <3> QED BY <1>1, <1>3, <3>1, <3>2, <3>3, OwnDeliver
  <2> QED BY <2>1, <2>2
<1>4. CASE CreateRefused(t)
  <2>1. ErrorReply \in Seq(Item) /\ \A n \in ToSet(ErrorReply) : n = Junk
    BY DEF ErrorReply, Item, ToSet
  <2> QED BY <1>3, <1>4, <2>1 DEF CreateRefused
<1>5. CASE CreateNodes(t) \/ CreateLost(t)
  <2>1. PICK k \in 1..thread[t].count : \E q \in Fresh(k) :
          Launch(q, s) /\ (Deliver(t, q) \/ (Die(t) /\ UNCHANGED snodes))
    BY <1>5 DEF CreateNodes, CreateLost
  <2>2. PICK q \in Fresh(k) :
          Launch(q, s) /\ (Deliver(t, q) \/ (Die(t) /\ UNCHANGED snodes))
    BY <2>1
  <2>3. k \in Nat \ {0}
    BY <1>1, BoundAssumption DEF Worker
  <2>4. q \in Seq(Node) /\ (\A n \in ToSet(q) : owner[n] = None)
        /\ up' = up \cup ToSet(q) /\ \A n \in Node \ ToSet(q) : owner'[n] = owner[n]
    BY <2>2, <2>3, FreshNodes, LaunchOwns
  <2>5. q \in Seq(Item) /\ up \subseteq Node
    BY <2>4 DEF Item, IInv, TypeOK
  <2> QED BY <1>2, <1>3, <2>2, <2>4, <2>5
<1> QED BY <1>4, <1>5

\* Whatever a worker does, its service stays in order unless it is stopped.
LEMMA WorkInOrder ==
    ASSUME IInv, IInv', Stopped, Removers, NEW t \in Thread, Work(t),
           NEW s \in Service \ stops, InOrder(s)
    PROVE  InOrder(s)'
<1>1. Frame(t)
  BY WorkFrame
<1>2. thread[t] # None
  BY DEF Work, Begin, CreateNodes, CreateRefused, CreateFailed, CreateLost,
     on_start, on_add_nodes, AddNotify, on_remove_nodes, RemoveNotify, on_stop,
     ClearService, DropNode, Release, Forget, CreateVolume, MountVolume,
     DestroyVolume, At
<1>3. CASE s # thread[t].sid
  BY <1>1, <1>2, <1>3, OthersStep
<1>4. CASE s = thread[t].sid
  <2>1. thread[t].op \notin {"stop", "unregister"}
    BY <1>2, <1>4 DEF Stopped
  <2>2. ~on_stop(t) /\ ~ClearService(t) /\ ~Forget(t)
        /\ (DropNode(t) \/ Release(t) => thread[t].op = "remove")
    BY <2>1 DEF on_stop, ClearService, Forget, DropNode, Release, At
  <2>3. CASE CreateNodes(t) \/ CreateRefused(t) \/ CreateLost(t)
    BY <1>1, <1>4, <2>3, OwnCreated
  <2>4. CASE on_start(t)
    BY <1>1, <1>4, <2>4, OwnStarted
  <2>5. CASE on_remove_nodes(t)
    BY <1>1, <1>4, <2>5, OwnPopped
  <2>6. CASE DropNode(t)
    BY <1>1, <1>4, <2>2, <2>6, OwnDropped
  <2>7. CASE Release(t)
    BY <1>1, <1>4, <2>2, <2>7, OwnReleased
  <2> QED BY <1>1, <1>4, <2>2, <2>3, <2>4, <2>5, <2>6, <2>7, OwnOther DEF Work
<1> QED BY <1>3, <1>4

\* Those that remove hold nothing but nodes, and nothing when they are done.
LEMMA RemoversStep ==
    ASSUME IInv, Removers, NEW t \in Thread, Work(t), Frame(t)
    PROVE  Removers'
<1>1. SUFFICES ASSUME thread'[t] # None, thread[t].op = "remove"
               PROVE  /\ thread'[t].pc \in {"hook", "release"} =>
                           thread'[t].nodes = <<>>
                      /\ Junk \notin ToSet(thread'[t].nodes)
  BY DEF Removers, Frame
<1>2. /\ on_remove_nodes(t) \/ RemoveNotify(t) \/ DropNode(t) \/ Release(t)
      /\ thread[t] # None
  BY <1>1 DEF Work, Begin, CreateNodes, CreateRefused, CreateFailed, CreateLost,
     on_start, on_add_nodes, AddNotify, on_remove_nodes, RemoveNotify, on_stop,
     ClearService, DropNode, Release, Forget, CreateVolume, MountVolume,
     DestroyVolume, At
<1>3. /\ thread[t] \in Worker /\ thread[t].nodes \in Seq(Item)
      /\ thread \in [Thread -> Worker \cup {None}]
      /\ snodes[thread[t].sid] \in Seq(Item) /\ thread[t].count \in Nat \ {0}
      /\ Junk \notin ToSet(thread[t].nodes)
  BY <1>1, <1>2, BoundAssumption
     DEF IInv, TypeOK, Worker, ThreadsOK, WorkerOK, Removers
<1>4. CASE on_remove_nodes(t)
  <2> DEFINE q == snodes[thread[t].sid]
             k == thread[t].count
  <2>1. Fits(thread[t].sid, k)
    BY <1>1, <1>3, <1>4 DEF on_remove_nodes, Die
  <2>2. /\ k \in 1..Len(q) /\ Junk \notin ToSet(q) /\ Popped(q, k) \in Seq(Item)
        /\ ToSet(Popped(q, k)) \subseteq ToSet(q)
    BY <1>3, <2>1, PoppedElements DEF Fits
  <2>3. /\ thread'[t].nodes = Popped(q, k)
        /\ thread'[t].pc = IF Kept(q, k) = <<>> THEN "drop" ELSE "notify"
    BY <1>3, <1>4, <2>1, <2>2 DEF on_remove_nodes, Worker
  <2> QED BY <2>2, <2>3
<1>5. CASE RemoveNotify(t)
  BY <1>1, <1>3, <1>5 DEF RemoveNotify, Goto, Die, Worker
<1>6. CASE DropNode(t)
  <2>1. /\ thread'[t].nodes = Tail(thread[t].nodes)
        /\ thread'[t].pc = IF Tail(thread[t].nodes) = <<>>
                           THEN "release" ELSE "drop"
    BY <1>1, <1>3, <1>6 DEF DropNode, NextNode, Die, Worker
  <2>2. thread[t].nodes # <<>>
    BY <1>2, <1>6 DEF DropNode, At, IInv, ThreadsOK, WorkerOK
  <2> QED BY <1>3, <2>1, <2>2, TailElements
<1>7. CASE Release(t)
  BY <1>1, <1>3, <1>7 DEF Release
<1> QED BY <1>2, <1>4, <1>5, <1>6, <1>7

-----------------------------------------------------------------------------
(* Volumes. *)

\* Nothing but the last step of a creation enters a volume into the table.
LEMMA VolumesQuiet ==
    ASSUME IInv, VolumesOK, DevicesDistinct, NEW t \in Thread, Frame(t),
           thread[t] # None,
           \A v \in VolName : volumes'[v] \in {volumes[v], None},
           thread'[t] # None => thread[t].op # "mkvol"
    PROVE  VolumesOK' /\ DevicesDistinct'
<1>1. /\ volumes \in [VolName -> [node : Node, dev : 0..MaxDev] \cup {None}]
      /\ \A v \in VolName : volumes[v] # None => volumes[v].node \in Node
  BY DEF IInv, TypeOK
<1>2. /\ \A v \in VolName : volumes'[v] # None =>
           /\ volumes'[v] = volumes[v]
           /\ owner'[volumes[v].node] = owner[volumes[v].node]
           /\ owner[volumes[v].node] # None
      /\ UNCHANGED <<request, stops>>
  BY <1>1 DEF VolumesOK, Frame
<1>3. ASSUME NEW v \in VolName, NEW s, NameFree(v, s) PROVE NameFree(v, s)'
  BY <1>2, <1>3 DEF NameFree
<1>4. ASSUME NEW n PROVE dev_names_in_use(n)' \subseteq dev_names_in_use(n)
  BY <1>2 DEF dev_names_in_use
<1>5. request # None /\ request.op = "mkvol" =>
        /\ owner'[request.at] = request.sid
        /\ request.sid \notin stops => NameFree(request.vol, request.sid)'
  <2>1. SUFFICES ASSUME request # None, request.op = "mkvol"
                 PROVE  /\ owner'[request.at] = request.sid
                        /\ request.sid \notin stops =>
                             NameFree(request.vol, request.sid)'
    OBVIOUS
  <2>2. /\ request.vol \in VolName /\ request.at \in Node
        /\ request.sid \in Service /\ owner[request.at] = request.sid
        /\ request.sid \notin stops => NameFree(request.vol, request.sid)
    BY <2>1 DEF IInv, TypeOK, RequestOK, Request, VolumesOK
  <2>3. owner'[request.at] = owner[request.at]
    BY <2>2, NoneAssumption DEF Frame, Service
  <2> QED BY <1>2, <2>2, <2>3 DEF NameFree
<1>6. ASSUME NEW u \in Thread, thread'[u] # None, thread'[u].op = "mkvol"
      PROVE  /\ owner'[thread'[u].at] = thread'[u].sid
             /\ thread'[u].pc \in {"call", "mount"}
             /\ thread'[u].sid \notin stops' =>
                  /\ NameFree(thread[u].vol, thread[u].sid)'
                  /\ thread'[u].pc = "mount" =>
                       thread'[u].dev \notin dev_names_in_use(thread[u].at)'
  <2>1. thread'[u] = thread[u] /\ thread[u] \in Worker /\ WorkerOK(thread[u])
    BY <1>6 DEF Frame, IInv, TypeOK, ThreadsOK
  <2>2. /\ thread[u].vol \in VolName /\ thread[u].at \in Node
        /\ thread[u].sid \in Service /\ owner[thread[u].at] = thread[u].sid
        /\ thread[u].pc \in {"call", "mount"}
        /\ thread[u].sid \notin stops =>
             /\ NameFree(thread[u].vol, thread[u].sid)
             /\ thread[u].pc = "mount" =>
                  thread[u].dev \notin dev_names_in_use(thread[u].at)
    BY <1>6, <2>1 DEF WorkerOK, Worker, VolumesOK
  <2>3. owner'[thread[u].at] = owner[thread[u].at]
    BY <2>2, NoneAssumption DEF Frame, Service
  <2> QED BY <1>2, <2>1, <2>2, <2>3 DEF NameFree, dev_names_in_use
<1>7. VolumesOK'
  BY <1>2, <1>5, <1>6 DEF VolumesOK
<1>8. DevicesDistinct'
  BY <1>2 DEF DevicesDistinct
<1> QED BY <1>7, <1>8

\* A volume enters the table under a name and with a device that no other volume
\* of the service has: its worker is the only one that is busy for the service.
LEMMA VolumesMount ==
    ASSUME IInv, VolumesOK, DevicesDistinct, NEW t \in Thread, MountVolume(t),
           \A s \in Service \ stops : InOrder(s), Frame(t)
    PROVE  /\ VolumesOK' /\ DevicesDistinct'
           /\ \A v \in VolName :
                volumes[v] # None /\ volumes'[v] \notin {None, volumes[v]} =>
                  \/ owner[volumes'[v].node] # owner[volumes[v].node]
                  \/ owner[volumes'[v].node] \in stops
<1> DEFINE s == thread[t].sid
           n == thread[t].at
           x == thread[t].vol
           e == [node |-> n, dev |-> thread[t].dev]
<1>1. /\ thread[t] \in Worker /\ thread[t] # None /\ thread[t].op = "mkvol"
      /\ thread[t].pc = "mount" /\ s \in Service /\ x \in VolName /\ n \in Node
      /\ thread'[t] = None /\ owner[n] = s
      /\ s \notin stops => /\ NameFree(x, s)
                           /\ thread[t].dev \notin dev_names_in_use(n)
      /\ volumes \in [VolName -> [node : Node, dev : 0..MaxDev] \cup {None}]
      /\ \A v \in VolName : volumes[v] # None => volumes[v].node \in Node
      /\ s # None
  BY NoneAssumption
     DEF MountVolume, At, IInv, TypeOK, Worker, ThreadsOK, WorkerOK, VolumesOK,
         Finish, Done, Service
<1>2. CASE UNCHANGED volumes
  BY <1>1, <1>2, VolumesQuiet
<1>3. CASE volumes' = [volumes EXCEPT ![x] = e]
  <2>1. /\ volumes'[x] = e /\ e.node = n /\ e.dev = thread[t].dev
        /\ \A v \in VolName \ {x} : volumes'[v] = volumes[v]
        /\ UNCHANGED <<owner, request, stops>>
    BY <1>1, <1>3 DEF MountVolume
  <2>2. s \notin stops => Busy(t, s) /\ Lock(s)
    BY <1>1 DEF Busy, InOrder
  <2> HIDE DEF e, s, n, x
  <2>3. ASSUME NEW r \in Service, r # s, NEW v \in VolName, NameFree(v, r)
        PROVE  NameFree(v, r)'
    BY <1>1, <2>1, <2>3 DEF NameFree
  <2>4. \A v \in VolName : volumes'[v] # None => owner'[volumes'[v].node] # None
    BY <1>1, <2>1 DEF VolumesOK
  <2>5. request # None /\ request.op = "mkvol" =>
          /\ owner'[request.at] = request.sid
          /\ request.sid \notin stops => NameFree(request.vol, request.sid)'
    <3>1. SUFFICES ASSUME request # None, request.op = "mkvol"
                   PROVE  /\ owner'[request.at] = request.sid
                          /\ request.sid \notin stops =>
                               NameFree(request.vol, request.sid)'
      OBVIOUS
    <3>2. /\ request.vol \in VolName /\ request.sid \in Service
          /\ owner[request.at] = request.sid
          /\ request.sid \notin stops => NameFree(request.vol, request.sid)
      BY <3>1 DEF IInv, TypeOK, RequestOK, Request, VolumesOK
    <3>3. request.sid = s => s \in stops
      BY <2>2, <3>1 DEF Lock
    <3>4. request.sid \notin stops => NameFree(request.vol, request.sid)'
      BY <2>1, <2>3, <3>2, <3>3 DEF NameFree
    <3> QED BY <2>1, <3>2, <3>4
  <2>6. ASSUME NEW u \in Thread, thread'[u] # None, thread'[u].op = "mkvol"
        PROVE  /\ owner'[thread'[u].at] = thread'[u].sid
               /\ thread'[u].pc \in {"call", "mount"}
               /\ thread'[u].sid \notin stops' =>
                    /\ NameFree(thread[u].vol, thread[u].sid)'
                    /\ thread'[u].pc = "mount" =>
                         thread'[u].dev \notin dev_names_in_use(thread[u].at)'
    <3>1. u # t /\ thread'[u] = thread[u] /\ thread[u] \in Worker
          /\ WorkerOK(thread[u])
      BY <1>1, <2>6 DEF Frame, IInv, TypeOK, ThreadsOK
    <3>2. /\ thread[u].vol \in VolName /\ thread[u].sid \in Service
          /\ owner[thread[u].at] = thread[u].sid
          /\ thread[u].pc \in {"call", "mount"}
          /\ thread[u].sid \notin stops =>
               /\ NameFree(thread[u].vol, thread[u].sid)
               /\ thread[u].pc = "mount" =>
                    thread[u].dev \notin dev_names_in_use(thread[u].at)
      BY <2>6, <3>1 DEF WorkerOK, Worker, VolumesOK
    <3>3. thread[u].sid = s => s \in stops
      BY <2>2, <2>6, <3>1, <3>2 DEF Lock, Busy
    <3>4. thread[u].sid # s => n # thread[u].at
      BY <1>1, <3>2
    <3>5. n # thread[u].at =>
            \A v \in VolName : volumes'[v] # None /\ volumes'[v].node = thread[u].at
              => volumes'[v] = volumes[v]
      BY <1>1, <2>1
    <3>6. thread[u].sid \notin stops => NameFree(thread[u].vol, thread[u].sid)'
      BY <1>1, <2>1, <3>1, <3>2, <3>3 DEF NameFree
    <3>7. thread[u].sid \notin stops /\ thread[u].pc = "mount" =>
            thread[u].dev \notin dev_names_in_use(thread[u].at)'
      BY <3>1, <3>2, <3>3, <3>4, <3>5 DEF dev_names_in_use
    <3> QED BY <2>1, <3>1, <3>2, <3>6, <3>7
  <2>7. VolumesOK'
    BY <2>1, <2>4, <2>5, <2>6 DEF VolumesOK
  <2>8. DevicesDistinct'
    BY <1>1, <2>1 DEF DevicesDistinct, dev_names_in_use
  <2>9. \A v \in VolName :
          volumes[v] # None /\ volumes'[v] \notin {None, volumes[v]} =>
            \/ owner[volumes'[v].node] # owner[volumes[v].node]
            \/ owner[volumes'[v].node] \in stops
    BY <1>1, <2>1 DEF NameFree
  <2> QED BY <2>7, <2>8, <2>9
<1> QED BY <1>2, <1>3 DEF MountVolume

\* The table of volumes stays in order, whatever a worker does.
LEMMA VolumesStep ==
    ASSUME LInv, NEW t \in Thread, Work(t), Frame(t), thread[t] # None
    PROVE  VolumesOK' /\ DevicesDistinct'
<1> USE DEF LInv
<1>1. /\ thread[t] \in Worker
      /\ thread \in [Thread -> Worker \cup {None}]
      /\ volumes \in [VolName -> [node : Node, dev : 0..MaxDev] \cup {None}]
  BY DEF IInv, TypeOK
<1>2. CASE MountVolume(t)
  BY <1>2, VolumesMount
<1>3. CASE DestroyVolume(t)
  <2>1. \A v \in VolName : volumes'[v] \in {volumes[v], None}
    BY <1>1, <1>3 DEF DestroyVolume
  <2>2. thread[t].op # "mkvol"
    BY <1>3 DEF DestroyVolume, At
  <2> QED BY <2>1, <2>2, VolumesQuiet
<1>4. CASE DropNode(t)
  <2>1. \A v \in VolName : volumes'[v] \in {volumes[v], None}
    BY <1>4 DEF DropNode, DeleteVolumes
  <2>2. thread[t].op # "mkvol"
    BY <1>4 DEF DropNode, At
  <2> QED BY <2>1, <2>2, VolumesQuiet
<1>5. CASE CreateVolume(t)
  <2>1. UNCHANGED volumes /\ thread[t].op = "mkvol"
    BY <1>5 DEF CreateVolume, At
  <2>2. CASE thread'[t] = None
    BY <2>1, <2>2, VolumesQuiet
  <2>3. ASSUME NEW d \in 0..MaxDev, d \notin dev_names_in_use(thread[t].at),
               thread' = [thread EXCEPT ![t].pc = "mount", ![t].dev = d]
        PROVE  VolumesOK' /\ DevicesDistinct'
    <3>1. /\ thread'[t].op = "mkvol" /\ thread'[t].pc = "mount"
          /\ thread'[t].dev = d /\ thread'[t].at = thread[t].at
          /\ thread'[t].vol = thread[t].vol /\ thread'[t].sid = thread[t].sid
      BY <1>1, <2>1, <2>3 DEF Worker
    <3>2. UNCHANGED <<volumes, owner, request, stops>>
      BY <1>5 DEF CreateVolume
    <3>3. /\ owner[thread[t].at] = thread[t].sid
          /\ thread[t].sid \notin stops => NameFree(thread[t].vol, thread[t].sid)
      BY <2>1 DEF VolumesOK
    <3>4. ASSUME NEW u \in Thread, thread'[u] # None, thread'[u].op = "mkvol"
          PROVE  /\ owner'[thread'[u].at] = thread'[u].sid
                 /\ thread'[u].pc \in {"call", "mount"}
                 /\ thread'[u].sid \notin stops' =>
                      /\ NameFree(thread'[u].vol, thread'[u].sid)
                      /\ thread'[u].pc = "mount" =>
                           thread'[u].dev \notin dev_names_in_use(thread'[u].at)
      <4>1. CASE u = t
        BY <2>3, <3>1, <3>2, <3>3, <4>1
      <4>2. CASE u # t
        BY <3>2, <3>4, <4>2 DEF Frame, VolumesOK
      <4> QED BY <4>1, <4>2
    <3>5. VolumesOK'
      BY <3>2, <3>4 DEF VolumesOK, NameFree, dev_names_in_use
    <3> QED BY <3>2, <3>5 DEF DevicesDistinct
  <2> QED BY <1>1, <1>5, <2>2, <2>3 DEF CreateVolume, Finish, Done
<1>6. CASE \/ Begin(t) \/ CreateNodes(t) \/ CreateRefused(t) \/ CreateFailed(t)
           \/ CreateLost(t) \/ on_start(t) \/ on_add_nodes(t) \/ AddNotify(t)
           \/ on_remove_nodes(t) \/ RemoveNotify(t) \/ on_stop(t)
           \/ ClearService(t) \/ Release(t) \/ Forget(t)
  <2>1. UNCHANGED volumes /\ thread[t].op # "mkvol"
    BY <1>6 DEF Begin, CreateNodes, CreateRefused, CreateFailed, CreateLost,
       on_start, on_add_nodes, AddNotify, on_remove_nodes, RemoveNotify, on_stop,
       ClearService, Release, Forget, At
  <2> QED BY <2>1, VolumesQuiet
<1> QED BY <1>2, <1>3, <1>4, <1>5, <1>6 DEF Work

\* Whatever a worker does, everything stays in order.
LEMMA WorkKeeps ==
    ASSUME LInv, IInv', NEW t \in Thread, Work(t)
    PROVE  LInv'
<1>1. thread[t] # None
  BY DEF Work, Begin, CreateNodes, CreateRefused, CreateFailed, CreateLost,
     on_start, on_add_nodes, AddNotify, on_remove_nodes, RemoveNotify, on_stop,
     ClearService, DropNode, Release, Forget, CreateVolume, MountVolume,
     DestroyVolume, At
<1>2. Frame(t)
  BY WorkFrame DEF LInv
<1>3. Stopped'
  BY <1>1, <1>2 DEF LInv, Stopped, Frame
<1>4. Removers'
  BY <1>2, RemoversStep DEF LInv
<1>5. VolumesOK' /\ DevicesDistinct'
  BY <1>1, <1>2, VolumesStep
<1>6. stops' = stops
  BY <1>2 DEF Frame
<1>7. \A s \in Service \ stops : InOrder(s)'
  BY WorkInOrder DEF LInv
<1> QED BY <1>3, <1>4, <1>5, <1>6, <1>7 DEF LInv

-----------------------------------------------------------------------------
(* The server thread. *)

\* A request enters only when the service is not adapting, and so not busy, or
\* to stop it; the name of a new volume is free then.
LEMMA CheckKeeps ==
    ASSUME LInv, IInv', NEW op \in Op, NEW s \in Service, NEW k, NEW v, NEW n,
           Checked(op, s, k, v, n),
           \/ op \in {"stop", "unregister"}
           \/ op = "start" /\ state[s] \in {"INIT", "STOPPED"}
           \/ op \notin {"start", "stop", "unregister"} /\ state[s] = "RUNNING",
           op = "mkvol" => owner[n] = s /\ volumes[v] = None
    PROVE  LInv'
<1>1. /\ UNCHANGED <<state, snodes, master, volumes, thread, up, owner, stops,
                     died>>
      /\ request'.op = op /\ request'.sid = s /\ request'.vol = v
      /\ request'.at = n
  BY DEF Checked
<1>2. Stopped' /\ Removers' /\ DevicesDistinct'
  BY <1>1 DEF LInv, Stopped, Removers, DevicesDistinct
<1>3. VolumesOK'
  BY <1>1 DEF LInv, VolumesOK, NameFree, dev_names_in_use
<1>4. ASSUME NEW r \in Service \ stops PROVE InOrder(r)'
  <2>1. InOrder(r)
    BY DEF LInv
  <2>2. Lock(r)'
    <3>1. r = s /\ op \notin {"stop", "unregister"} =>
            \A t \in Thread : ~Busy(t, r)
      BY <2>1 DEF InOrder, Lock
    <3> QED BY <1>1, <2>1, <3>1 DEF InOrder, Lock, Busy
  <2>3. Mastered(r)' /\ Anew(r)' /\ Covered(r)'
    BY <1>1, <2>1 DEF InOrder, Mastered, Anew, Covered, Is, Held, Replaceable
  <2> QED BY <2>2, <2>3 DEF InOrder
<1> QED BY <1>1, <1>2, <1>3, <1>4 DEF LInv

\* The handlers of requests, and a request that is refused late.
LEMMA ServerKeeps ==
    ASSUME LInv, IInv', Handle \/ Refuse
    PROVE  LInv'
<1>1. CASE add_service \/ Refuse
  <2>1. /\ UNCHANGED <<state, snodes, master, volumes, thread, up, owner, stops,
                       died>>
        /\ request' \in {request, None}
    BY <1>1 DEF add_service, Refuse
  <2>2. Stopped' /\ Removers' /\ DevicesDistinct' /\ VolumesOK'
    BY <2>1 DEF LInv, Stopped, Removers, DevicesDistinct, VolumesOK, NameFree,
                dev_names_in_use
  <2>3. ASSUME NEW r \in Service \ stops PROVE InOrder(r)'
    <3>1. Lock(r)'
      BY <2>1 DEF LInv, InOrder, Lock, Busy
    <3>2. Mastered(r)' /\ Anew(r)'
      BY <2>1 DEF LInv, InOrder, Mastered, Anew, Is
    <3>3. Covered(r)'
      BY <2>1 DEF LInv, InOrder, Covered, Is, Held, Replaceable
    <3> QED BY <3>1, <3>2, <3>3 DEF InOrder
  <2> QED BY <2>1, <2>2, <2>3 DEF LInv
<1>2. ASSUME NEW s \in Service, \/ start_service(s) \/ stop_service(s)
                                \/ remove_service(s)
      PROVE  LInv'
  BY <1>2, CheckKeeps
     DEF start_service, stop_service, remove_service, Op
<1>3. ASSUME NEW s \in Service, NEW k \in 1..MaxCount,
             add_nodes(s, k) \/ remove_nodes(s, k)
      PROVE  LInv'
  BY <1>3, CheckKeeps DEF add_nodes, remove_nodes, Op
<1>4. ASSUME NEW s \in Service, NEW v \in VolName, NEW n \in Node,
             create_volume(s, v, n)
      PROVE  LInv'
  <2>1. owner[n] = s /\ volumes[v] = None /\ state[s] = "RUNNING"
    BY <1>4, NodeAssumption DEF create_volume, LInv, IInv, NodesLive
  <2> QED BY <1>4, <2>1, CheckKeeps DEF create_volume, Op
<1>5. ASSUME NEW s \in Service, NEW v \in VolName, delete_volume(s, v)
      PROVE  LInv'
  BY <1>5, CheckKeeps DEF delete_volume, Op
<1> QED BY <1>1, <1>2, <1>3, <1>4, <1>5 DEF Handle

\* A commit starts the one busy worker of the service and shows its state.
LEMMA CommitKeeps ==
    ASSUME LInv, IInv', NEW t \in Thread, Commit(t)
    PROVE  LInv'
<1> DEFINE op == request.op
           x == request.sid
<1>1. /\ request \in Request /\ request # None /\ op \in Op /\ x \in Service
      /\ thread \in [Thread -> Worker \cup {None}] /\ thread[t] = None
      /\ state \in [Service -> State]
  BY DEF Commit, LInv, IInv, TypeOK, Request
<1>2. /\ UNCHANGED <<snodes, master, volumes, up, owner, died>>
      /\ request' = None
      /\ \A s \in Service \ {x} : state'[s] = state[s]
      /\ state'[x] = CommitState(op, state[x])
      /\ stops \subseteq stops'
      /\ op \in {"stop", "unregister"} => x \in stops'
  BY <1>1 DEF Commit
<1>3. /\ thread'[t].op = op /\ thread'[t].sid = x /\ thread'[t].nodes = <<>>
      /\ thread'[t].gone = {} /\ thread'[t].pc = FirstPc(op)
      /\ thread'[t].vol = request.vol /\ thread'[t].at = request.at
      /\ \A u \in Thread \ {t} : thread'[u] = thread[u]
  BY <1>1 DEF Commit
<1> HIDE DEF op, x
<1>4. Stopped'
  BY <1>2, <1>3 DEF LInv, Stopped
<1>5. Removers'
  BY <1>3 DEF LInv, Removers, FirstPc, ToSet
<1>6. DevicesDistinct'
  BY <1>2 DEF LInv, DevicesDistinct
<1>7. VolumesOK'
  <2>1. ASSUME NEW u \in Thread, thread'[u] # None, thread'[u].op = "mkvol"
        PROVE  /\ owner[thread'[u].at] = thread'[u].sid
               /\ thread'[u].pc \in {"call", "mount"}
               /\ thread'[u].sid \notin stops' =>
                    /\ NameFree(thread'[u].vol, thread'[u].sid)
                    /\ thread'[u].pc = "mount" =>
                         thread'[u].dev \notin dev_names_in_use(thread'[u].at)
    <3>1. CASE u = t
      BY <1>1, <1>2, <1>3, <2>1, <3>1 DEF LInv, VolumesOK, FirstPc, op, x
    <3>2. CASE u # t
      BY <1>2, <1>3, <2>1, <3>2 DEF LInv, VolumesOK
    <3> QED BY <3>1, <3>2
  <2>2. \A v \in VolName : volumes[v] # None => owner[volumes[v].node] # None
    BY DEF LInv, VolumesOK
  <2> QED BY <1>2, <2>1, <2>2 DEF VolumesOK, NameFree, dev_names_in_use
<1>8. ASSUME NEW s \in Service \ stops' PROVE InOrder(s)'
  <2>1. InOrder(s) /\ (s = x => op \notin {"stop", "unregister"})
    BY <1>2 DEF LInv
  <2>2. /\ \A u \in Thread : Is(u, "remove", s) => u # t /\ thread'[u] = thread[u]
        /\ \A u \in Thread : Is(u, "remove", s)' =>
             \/ Is(u, "remove", s) /\ thread'[u] = thread[u]
             \/ thread'[u].nodes = <<>>
        /\ \A u \in Thread : Is(u, "start", s)' =>
             \/ Is(u, "start", s) /\ thread'[u] = thread[u]
             \/ u = t /\ s = x /\ op = "start" /\ thread'[u].pc = "begin"
    BY <1>1, <1>3 DEF Is, FirstPc
  <2>3. s = x => /\ \A u \in Thread : ~Busy(u, s)
                 /\ IF op = "start"
                    THEN state[s] \in {"INIT", "STOPPED"} /\ state'[s] = "PROLOGUE"
                    ELSE state[s] = "RUNNING" /\ state'[s] = "ADAPTING"
    BY <1>1, <1>2, <2>1 DEF InOrder, Lock, CommitState, op, x
  <2>4. Lock(s)'
    <3>1. CASE s = x
      <4>1. \A u \in Thread : Busy(u, s)' => u = t
        BY <1>3, <2>3, <3>1 DEF Busy
      <4> QED BY <1>2, <1>3, <2>3, <3>1, <4>1 DEF Lock
    <3>2. CASE s # x
      <4>1. \A u \in Thread : Busy(u, s)' => Busy(u, s) /\ thread'[u] = thread[u]
        BY <1>3, <3>2 DEF Busy
      <4> QED BY <1>2, <2>1, <3>2, <4>1 DEF InOrder, Lock
    <3> QED BY <3>1, <3>2
  <2>5. state'[s] \in {"RUNNING", "ADAPTING"} =>
          state[s] \in {"RUNNING", "ADAPTING"}
    BY <1>2, <2>3
  <2>6. Mastered(s)'
    BY <1>2, <2>1, <2>2, <2>5 DEF InOrder, Mastered, ToSet
  <2>7. Anew(s)'
    <3>1. SUFFICES ASSUME NEW u \in Thread, Is(u, "start", s)',
                          thread'[u].pc = "hook"
                   PROVE  /\ snodes[s] = thread'[u].nodes
                          /\ \A r \in Thread : Is(r, "remove", s)' =>
                               ToSet(thread'[r].nodes) \cap ToSet(snodes[s]) = {}
      BY <1>2 DEF Anew
    <3>2. /\ snodes[s] = thread'[u].nodes
          /\ \A r \in Thread : Is(r, "remove", s) =>
               ToSet(thread[r].nodes) \cap ToSet(snodes[s]) = {}
      BY <2>1, <2>2, <3>1 DEF InOrder, Anew
    <3>3. ToSet(<<>>) = {}
      BY DEF ToSet
    <3> QED BY <2>2, <3>2, <3>3
  <2>8. Covered(s)'
    <3>1. \A n : Held(n, s) => Held(n, s)'
      BY <2>2 DEF Held, Is
    <3>2. Replaceable(s)' => Replaceable(s)
      BY <1>2, <2>2, <2>3 DEF Replaceable
    <3> QED BY <1>2, <2>1, <3>1, <3>2 DEF InOrder, Covered
  <2> QED BY <2>4, <2>6, <2>7, <2>8 DEF InOrder
<1> QED BY <1>4, <1>5, <1>6, <1>7, <1>8 DEF LInv

-----------------------------------------------------------------------------
(* The theorems. *)

\* Nothing is out of order before the first service is added.
LEMMA InitOrder == Init => LInv
<1> SUFFICES ASSUME Init PROVE LInv
  OBVIOUS
<1>1. IInv
  BY InitOK
<1>2. Stopped /\ Removers /\ VolumesOK /\ DevicesDistinct
  BY DEF Init, Stopped, Removers, VolumesOK, DevicesDistinct
<1>3. \A s \in Service : InOrder(s)
  BY DEF Init, InOrder, Lock, Busy, Mastered, Anew, Is, Covered, ToSet
<1> QED BY <1>1, <1>2, <1>3 DEF LInv

\* Every step of the server thread and of every worker keeps LInv.
LEMMA NextOrder == LInv /\ [Next]_vars => LInv'
<1> SUFFICES ASSUME LInv, [Next]_vars PROVE LInv'
  OBVIOUS
<1>1. IInv'
  BY NextOK DEF LInv
<1>2. CASE UNCHANGED vars
  <2> USE <1>2 DEF vars
  <2>1. Stopped' /\ Removers' /\ VolumesOK' /\ DevicesDistinct'
    BY DEF LInv, Stopped, Removers, VolumesOK, NameFree, dev_names_in_use,
           DevicesDistinct
  <2>2. ASSUME NEW s \in Service \ stops PROVE InOrder(s)'
    <3>1. Lock(s)'
      BY DEF LInv, InOrder, Lock, Busy
    <3>2. Mastered(s)' /\ Anew(s)'
      BY DEF LInv, InOrder, Mastered, Anew, Is
    <3>3. Covered(s)'
      BY DEF LInv, InOrder, Covered, Is, Held, Replaceable
    <3> QED BY <3>1, <3>2, <3>3 DEF InOrder
  <2> QED BY <1>1, <2>1, <2>2 DEF LInv
<1>3. CASE Handle \/ Refuse
  BY <1>1, <1>3, ServerKeeps
<1>4. ASSUME NEW t \in Thread, Commit(t) PROVE LInv'
  BY <1>1, <1>4, CommitKeeps
<1>5. ASSUME NEW t \in Thread, Work(t) PROVE LInv'
  BY <1>1, <1>5, WorkKeeps
<1> QED BY <1>2, <1>3, <1>4, <1>5 DEF Next, Serve

\* LInv is inductive.
THEOREM InOrderAlways == Spec => []LInv
BY InitOrder, NextOrder, PTL DEF Spec

\* check_state in the handlers makes the state of a service a lock: of all the
\* workers of a service that nobody stops, one at most is still to set the state,
\* and what a handler has checked is still true when it commits.
THEOREM LockAlways == Spec => []StateIsLock
<1>1. LInv => StateIsLock
  BY DEF LInv, InOrder, Lock, StateIsLock
<1> QED BY <1>1, InOrderAlways, PTL

\* Concurrent on_remove_nodes never leave a running service without its master,
\* the first node of on_start: it is popped only with all the others.
THEOREM MasterAlways == Spec => []RunningHasMaster
<1>1. LInv => RunningHasMaster
  BY DEF LInv, InOrder, Mastered, RunningHasMaster
<1> QED BY <1>1, InOrderAlways, PTL

\* While no call fails and nobody stops the service, _do_add_nodes and
\* _do_remove_nodes lose no node that the user pays for.
THEOREM NothingLeaks == Spec => []NoLeak
<1>1. LInv => NoLeak
  <2> SUFFICES ASSUME LInv, NEW n \in up, owner[n] \notin stops \cup died
               PROVE  \/ n \in nodes \cap ToSet(snodes[owner[n]])
                      \/ \E t \in Thread :
                           /\ thread[t] # None
                           /\ thread[t].sid = owner[n]
                           /\ n \in thread[t].gone \cup ToSet(thread[t].nodes)
    BY DEF NoLeak
  <2>1. owner[n] \in Service
    BY DEF LInv, IInv, TypeOK, ListsOK
  <2>2. ToSet(snodes[owner[n]]) \subseteq nodes
    BY <2>1 DEF LInv, IInv, NodesLive
  <2>3. n \in ToSet(snodes[owner[n]]) \/ Held(n, owner[n])
    BY <2>1 DEF LInv, InOrder, Covered
  <2> QED BY <2>2, <2>3 DEF Held, Is
<1> QED BY <1>1, InOrderAlways, PTL

\* _do_create_volume gives no two volumes of a node the same device, though the
\* table does not know the volumes that are on their way.
THEOREM DevicesAlwaysDistinct == Spec => []DevicesDistinct
<1>1. LInv => DevicesDistinct
  BY DEF LInv
<1> QED BY <1>1, InOrderAlways, PTL

\* userguide.rst:856 calls the name of a volume unique: create_volume checks it
\* long before _do_create_volume enters it, and no entry is overwritten meanwhile.
THEOREM NamesAlwaysKept == Spec => NamesKept
<1> DEFINE Kept_ == \A v \in VolName :
         volumes[v] # None /\ volumes'[v] \notin {None, volumes[v]} =>
           \/ owner[volumes'[v].node] # owner[volumes[v].node]
           \/ owner[volumes'[v].node] \in stops
<1>1. LInv /\ [Next]_vars => [Kept_]_vars
  <2> SUFFICES ASSUME LInv, Next PROVE Kept_
    OBVIOUS
  <2>1. CASE Handle \/ Refuse \/ \E t \in Thread : Commit(t)
    <3>1. UNCHANGED volumes
      BY <2>1 DEF Handle, Refuse, Commit, add_service, start_service,
         stop_service, remove_service, add_nodes, remove_nodes, create_volume,
         delete_volume, Checked
    <3> QED BY <3>1
  <2>2. ASSUME NEW t \in Thread, MountVolume(t) PROVE Kept_
    <3>1. Frame(t)
      BY <2>2, WorkFrame DEF LInv, Work
    <3> QED BY <2>2, <3>1, VolumesMount DEF LInv
  <2>3. ASSUME NEW t \in Thread, Work(t), ~MountVolume(t) PROVE Kept_
    <3>1. \A v \in VolName : volumes'[v] \in {volumes[v], None}
      BY <2>3 DEF LInv, IInv, TypeOK, Work, Begin, CreateNodes, CreateRefused,
         CreateFailed, CreateLost, on_start, on_add_nodes, AddNotify,
         on_remove_nodes, RemoveNotify, on_stop, ClearService, DropNode,
         DeleteVolumes, Release, Forget, CreateVolume, DestroyVolume
    <3> QED BY <3>1
  <2> QED BY <2>1, <2>2, <2>3 DEF Next, Serve
<1>2. [][LInv /\ [Next]_vars]_vars => [][Kept_]_vars
  BY <1>1, PTL
<1> QED BY <1>1, InOrderAlways, PTL DEF Spec, NamesKept
=============================================================================
