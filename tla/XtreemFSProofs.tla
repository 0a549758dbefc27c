---------------------------- MODULE XtreemFSProofs ----------------------------
(***************************************************************************)
(* Proofs about XtreemFS, for every set of machines and every MaxCount:    *)
(* types, Rooted, Settled, DataKept and NothingRefused.                    *)
(***************************************************************************)
EXTENDS XtreemFS, TLAPS

\* The machines of the service that nobody is handing back.
Mine == nodes \ leaving

\* The types of a service whose start was not refused: nothing but machines is
\* on its lists, and what it is handing back runs no daemon.
PlainCall == [do : {"create", "stop"}, role : Role, node : Node]

PlainWorker == [op : {"start", "add", "remove", "stop", "snapshot"},
                want : [Role -> 0..MaxCount], begun : BOOLEAN,
                calls : Seq(PlainCall), gone : SUBSET Node]

Plain ==
    /\ state \in State
    /\ \A q \in {dirNodes, mrcNodes, osdNodes} :
         q \in Seq(Node) /\ IsInjective(q)
    /\ nodes \subseteq Node /\ leaving \subseteq Node
    /\ runs \in [Role -> SUBSET Mine]
    /\ holds \subseteq nodes
    /\ worker \in PlainWorker \cup {None}
    /\ failed \in BOOLEAN /\ refused \in BOOLEAN /\ undrained \in BOOLEAN

\* The nodes on the list of a role.
ListOf(r) ==
    IF r = "dir" THEN dirNodes ELSE IF r = "mrc" THEN mrcNodes ELSE osdNodes

Named(r) == ToSet(ListOf(r))

\* The nodes that the worker has still to call.
Pending(do, r) ==
    {n \in Node : [do |-> do, role |-> r, node |-> n] \in ToSet(worker.calls)}

\* The state of the service is the lock of its worker.  Only a stop finds a
\* service whose last worker died.
States ==
    /\ state \in {"INIT", "STOPPED"} => worker = None /\ ~failed /\ nodes = {}
    /\ state \in {"RUNNING", "ERROR"} => worker = None /\ ~failed
    /\ worker # None =>
         /\ worker.op = "start" => state = "PROLOGUE"
         /\ worker.op \in {"add", "remove"} => state = "ADAPTING"
         /\ worker.op \in {"stop", "snapshot"} => state = "EPILOGUE"
         /\ worker.op # "stop" => ~failed

\* A node on a list is a machine of the service.
Placed == \A r \in Role : Named(r) \subseteq Mine

\* One node is the directory and the catalog, and the first OSD.
Led ==
    /\ osdNodes # <<>>
    /\ dirNodes = <<osdNodes[1]>> /\ mrcNodes = <<osdNodes[1]>>

\* The daemons that run are those on the lists, and so are the machines.
Level ==
    /\ \A r \in Role : runs[r] = Named(r)
    /\ Mine = UNION {Named(r) : r \in Role}

\* A worker that has not begun has done nothing yet, and it finds everything in
\* order unless the last worker died.
Resting ==
    /\ worker # None /\ ~worker.begun =>
         /\ worker.calls = <<>> /\ worker.gone = {}
         /\ worker.op = "start" => nodes = {}
    /\ ~failed /\ (worker = None \/ ~worker.begun) => Level
    /\ state = "RUNNING" => Led
    /\ worker # None /\ worker.op \in {"add", "remove"} => Led

\* The order in which a start creates the daemons of its node.
Order == <<"dir", "mrc", "osd">>

\* A start has created the first of the daemons in Order, and is to create
\* the others.
Starting ==
    worker # None /\ worker.op = "start" /\ worker.begun =>
      /\ Led /\ Len(osdNodes) = 1 /\ Mine = {osdNodes[1]}
      /\ Len(worker.calls) <= 3
      /\ \A i \in 1..Len(worker.calls) :
           worker.calls[i] = [do |-> "create", node |-> osdNodes[1],
                              role |-> Order[3 - Len(worker.calls) + i]]
      /\ \A i \in 1..3 :
           runs[Order[i]] = IF i <= 3 - Len(worker.calls) THEN Mine ELSE {}

\* An addition has created all OSDs but those it is to create.
Adding ==
    worker # None /\ worker.op = "add" /\ worker.begun =>
      /\ Mine = Named("osd")
      /\ \A i \in 1..Len(worker.calls) :
           /\ worker.calls[i].do = "create" /\ worker.calls[i].role = "osd"
           /\ worker.calls[i].node \in Named("osd")
      /\ IsInjective(worker.calls)
      /\ runs["dir"] = Named("dir") /\ runs["mrc"] = Named("mrc")
      /\ runs["osd"] = Named("osd") \ Pending("create", "osd")

\* A removal has taken its OSDs from the list, and has stopped all of them but
\* the last, perhaps.
Removing ==
    worker # None /\ worker.op = "remove" =>
      /\ worker.want["osd"] < Len(osdNodes)
      /\ worker.gone \cap Named("osd") = {}
      /\ Mine = Named("osd") \cup worker.gone
      /\ Len(worker.calls) <= 1
      /\ \A i \in 1..Len(worker.calls) :
           /\ worker.calls[i].do = "stop" /\ worker.calls[i].role = "osd"
           /\ worker.calls[i].node \in worker.gone
      /\ runs["dir"] = Named("dir") /\ runs["mrc"] = Named("mrc")
      /\ runs["osd"] = Named("osd") \cup Pending("stop", "osd")

\* A stop comes to the directories last, when nothing on the other lists runs
\* any more.
Stopping ==
    worker # None /\ worker.op \in {"stop", "snapshot"} /\ worker.begun =>
      /\ IsInjective(worker.calls)
      /\ \A i \in 1..Len(worker.calls) :
           /\ worker.calls[i].do = "stop"
           /\ worker.calls[i].role = "dir" =>
                \A j \in i..Len(worker.calls) : worker.calls[j].role = "dir"
      /\ \A r \in {"mrc", "osd"} : runs[r] \cap Named(r) \subseteq Pending("stop", r)
      /\ ~failed => \A r \in Role : runs[r] = Pending("stop", r)

\* The files are on OSDs that run, unless a drain failed or the service stops.
Kept == state # "EPILOGUE" /\ ~undrained => holds \subseteq runs["osd"]

\* What holds of a service whose start, if any, was not refused.
InOrder ==
    /\ Plain /\ Rooted /\ NothingRefused
    /\ States /\ Placed /\ Resting
    /\ Starting /\ Adding /\ Removing /\ Stopping /\ Kept

\* What holds once a start was refused, for ever: there is nothing but "error"
\* on the lists, and all that is asked of the service are stops that die on it.
Poisoned ==
    /\ dirNodes = <<Junk>> /\ mrcNodes = <<Junk>> /\ osdNodes = <<Junk>>
    /\ state \in {"PROLOGUE", "EPILOGUE"}
    /\ nodes = {} /\ leaving \subseteq Node
    /\ runs = [r \in Role |-> {}] /\ holds = {}
    /\ failed = TRUE /\ refused = FALSE /\ undrained \in BOOLEAN
    /\ worker \in Worker \cup {None}
    /\ worker # None =>
         /\ worker.op = "stop"
         /\ worker.begun <=> worker.calls # <<>>
         /\ worker.calls # <<>> => Head(worker.calls).node = Junk

IInv == InOrder \/ Poisoned

-----------------------------------------------------------------------------
(* Lists. *)

\* A list has the elements of its head and of its tail, and in a list that names
\* everything once the tail does not have the head.
LEMMA HeadOrTail ==
    ASSUME NEW S, NEW q \in Seq(S), q # <<>>
    PROVE  /\ Head(q) = q[1] /\ Head(q) \in S /\ 1 \in 1..Len(q)
           /\ Tail(q) \in Seq(S) /\ Len(Tail(q)) = Len(q) - 1
           /\ \A i \in 1..Len(Tail(q)) : i + 1 \in 1..Len(q) /\ Tail(q)[i] = q[i + 1]
           /\ ToSet(q) = {Head(q)} \cup ToSet(Tail(q))
           /\ IsInjective(q) =>
                IsInjective(Tail(q)) /\ Head(q) \notin ToSet(Tail(q))
<1> DEFINE r == Tail(q)
<1>1. /\ r \in Seq(S) /\ Len(r) = Len(q) - 1 /\ Len(q) \in Nat \ {0}
      /\ \A i \in 1..Len(r) : i + 1 \in 1..Len(q) /\ r[i] = q[i + 1]
      /\ Head(q) = q[1] /\ 1 \in 1..Len(q) /\ q[1] \in S
      /\ DOMAIN q = 1..Len(q) /\ DOMAIN r = 1..Len(r)
  OBVIOUS
<1> HIDE DEF r
<1>2. ASSUME NEW i \in 1..Len(q) PROVE q[i] \in {Head(q)} \cup ToSet(r)
  <2>1. CASE i = 1
    BY <1>1, <2>1
  <2>2. CASE i # 1
    <3>1. i - 1 \in 1..Len(r) /\ r[i - 1] = q[(i - 1) + 1] /\ (i - 1) + 1 = i
      BY <1>1, <2>2
    <3> QED BY <1>1, <3>1 DEF ToSet
  <2> QED BY <2>1, <2>2
<1>3. {Head(q)} \cup ToSet(r) \subseteq ToSet(q)
  BY <1>1 DEF ToSet
<1>4. ToSet(q) = {Head(q)} \cup ToSet(r)
  <2>1. ToSet(q) \subseteq {Head(q)} \cup ToSet(r)
    BY <1>1, <1>2 DEF ToSet
  <2> QED BY <1>3, <2>1
<1>5. ASSUME IsInjective(q) PROVE IsInjective(r) /\ Head(q) \notin ToSet(r)
  <2>1. \A i, j \in 1..Len(q) : q[i] = q[j] => i = j
    BY <1>1, <1>5 DEF IsInjective
  <2>2. ASSUME NEW i \in 1..Len(r), NEW j \in 1..Len(r), r[i] = r[j] PROVE i = j
    <3>1. i + 1 \in 1..Len(q) /\ j + 1 \in 1..Len(q) /\ q[i + 1] = q[j + 1]
      BY <1>1, <2>2
    <3> QED BY <2>1, <3>1
  <2>3. ASSUME NEW i \in 1..Len(r), r[i] = Head(q) PROVE FALSE
    <3>1. i + 1 \in 1..Len(q) /\ q[i + 1] = q[1]
      BY <1>1, <2>3
    <3>2. i + 1 = 1
      BY <1>1, <2>1, <3>1
    <3> QED BY <3>2
  <2> QED BY <1>1, <2>2, <2>3 DEF IsInjective, ToSet
<1> QED BY <1>1, <1>4, <1>5 DEF r

\* Two lists one after the other have the elements of both, in their places, and
\* each once if the lists have no element twice and none in common.
LEMMA Concat ==
    ASSUME NEW S, NEW p \in Seq(S), NEW q \in Seq(S)
    PROVE  /\ p \o q \in Seq(S) /\ Len(p \o q) = Len(p) + Len(q)
           /\ \A i \in 1..Len(p) : (p \o q)[i] = p[i]
           /\ \A i \in 1..Len(q) : (p \o q)[Len(p) + i] = q[i]
           /\ \A i \in 1..Len(p \o q) :
                i \in 1..Len(p) \/ \E j \in 1..Len(q) : i = Len(p) + j
           /\ ToSet(p \o q) = ToSet(p) \cup ToSet(q)
           /\ IsInjective(p) /\ IsInjective(q) /\ ToSet(p) \cap ToSet(q) = {} =>
                IsInjective(p \o q)
<1> DEFINE r == p \o q
<1>1. /\ r \in Seq(S) /\ Len(r) = Len(p) + Len(q)
      /\ Len(p) \in Nat /\ Len(q) \in Nat
      /\ \A i \in 1..Len(p) : r[i] = p[i]
      /\ \A i \in 1..Len(q) : r[Len(p) + i] = q[i]
      /\ DOMAIN p = 1..Len(p) /\ DOMAIN q = 1..Len(q) /\ DOMAIN r = 1..Len(r)
  OBVIOUS
<1> HIDE DEF r
<1>2. ASSUME NEW i \in 1..Len(r)
      PROVE  i \in 1..Len(p) \/ \E j \in 1..Len(q) : i = Len(p) + j
  <2>1. CASE i <= Len(p)
    BY <1>1, <2>1
  <2>2. CASE i > Len(p)
    <3>1. i - Len(p) \in 1..Len(q) /\ i = Len(p) + (i - Len(p))
      BY <1>1, <2>2
    <3> QED BY <3>1
  <2> QED BY <1>1, <2>1, <2>2
<1>3. \A i \in 1..Len(p) : i \in 1..Len(r)
  BY <1>1
<1>4. \A i \in 1..Len(q) : Len(p) + i \in 1..Len(r)
  BY <1>1
<1>5. ToSet(p) \subseteq ToSet(r) /\ ToSet(q) \subseteq ToSet(r)
  BY <1>1, <1>3, <1>4 DEF ToSet
<1>6. ToSet(r) \subseteq ToSet(p) \cup ToSet(q)
  <2>1. ASSUME NEW i \in 1..Len(r) PROVE r[i] \in ToSet(p) \cup ToSet(q)
    <3>1. CASE i \in 1..Len(p)
      BY <1>1, <3>1 DEF ToSet
    <3>2. CASE \E j \in 1..Len(q) : i = Len(p) + j
      BY <1>1, <3>2 DEF ToSet
    <3> QED BY <1>2, <3>1, <3>2
  <2> QED BY <1>1, <2>1 DEF ToSet
<1>7. ASSUME IsInjective(p), IsInjective(q), ToSet(p) \cap ToSet(q) = {},
             NEW i \in 1..Len(r), NEW j \in 1..Len(r), r[i] = r[j]
      PROVE  i = j
  <2>1. \A a \in 1..Len(p), b \in 1..Len(q) : p[a] # q[b]
    BY <1>1, <1>7 DEF ToSet
  <2>2. CASE i \in 1..Len(p) /\ j \in 1..Len(p)
    BY <1>1, <1>7, <2>2 DEF IsInjective
  <2>3. ASSUME NEW a \in 1..Len(q), NEW b \in 1..Len(q),
               i = Len(p) + a, j = Len(p) + b
        PROVE  i = j
    BY <1>1, <1>7, <2>3 DEF IsInjective
  <2>4. ASSUME NEW a \in 1..Len(q), i = Len(p) + a, j \in 1..Len(p) PROVE FALSE
    BY <1>1, <1>7, <2>1, <2>4
  <2>5. ASSUME NEW a \in 1..Len(q), j = Len(p) + a, i \in 1..Len(p) PROVE FALSE
    BY <1>1, <1>7, <2>1, <2>5
  <2> QED BY <1>2, <2>2, <2>3, <2>4, <2>5
<1>8. IsInjective(p) /\ IsInjective(q) /\ ToSet(p) \cap ToSet(q) = {} =>
        IsInjective(r)
  BY <1>1, <1>7 DEF IsInjective
<1> QED BY <1>1, <1>2, <1>5, <1>6, <1>8 DEF r

\* A part of a list has elements of the list only, each once if the list has.
LEMMA Part ==
    ASSUME NEW S, NEW q \in Seq(S), IsInjective(q),
           NEW m \in Nat \ {0}, NEW n \in Nat, n <= Len(q)
    PROVE  /\ SubSeq(q, m, n) \in Seq(S)
           /\ ToSet(SubSeq(q, m, n)) \subseteq ToSet(q)
           /\ IsInjective(SubSeq(q, m, n))
<1> DEFINE r == SubSeq(q, m, n)
<1>1. /\ r \in Seq(S) /\ DOMAIN r = 1..Len(r) /\ DOMAIN q = 1..Len(q)
      /\ Len(r) = (IF m <= n THEN n - m + 1 ELSE 0)
      /\ \A i \in 1..Len(r) : r[i] = q[m + i - 1]
  OBVIOUS
<1>2. \A i \in 1..Len(r) : m + i - 1 \in 1..Len(q)
  BY <1>1
<1>3. \A i, j \in 1..Len(r) : m + i - 1 = m + j - 1 => i = j
  BY <1>1
<1> HIDE DEF r
<1>4. ToSet(r) \subseteq ToSet(q)
  BY <1>1, <1>2 DEF ToSet
<1>5. IsInjective(r)
  BY <1>1, <1>2, <1>3 DEF IsInjective
<1> QED BY <1>1, <1>4, <1>5 DEF r

\* Where the elements of a list are when the place i has been removed.
Shift(i, j) == IF j < i THEN j ELSE j + 1

\* Removing a place from a list moves those behind it one place forward.
LEMMA RemoveAtPlaces ==
    ASSUME NEW S, NEW q \in Seq(S), NEW i \in 1..Len(q)
    PROVE  /\ RemoveAt(q, i) \in Seq(S)
           /\ Len(RemoveAt(q, i)) = Len(q) - 1
           /\ \A j \in 1..Len(RemoveAt(q, i)) : RemoveAt(q, i)[j] = q[Shift(i, j)]
<1> DEFINE r == RemoveAt(q, i)
           a == SubSeq(q, 1, i - 1)
           b == SubSeq(q, i + 1, Len(q))
<1>1. /\ a \in Seq(S) /\ b \in Seq(S)
      /\ Len(a) = i - 1 /\ Len(b) = Len(q) - i
      /\ \A j \in 1..(i - 1) : a[j] = q[j]
      /\ \A j \in 1..(Len(q) - i) : b[j] = q[i + j]
  OBVIOUS
<1>2. r = a \o b
  BY DEF RemoveAt
<1> HIDE DEF a, b, r
<1>3. r \in Seq(S) /\ Len(r) = Len(q) - 1
  BY <1>1, <1>2
<1>4. ASSUME NEW j \in 1..Len(r), j < i PROVE r[j] = q[j]
  <2>1. j \in 1..Len(a)
    BY <1>1, <1>3, <1>4
  <2>2. r[j] = a[j]
    BY <1>1, <1>2, <2>1
  <2> QED BY <1>1, <2>1, <2>2
<1>5. ASSUME NEW j \in 1..Len(r), ~(j < i) PROVE r[j] = q[j + 1]
  <2>1. PICK m \in 1..(Len(q) - i) : Len(a) + m = j /\ i + m = j + 1
    <3>1. j - (i - 1) \in 1..(Len(q) - i)
      BY <1>3, <1>5
    <3>2. Len(a) + (j - (i - 1)) = j /\ i + (j - (i - 1)) = j + 1
      BY <1>1, <1>3
    <3> QED BY <3>1, <3>2
  <2>2. (a \o b)[Len(a) + m] = b[m]
    <3>1. a \in Seq(S) /\ b \in Seq(S) /\ m \in 1..Len(b)
      BY <1>1
    <3> QED BY <3>1
  <2>3. b[m] = q[i + m]
    BY <1>1
  <2> QED BY <1>2, <2>1, <2>2, <2>3
<1>6. \A j \in 1..Len(r) : r[j] = q[Shift(i, j)]
  BY <1>4, <1>5 DEF Shift
<1> QED BY <1>3, <1>6 DEF r

\* Removing the second place of a list removes what is there and nothing else, and
\* leaves the first place alone.
LEMMA SecondRemoved ==
    ASSUME NEW S, NEW q \in Seq(S), IsInjective(q), Len(q) > 1
    PROVE  /\ RemoveAt(q, 2) \in Seq(S) /\ IsInjective(RemoveAt(q, 2))
           /\ Len(RemoveAt(q, 2)) = Len(q) - 1
           /\ RemoveAt(q, 2)[1] = q[1] /\ q[2] \in ToSet(q)
           /\ ToSet(RemoveAt(q, 2)) = ToSet(q) \ {q[2]}
<1> DEFINE r == RemoveAt(q, 2)
<1>1. 1 \in 1..Len(q) /\ 2 \in 1..Len(q) /\ Len(q) \in Nat /\ DOMAIN q = 1..Len(q)
  OBVIOUS
<1>2. /\ r \in Seq(S) /\ Len(r) = Len(q) - 1
      /\ \A j \in 1..Len(r) : r[j] = q[Shift(2, j)]
  BY <1>1, RemoveAtPlaces
<1> HIDE DEF r
<1>3. DOMAIN r = 1..Len(r) /\ 1 \in 1..Len(r)
  BY <1>1, <1>2
<1>4. r[1] = q[1]
  BY <1>2, <1>3 DEF Shift
<1>5. \A j \in 1..Len(r) : Shift(2, j) \in 1..Len(q) /\ Shift(2, j) # 2
  BY <1>1, <1>2, <1>3 DEF Shift
<1>6. \A j, k \in 1..Len(r) : Shift(2, j) = Shift(2, k) => j = k
  BY <1>1, <1>2, <1>3 DEF Shift
<1>7. \A i, j \in 1..Len(q) : q[i] = q[j] => i = j
  BY <1>1 DEF IsInjective
<1>8. IsInjective(r)
  BY <1>2, <1>3, <1>5, <1>6, <1>7 DEF IsInjective
<1>9. 2 \in 1..Len(q) /\ q[2] \in ToSet(q)
  BY <1>1 DEF ToSet
<1>10. ToSet(r) \subseteq ToSet(q) \ {q[2]}
  <2>1. ASSUME NEW j \in 1..Len(r) PROVE r[j] \in ToSet(q) \ {q[2]}
    <3>1. r[j] = q[Shift(2, j)] /\ Shift(2, j) \in 1..Len(q) /\ Shift(2, j) # 2
      BY <1>2, <1>5
    <3>2. q[Shift(2, j)] # q[2]
      BY <1>7, <1>9, <3>1
    <3> QED BY <1>1, <3>1, <3>2 DEF ToSet
  <2> QED BY <1>3, <2>1 DEF ToSet
<1>11. ASSUME NEW i \in 1..Len(q), i # 2 PROVE q[i] \in ToSet(r)
  <2>1. PICK j \in 1..Len(r) : Shift(2, j) = i
    <3>1. CASE i = 1
      <4>1. 1 \in 1..Len(r) /\ Shift(2, 1) = 1
        BY <1>1, <1>2, <1>3 DEF Shift
      <4> QED BY <3>1, <4>1
    <3>2. CASE i # 1
      <4>1. i - 1 \in 1..Len(r) /\ Shift(2, i - 1) = i
        BY <1>1, <1>2, <1>3, <1>11, <3>2 DEF Shift
      <4> QED BY <4>1
    <3> QED BY <3>1, <3>2
  <2> QED BY <1>2, <1>3, <2>1 DEF ToSet
<1>12. ToSet(q) \ {q[2]} \subseteq ToSet(r)
  BY <1>1, <1>11 DEF ToSet
<1> QED BY <1>2, <1>3, <1>4, <1>8, <1>9, <1>10, <1>12 DEF r

\* A worker whose calls are to machines is a worker, and no None.
LEMMA PlainWorkers == PlainWorker \subseteq Worker /\ None \notin PlainWorker
<1>1. PlainCall \subseteq Call
  BY DEF PlainCall, Call
<1>2. ASSUME NEW q \in Seq(PlainCall) PROVE q \in Seq(Call)
  BY <1>1
<1> QED BY <1>2, WorkerAssumption DEF PlainWorker, Worker

\* The calls to the nodes of a list.
LEMMA CallsOf ==
    ASSUME NEW q \in Seq(Node), NEW do \in {"create", "stop"}, NEW role \in Role
    PROVE  /\ Calls(do, role, q) \in Seq(PlainCall) /\ Len(Calls(do, role, q)) = Len(q)
           /\ \A i \in 1..Len(q) : Calls(do, role, q)[i]
                = [do |-> do, role |-> role, node |-> q[i]] /\ q[i] \in ToSet(q)
           /\ \A c : c \in ToSet(Calls(do, role, q)) =>
                c \in PlainCall /\ c.do = do /\ c.role = role /\ c.node \in ToSet(q)
           /\ \A n \in ToSet(q) : [do |-> do, role |-> role, node |-> n]
                                    \in ToSet(Calls(do, role, q))
           /\ IsInjective(q) => IsInjective(Calls(do, role, q))
<1> DEFINE r == Calls(do, role, q)
<1>1. /\ \A i \in 1..Len(q) :
           q[i] \in Node /\ [do |-> do, role |-> role, node |-> q[i]] \in PlainCall
      /\ Len(q) \in Nat /\ DOMAIN q = 1..Len(q)
  BY DEF PlainCall, Role
<1>2. r \in [1..Len(q) -> PlainCall]
  BY <1>1 DEF Calls
<1>3. /\ r \in Seq(PlainCall) /\ Len(r) = Len(q) /\ DOMAIN r = 1..Len(q)
      /\ \A i \in 1..Len(q) : r[i] = [do |-> do, role |-> role, node |-> q[i]]
  BY <1>1, <1>2 DEF Calls
<1> HIDE DEF r
<1> QED BY <1>1, <1>3 DEF ToSet, IsInjective, r

-----------------------------------------------------------------------------
(* The lists of the service. *)

\* A node on a list is a node.
LEMMA NamedNodes ==
    ASSUME Plain, NEW r \in Role
    PROVE  /\ ListOf(r) \in Seq(Node) /\ IsInjective(ListOf(r))
           /\ Named(r) \subseteq Node
           /\ Named(r) = {} => ListOf(r) = <<>>
<1>1. ListOf(r) \in Seq(Node) /\ IsInjective(ListOf(r))
  BY DEF Plain, ListOf
<1>2. Named(r) = {ListOf(r)[i] : i \in 1..Len(ListOf(r))}
  BY <1>1 DEF Named, ToSet
<1>3. \A i \in 1..Len(ListOf(r)) : ListOf(r)[i] \in Node
  BY <1>1
<1>4. ListOf(r) # <<>> => 1 \in 1..Len(ListOf(r))
  BY <1>1
<1> QED BY <1>1, <1>2, <1>3, <1>4

\* A list of one node.
LEMMA OneNode ==
    ASSUME NEW n \in Node
    PROVE  /\ <<n>> \in Seq(Node) /\ Len(<<n>>) = 1 /\ <<n>>[1] = n
           /\ ToSet(<<n>>) = {n} /\ IsInjective(<<n>>)
BY DEF ToSet, IsInjective

\* The first node of a service is on all lists.
LEMMA FirstNode ==
    ASSUME Plain, Led
    PROVE  /\ osdNodes[1] \in Node /\ osdNodes[1] \in Named("osd")
           /\ Named("dir") = {osdNodes[1]} /\ Named("mrc") = {osdNodes[1]}
           /\ dirNodes # <<>> /\ dirNodes[1] = osdNodes[1]
           /\ mrcNodes[1] = osdNodes[1]
           /\ Level => Mine = Named("osd")
<1>1. osdNodes \in Seq(Node) /\ 1 \in 1..Len(osdNodes)
  BY DEF Plain, Led
<1>2. osdNodes[1] \in Node /\ osdNodes[1] \in Named("osd")
  BY <1>1 DEF Named, ListOf, ToSet
<1>3. Named("dir") = {osdNodes[1]} /\ Named("mrc") = {osdNodes[1]}
  BY <1>2, OneNode DEF Led, Named, ListOf
<1>4. dirNodes # <<>> /\ dirNodes[1] = osdNodes[1] /\ mrcNodes[1] = osdNodes[1]
  BY <1>2, OneNode DEF Led
<1>5. Level => Mine = Named("osd")
  BY <1>2, <1>3 DEF Level, Role
<1> QED BY <1>2, <1>3, <1>4, <1>5

\* A stop calls every node on every list once for its role, the OSDs first and
\* the directories last.
LEMMA StopCalls ==
    ASSUME Plain
    PROVE  /\ _stop_all \in Seq(PlainCall) /\ IsInjective(_stop_all)
           /\ \A i \in 1..Len(_stop_all) :
                /\ _stop_all[i].do = "stop"
                /\ _stop_all[i].role = "dir" =>
                     \A j \in i..Len(_stop_all) : _stop_all[j].role = "dir"
           /\ \A r \in Role, n \in Node :
                [do |-> "stop", role |-> r, node |-> n] \in ToSet(_stop_all)
                  <=> n \in Named(r)
<1> DEFINE p == Calls("stop", "osd", osdNodes)
           q == Calls("stop", "mrc", mrcNodes)
           s == Calls("stop", "dir", dirNodes)
<1>1. /\ p \in Seq(PlainCall) /\ IsInjective(p)
      /\ \A c \in ToSet(p) : c.do = "stop" /\ c.role = "osd" /\ c.node \in Named("osd")
      /\ \A n \in Named("osd") :
           [do |-> "stop", role |-> "osd", node |-> n] \in ToSet(p)
  BY CallsOf DEF Plain, Role, Named, ListOf
<1>2. /\ q \in Seq(PlainCall) /\ IsInjective(q)
      /\ \A c \in ToSet(q) : c.do = "stop" /\ c.role = "mrc" /\ c.node \in Named("mrc")
      /\ \A n \in Named("mrc") :
           [do |-> "stop", role |-> "mrc", node |-> n] \in ToSet(q)
  BY CallsOf DEF Plain, Role, Named, ListOf
<1>3. /\ s \in Seq(PlainCall) /\ IsInjective(s)
      /\ \A c \in ToSet(s) : c.do = "stop" /\ c.role = "dir" /\ c.node \in Named("dir")
      /\ \A n \in Named("dir") :
           [do |-> "stop", role |-> "dir", node |-> n] \in ToSet(s)
  BY CallsOf DEF Plain, Role, Named, ListOf
<1> DEFINE pq == p \o q
           all == pq \o s
<1>4. _stop_all = all
  BY DEF _stop_all
<1> HIDE DEF p, q, s
<1>5. ToSet(p) \cap ToSet(q) = {}
  BY <1>1, <1>2
<1>6. pq \in Seq(PlainCall) /\ IsInjective(pq) /\ ToSet(pq) = ToSet(p) \cup ToSet(q)
  BY <1>1, <1>2, <1>5, Concat
<1> HIDE DEF pq
<1>7. ToSet(pq) \cap ToSet(s) = {}
  BY <1>1, <1>2, <1>3, <1>6
<1>8. /\ all \in Seq(PlainCall) /\ Len(all) = Len(pq) + Len(s) /\ IsInjective(all)
      /\ \A i \in 1..Len(pq) : all[i] = pq[i]
      /\ \A i \in 1..Len(s) : all[Len(pq) + i] = s[i]
      /\ \A i \in 1..Len(all) :
           i \in 1..Len(pq) \/ \E j \in 1..Len(s) : i = Len(pq) + j
      /\ ToSet(all) = ToSet(pq) \cup ToSet(s)
  BY <1>3, <1>6, <1>7, Concat
<1> HIDE DEF all
<1>9. \A i \in 1..Len(pq) : all[i].role # "dir"
  <2>1. \A i \in 1..Len(pq) : pq[i] \in ToSet(pq)
    BY <1>6 DEF ToSet
  <2> QED BY <1>1, <1>2, <1>6, <1>8, <2>1
<1>10. ASSUME NEW i \in 1..Len(all), i > Len(pq) PROVE all[i].role = "dir"
  <2>1. PICK k \in 1..Len(s) : i = Len(pq) + k
    BY <1>6, <1>8, <1>10
  <2>2. s[k] \in ToSet(s)
    BY <1>3 DEF ToSet
  <2> QED BY <1>3, <1>8, <2>1, <2>2
<1>11. \A i \in 1..Len(all) : all[i].do = "stop"
  <2>1. \A i \in 1..Len(all) : all[i] \in ToSet(all)
    BY <1>8 DEF ToSet
  <2> QED BY <1>1, <1>2, <1>3, <1>6, <1>8, <2>1
<1>12. ASSUME NEW i \in 1..Len(all), all[i].role = "dir", NEW j \in i..Len(all)
       PROVE  all[j].role = "dir"
  <2>1. Len(pq) \in Nat /\ Len(all) \in Nat /\ i \notin 1..Len(pq)
    BY <1>6, <1>8, <1>9, <1>12
  <2>2. j \in 1..Len(all) /\ j > Len(pq)
    BY <2>1
  <2> QED BY <1>10, <2>2
<1>13. ASSUME NEW r \in Role, NEW n \in Node
       PROVE  [do |-> "stop", role |-> r, node |-> n] \in ToSet(all)
                <=> n \in Named(r)
  BY <1>1, <1>2, <1>3, <1>6, <1>8 DEF Role
<1> QED BY <1>4, <1>8, <1>11, <1>12, <1>13

-----------------------------------------------------------------------------
(* The requests. *)

\* A request takes the state, which is the lock of the worker, and leaves the
\* rest to its worker.
LEMMA HandleStep ==
    ASSUME InOrder, Handle
    PROVE  InOrder'
<1> USE XtreemFSAssumption DEF InOrder
<1>1. PICK op, st, want :
        /\ Start(op, st, want)
        /\ want \in [Role -> 0..MaxCount]
        /\ \/ op = "start" /\ st = "PROLOGUE" /\ state \in {"INIT", "STOPPED"}
           \/ op = "stop" /\ st = "EPILOGUE"
           \/ op = "snapshot" /\ st = "EPILOGUE" /\ state = "RUNNING"
           \/ op = "add" /\ st = "ADAPTING" /\ state = "RUNNING"
           \/ /\ op = "remove" /\ st = "ADAPTING" /\ state = "RUNNING"
              /\ want["osd"] < Len(osdNodes)
  <2>1. Nothing \in [Role -> 0..MaxCount]
    BY DEF Nothing
  <2>2. \A w \in Wants : w \in [Role -> 0..MaxCount]
    BY DEF Wants
  <2>3. CASE start_service
    BY <2>1, <2>3 DEF start_service
  <2>4. CASE stop_service
    BY <2>1, <2>4 DEF stop_service
  <2>5. CASE get_service_snapshot
    BY <2>1, <2>5 DEF get_service_snapshot
  <2>6. ASSUME NEW w \in Wants, add_nodes(w)
        PROVE  state = "RUNNING" /\ Start("add", "ADAPTING", w)
    BY <2>6 DEF add_nodes
  <2>7. ASSUME NEW w \in Wants, remove_nodes(w)
        PROVE  /\ state = "RUNNING" /\ Start("remove", "ADAPTING", w)
               /\ w["osd"] < Len(osdNodes)
    BY <2>7 DEF remove_nodes, check_remove_nodes
  <2> QED BY <2>2, <2>3, <2>4, <2>5, <2>6, <2>7 DEF Handle
<1>2. /\ worker = None /\ state' = st /\ UNCHANGED <<nodes, leaving, Mine, runs, holds>>
      /\ UNCHANGED <<dirNodes, mrcNodes, osdNodes>>
      /\ UNCHANGED <<failed, refused, undrained>>
      /\ worker' = [op |-> op, want |-> want, begun |-> FALSE, calls |-> <<>>,
                    gone |-> {}]
  BY <1>1 DEF Start, lists, history, Mine
<1>3. /\ worker'.op = op /\ worker'.want = want /\ ~worker'.begun
      /\ worker'.calls = <<>> /\ worker'.gone = {} /\ ToSet(worker'.calls) = {}
  BY <1>2 DEF ToSet
<1>4. \A r : Named(r)' = Named(r)
  BY <1>2 DEF Named, ListOf
<1>5. (Led <=> Led') /\ (Level <=> Level')
  BY <1>2, <1>4 DEF Led, Level
<1>6. ~failed => Level
  BY <1>2 DEF Resting
<1>7. worker' \in PlainWorker
  BY <1>1, <1>2 DEF PlainWorker
<1>8. Plain'
  BY <1>1, <1>2, <1>7 DEF Plain, State
<1>9. Rooted' /\ NothingRefused'
  BY <1>2 DEF Rooted, NothingRefused
<1>10. States'
  BY <1>1, <1>2, <1>3 DEF States, Plain, State
<1>11. Placed'
  BY <1>2, <1>4 DEF Placed
<1>12. Resting'
  BY <1>1, <1>2, <1>3, <1>5, <1>6 DEF Resting, States
<1>13. Starting' /\ Adding' /\ Stopping'
  BY <1>3 DEF Starting, Adding, Stopping
<1>14. Removing'
  <2>1. SUFFICES ASSUME op = "remove" PROVE Removing'
    BY <1>3 DEF Removing
  <2>2. state = "RUNNING" /\ want["osd"] < Len(osdNodes)
    BY <1>1, <2>1
  <2>3. Led /\ Level
    BY <1>2, <1>6, <2>2 DEF Resting, States
  <2>4. Mine = Named("osd")
    BY <2>3, FirstNode
  <2>5. Pending("stop", "osd")' = {}
    BY <1>3 DEF Pending
  <2>6. \A r \in Role : runs[r] = Named(r)
    BY <2>3 DEF Level
  <2>7. Len(worker'.calls) = 0
    BY <1>3
  <2> QED BY <1>2, <1>3, <1>4, <2>2, <2>4, <2>5, <2>6, <2>7 DEF Removing, Role
<1>15. Kept'
  BY <1>1, <1>2 DEF Kept
<1> QED
  BY <1>8, <1>9, <1>10, <1>11, <1>12, <1>13, <1>14, <1>15

-----------------------------------------------------------------------------
(* The workers begin. *)

\* A list with new nodes behind it has no node twice.
LEMMA Extended ==
    ASSUME Plain, Placed, NEW r \in Role, NEW q \in Seq(Node), IsInjective(q),
           ToSet(q) \cap Mine = {}
    PROVE  /\ ListOf(r) \o q \in Seq(Node) /\ IsInjective(ListOf(r) \o q)
           /\ ToSet(ListOf(r) \o q) = Named(r) \cup ToSet(q)
           /\ ListOf(r) # <<>> =>
                ListOf(r) \o q # <<>> /\ (ListOf(r) \o q)[1] = ListOf(r)[1]
<1>1. ListOf(r) \in Seq(Node) /\ IsInjective(ListOf(r))
  BY NamedNodes
<1>2. ToSet(ListOf(r)) \cap ToSet(q) = {}
  BY DEF Placed, Named
<1>3. ListOf(r) # <<>> =>
        ListOf(r) \o q # <<>> /\ (ListOf(r) \o q)[1] = ListOf(r)[1]
  BY <1>1
<1> QED BY <1>1, <1>2, <1>3, Concat DEF Named

\* The node that a start has brought up is on all lists, and is to run the
\* directory, the catalog and an OSD, in this order.
LEMMA on_startStep ==
    ASSUME InOrder, on_start
    PROVE  InOrder'
<1> USE XtreemFSAssumption DEF InOrder
<1>1. /\ worker # None /\ worker \in PlainWorker /\ worker.op = "start" /\ ~worker.begun
      /\ state = "PROLOGUE" /\ ~failed /\ nodes = {} /\ Mine = {} /\ Level
  BY DEF on_start, Begins, Plain, States, Resting, Mine
<1>2. dirNodes = <<>> /\ mrcNodes = <<>> /\ osdNodes = <<>>
  BY <1>1, NamedNodes DEF Placed, Role, ListOf
<1>3. \A r \in Role : runs[r] = {}
  BY <1>1 DEF Plain
<1>4. PICK n \in Node :
        /\ Mine' = {n} /\ nodes' = {n}
        /\ dirNodes' = <<n>> /\ mrcNodes' = <<n>> /\ osdNodes' = <<n>>
  BY <1>1, <1>2 DEF on_start, Fresh, Mine
<1>5. /\ UNCHANGED <<state, leaving, runs, holds, failed, refused, undrained>>
      /\ worker' = [worker EXCEPT !.begun = TRUE,
                      !.calls = Calls("create", "dir", dirNodes')
                                \o Calls("create", "mrc", mrcNodes')
                                \o Calls("create", "osd", osdNodes')]
  BY DEF on_start, history
<1> DEFINE p == Calls("create", "dir", <<n>>)
           q == Calls("create", "mrc", <<n>>)
           s == Calls("create", "osd", <<n>>)
           pq == p \o q
           all == pq \o s
<1>6. /\ p \in Seq(PlainCall) /\ q \in Seq(PlainCall) /\ s \in Seq(PlainCall)
      /\ Len(p) = 1 /\ Len(q) = 1 /\ Len(s) = 1
      /\ p[1] = [do |-> "create", role |-> "dir", node |-> n]
      /\ q[1] = [do |-> "create", role |-> "mrc", node |-> n]
      /\ s[1] = [do |-> "create", role |-> "osd", node |-> n]
  <2>1. ASSUME NEW r \in Role
        PROVE  /\ Calls("create", r, <<n>>) \in Seq(PlainCall)
               /\ Len(Calls("create", r, <<n>>)) = 1
               /\ Calls("create", r, <<n>>)[1]
                    = [do |-> "create", role |-> r, node |-> n]
    <3> DEFINE one == <<n>>
    <3>1. one \in Seq(Node) /\ Len(one) = 1 /\ one[1] = n
      BY OneNode
    <3> HIDE DEF one
    <3>2. "create" \in {"create", "stop"} /\ 1 \in 1..Len(one)
      BY <3>1
    <3>3. /\ Calls("create", r, one) \in Seq(PlainCall)
          /\ Len(Calls("create", r, one)) = Len(one)
          /\ Calls("create", r, one)[1]
               = [do |-> "create", role |-> r, node |-> one[1]]
      BY <3>1, <3>2, CallsOf
    <3> QED BY <3>1, <3>3 DEF one
  <2> QED BY <2>1 DEF Role
<1>7. worker' = [worker EXCEPT !.begun = TRUE, !.calls = all]
  BY <1>4, <1>5
<1> HIDE DEF p, q, s
<1>8. pq \in Seq(PlainCall) /\ Len(pq) = 2 /\ pq[1] = p[1] /\ pq[2] = q[1]
  <2>1. 1 \in 1..Len(p) /\ 1 \in 1..Len(q)
    BY <1>6
  <2>2. pq \in Seq(PlainCall) /\ Len(pq) = 1 + 1 /\ pq[1] = p[1] /\ pq[1 + 1] = q[1]
    BY <1>6, <2>1, Concat
  <2> QED BY <2>2
<1> HIDE DEF pq
<1>9. all \in Seq(PlainCall) /\ Len(all) = 3 /\ all[1] = pq[1] /\ all[2] = pq[2]
      /\ all[3] = s[1]
  <2>1. 1 \in 1..Len(pq) /\ 2 \in 1..Len(pq) /\ 1 \in 1..Len(s)
    BY <1>6, <1>8
  <2>2. /\ all \in Seq(PlainCall) /\ Len(all) = Len(pq) + Len(s)
        /\ \A i \in 1..Len(pq) : all[i] = pq[i]
        /\ \A i \in 1..Len(s) : all[Len(pq) + i] = s[i]
    <3>1. pq \in Seq(PlainCall) /\ s \in Seq(PlainCall)
      BY <1>6, <1>8
    <3> QED BY <3>1
  <2>3. all[2 + 1] = s[1] /\ all[1] = pq[1] /\ all[2] = pq[2]
    BY <1>6, <1>8, <2>1, <2>2
  <2> QED BY <1>6, <1>8, <2>2, <2>3
<1> HIDE DEF all
<1>10. /\ worker' \in PlainWorker /\ worker'.op = "start" /\ worker'.begun
       /\ worker'.calls = all
  BY <1>1, <1>7, <1>9 DEF PlainWorker
<1>11. worker' # None
  BY <1>10, PlainWorkers
<1>12. /\ Named("dir")' = {n} /\ Named("mrc")' = {n} /\ Named("osd")' = {n}
       /\ osdNodes'[1] = n /\ Len(osdNodes') = 1
       /\ \A q1 \in {dirNodes', mrcNodes', osdNodes'} :
            q1 \in Seq(Node) /\ IsInjective(q1)
  BY <1>4, OneNode DEF Named, ListOf
<1>13. Led'
  BY <1>4, <1>12 DEF Led
<1>14. Plain'
  BY <1>1, <1>3, <1>4, <1>5, <1>10, <1>12 DEF Plain
<1>15. Rooted' /\ NothingRefused'
  BY <1>3, <1>5 DEF Rooted, NothingRefused, Role
<1>16. States'
  BY <1>1, <1>5, <1>10 DEF States
<1>17. Placed'
  BY <1>4, <1>12 DEF Placed, Role
<1>18. Resting'
  BY <1>1, <1>5, <1>10, <1>11 DEF Resting
<1>19. Starting'
  <2>1. ASSUME NEW i \in 1..3
        PROVE  all[i] = [do |-> "create", node |-> n, role |-> Order[i]]
    <3>1. CASE i = 1
      BY <1>6, <1>8, <1>9, <3>1 DEF Order
    <3>2. CASE i = 2
      BY <1>6, <1>8, <1>9, <3>2 DEF Order
    <3>3. CASE i = 3
      BY <1>6, <1>8, <1>9, <3>3 DEF Order
    <3> QED BY <3>1, <3>2, <3>3
  <2>2. \A i \in 1..3 : 3 - 3 + i = i
    OBVIOUS
  <2>3. \A i \in 1..3 : Order[i] \in Role /\ ~(i <= 3 - 3)
    BY DEF Order, Role
  <2>4. Len(worker'.calls) = 3 /\ 3 <= 3
    BY <1>9, <1>10
  <2>5. \A i \in 1..3 : worker'.calls[i] = [do |-> "create",
          node |-> osdNodes'[1], role |-> Order[3 - 3 + i]]
    BY <1>10, <1>12, <2>1, <2>2
  <2>6. \A i \in 1..3 : runs'[Order[i]] = IF i <= 3 - 3 THEN Mine' ELSE {}
    BY <1>3, <1>5, <2>3
  <2> QED BY <1>4, <1>12, <1>13, <2>4, <2>5, <2>6 DEF Starting
<1>20. Adding' /\ Removing' /\ Stopping'
  BY <1>10 DEF Adding, Removing, Stopping
<1>21. Kept'
  BY <1>1, <1>5 DEF Kept
<1> QED
  BY <1>14, <1>15, <1>16, <1>17, <1>18, <1>19, <1>20, <1>21

\* A stop is to call every node that is on a list.
LEMMA StopAllStep ==
    ASSUME InOrder, StopAll
    PROVE  InOrder'
<1> USE XtreemFSAssumption DEF InOrder
<1>1. /\ worker # None /\ worker \in PlainWorker /\ worker.op \in {"stop", "snapshot"}
      /\ ~worker.begun /\ state = "EPILOGUE"
      /\ worker.op # "stop" => ~failed
      /\ ~failed => Level
  BY DEF StopAll, Begins, Plain, States, Resting
<1>2. /\ UNCHANGED <<state, nodes, leaving, Mine, runs, holds, failed, refused, undrained>>
      /\ UNCHANGED <<dirNodes, mrcNodes, osdNodes>>
      /\ worker' = [worker EXCEPT !.begun = TRUE, !.calls = _stop_all]
  BY DEF StopAll, lists, history, Mine
<1>3. /\ worker' \in PlainWorker /\ worker'.op = worker.op /\ worker'.begun
      /\ worker'.calls = _stop_all /\ worker' # None
  BY <1>1, <1>2, StopCalls, PlainWorkers DEF PlainWorker
<1>4. \A r : Named(r)' = Named(r)
  BY <1>2 DEF Named, ListOf
<1>5. Plain'
  BY <1>2, <1>3 DEF Plain
<1>6. Rooted' /\ NothingRefused'
  BY <1>2 DEF Rooted, NothingRefused
<1>7. States' /\ Placed'
  BY <1>1, <1>2, <1>3, <1>4 DEF States, Placed
<1>8. Resting'
  BY <1>1, <1>2, <1>3 DEF Resting
<1>9. Starting' /\ Adding' /\ Removing'
  BY <1>1, <1>3 DEF Starting, Adding, Removing
<1>10. Stopping'
  <2>1. \A r \in Role : Pending("stop", r)' = Named(r)
    BY <1>3, StopCalls, NamedNodes DEF Pending
  <2>2. /\ IsInjective(worker'.calls)
        /\ \A i \in 1..Len(worker'.calls) :
             /\ worker'.calls[i].do = "stop"
             /\ worker'.calls[i].role = "dir" =>
                  \A j \in i..Len(worker'.calls) : worker'.calls[j].role = "dir"
    BY <1>3, StopCalls
  <2>3. ~failed => \A r \in Role : runs[r] = Named(r)
    BY <1>1 DEF Level
  <2>4. /\ ~failed' => \A r \in Role : runs'[r] = Pending("stop", r)'
        /\ \A r \in {"mrc", "osd"} : runs'[r] \cap Named(r)' \subseteq Pending("stop", r)'
    BY <1>2, <1>4, <2>1, <2>3 DEF Role
  <2> QED BY <2>2, <2>4 DEF Stopping
<1>11. Kept'
  BY <1>1, <1>2 DEF Kept
<1> QED
  BY <1>5, <1>6, <1>7, <1>8, <1>9, <1>10, <1>11

\* The nodes that an addition has brought up are behind those on the lists.  It
\* dies of a directory or a catalog among them, and is to create the OSDs.
LEMMA on_add_nodesStep ==
    ASSUME InOrder, on_add_nodes
    PROVE  InOrder'
<1> USE XtreemFSAssumption DEF InOrder
<1>1. /\ worker # None /\ worker \in PlainWorker /\ worker.op = "add" /\ ~worker.begun
      /\ state = "ADAPTING" /\ ~failed /\ Level /\ Led
  BY DEF on_add_nodes, Begins, Plain, States, Resting
<1>2. PICK k \in [Role -> 0..MaxCount] :
        \E q \in Picks(k["dir"] + k["mrc"] + k["osd"], Fresh) :
          LET dirs == SubSeq(q, 1, k["dir"])
              mrcs == SubSeq(q, k["dir"] + 1, k["dir"] + k["mrc"])
              osds == SubSeq(q, k["dir"] + k["mrc"] + 1, Len(q)) IN
          /\ nodes' = nodes \cup ToSet(q)
          /\ dirNodes' = dirNodes \o dirs
          /\ mrcNodes' = mrcNodes \o mrcs
          /\ osdNodes' = osdNodes \o osds
          /\ IF k["dir"] + k["mrc"] > 0
             THEN worker' = None /\ failed' = TRUE
             ELSE /\ worker' = [worker EXCEPT !.begun = TRUE,
                                              !.calls = AddCalls(osds)]
                  /\ UNCHANGED failed
  BY DEF on_add_nodes
<1>3. PICK q \in Picks(k["dir"] + k["mrc"] + k["osd"], Fresh) :
        LET dirs == SubSeq(q, 1, k["dir"])
            mrcs == SubSeq(q, k["dir"] + 1, k["dir"] + k["mrc"])
            osds == SubSeq(q, k["dir"] + k["mrc"] + 1, Len(q)) IN
        /\ nodes' = nodes \cup ToSet(q)
        /\ dirNodes' = dirNodes \o dirs
        /\ mrcNodes' = mrcNodes \o mrcs
        /\ osdNodes' = osdNodes \o osds
        /\ IF k["dir"] + k["mrc"] > 0
           THEN worker' = None /\ failed' = TRUE
           ELSE /\ worker' = [worker EXCEPT !.begun = TRUE,
                                            !.calls = AddCalls(osds)]
                /\ UNCHANGED failed
  BY <1>2
<1> DEFINE d == k["dir"]
           m == k["mrc"]
           dirs == SubSeq(q, 1, d)
           mrcs == SubSeq(q, d + 1, d + m)
           osds == SubSeq(q, d + m + 1, Len(q))
<1>4. /\ nodes' = nodes \cup ToSet(q)
      /\ dirNodes' = dirNodes \o dirs
      /\ mrcNodes' = mrcNodes \o mrcs
      /\ osdNodes' = osdNodes \o osds
      /\ d + m > 0 => worker' = None /\ failed' = TRUE
      /\ ~(d + m > 0) =>
           /\ worker' = [worker EXCEPT !.begun = TRUE, !.calls = AddCalls(osds)]
           /\ UNCHANGED failed
      /\ UNCHANGED <<state, leaving, runs, holds, refused, undrained>>
  BY <1>3 DEF on_add_nodes
<1>5. d \in Nat /\ m \in Nat /\ k["osd"] \in Nat
  BY DEF Role
<1>6. /\ q \in Seq(Node) /\ Len(q) = d + m + k["osd"] /\ IsInjective(q)
      /\ ToSet(q) \subseteq Node /\ ToSet(q) \cap Mine = {}
      /\ Mine' = Mine \cup ToSet(q)
  <2>1. q \in [1..(d + m + k["osd"]) -> Fresh] /\ IsInjective(q)
    BY DEF Picks
  <2>2. q \in Seq(Node) /\ Len(q) = d + m + k["osd"]
    BY <1>5, <2>1 DEF Fresh
  <2>3. ToSet(q) \subseteq Fresh
    BY <2>1, <2>2 DEF ToSet
  <2> QED BY <1>4, <2>1, <2>2, <2>3 DEF Fresh, Mine
<1> HIDE DEF d, m
<1>7. /\ dirs \in Seq(Node) /\ IsInjective(dirs) /\ ToSet(dirs) \subseteq ToSet(q)
      /\ mrcs \in Seq(Node) /\ IsInjective(mrcs) /\ ToSet(mrcs) \subseteq ToSet(q)
      /\ osds \in Seq(Node) /\ IsInjective(osds) /\ ToSet(osds) \subseteq ToSet(q)
  <2>1. /\ 1 \in Nat \ {0} /\ d + 1 \in Nat \ {0} /\ d + m + 1 \in Nat \ {0}
        /\ d <= Len(q) /\ d + m \in Nat /\ d + m <= Len(q)
        /\ Len(q) \in Nat /\ Len(q) <= Len(q)
    BY <1>5, <1>6
  <2> QED BY <1>5, <1>6, <2>1, Part
<1> HIDE DEF dirs, mrcs, osds
<1>8. /\ dirNodes' \in Seq(Node) /\ IsInjective(dirNodes')
      /\ Named("dir")' = Named("dir") \cup ToSet(dirs)
      /\ dirNodes' # <<>> /\ dirNodes'[1] = dirNodes[1]
  <2>1. ListOf("dir") = dirNodes /\ ListOf("dir")' = dirNodes' /\ dirNodes # <<>>
    BY <1>1, FirstNode DEF ListOf
  <2> QED BY <1>4, <1>6, <1>7, <2>1, Extended DEF Role, Named
<1>9. /\ mrcNodes' \in Seq(Node) /\ IsInjective(mrcNodes')
      /\ Named("mrc")' = Named("mrc") \cup ToSet(mrcs)
  <2>1. ListOf("mrc") = mrcNodes /\ ListOf("mrc")' = mrcNodes'
    BY DEF ListOf
  <2> QED BY <1>4, <1>6, <1>7, <2>1, Extended DEF Role, Named
<1>10. /\ osdNodes' \in Seq(Node) /\ IsInjective(osdNodes')
      /\ Named("osd")' = Named("osd") \cup ToSet(osds)
      /\ osdNodes' # <<>> /\ osdNodes'[1] = osdNodes[1]
  <2>1. ListOf("osd") = osdNodes /\ ListOf("osd")' = osdNodes' /\ osdNodes # <<>>
    BY <1>1 DEF ListOf, Led
  <2> QED BY <1>4, <1>6, <1>7, <2>1, Extended DEF Role, Named
<1>11. /\ ~(d + m > 0) =>
            /\ worker' \in PlainWorker /\ worker' # None /\ worker'.op = "add"
            /\ worker'.begun /\ worker'.calls = AddCalls(osds) /\ failed' = failed
       /\ worker' \in PlainWorker \cup {None} /\ failed' \in BOOLEAN
  <2>1. AddCalls(osds) \in Seq(PlainCall)
    BY <1>7, CallsOf DEF AddCalls, Role
  <2>2. ~(d + m > 0) =>
            /\ worker' \in PlainWorker /\ worker'.op = "add"
            /\ worker'.begun /\ worker'.calls = AddCalls(osds) /\ failed' = failed
    BY <1>1, <1>4, <2>1 DEF PlainWorker
  <2> QED BY <1>4, <2>2, PlainWorkers DEF Plain
<1>12. Plain'
  BY <1>4, <1>6, <1>8, <1>9, <1>10, <1>11 DEF Plain
<1>13. Rooted' /\ NothingRefused'
  <2>1. runs["mrc"] \subseteq Mine /\ runs["osd"] \subseteq Mine
    BY DEF Plain, Role
  <2>2. /\ runs["mrc"] \cap Named("mrc")' = runs["mrc"] \cap Named("mrc")
        /\ runs["osd"] \cap Named("osd")' = runs["osd"] \cap Named("osd")
    BY <1>6, <1>7, <1>9, <1>10, <2>1
  <2>3. runs' = runs /\ dirNodes' # <<>> /\ dirNodes'[1] = dirNodes[1]
    BY <1>4, <1>8
  <2> QED BY <1>4, <2>2, <2>3 DEF Rooted, NothingRefused, Named, ListOf
<1>14. States'
  BY <1>1, <1>4, <1>11 DEF States
<1>15. Placed'
  BY <1>4, <1>6, <1>7, <1>8, <1>9, <1>10 DEF Placed, Role
<1>16. Kept'
  BY <1>4 DEF Kept
<1>17. CASE d + m > 0
  <2>1. worker' = None /\ failed' /\ state' = "ADAPTING"
    BY <1>1, <1>4, <1>17
  <2>2. Resting' /\ Starting' /\ Adding' /\ Removing' /\ Stopping'
    BY <2>1 DEF Resting, Starting, Adding, Removing, Stopping
  <2> QED BY <1>12, <1>13, <1>14, <1>15, <1>16, <2>2
<1>18. CASE ~(d + m > 0)
  <2>1. d = 0 /\ m = 0
    BY <1>5, <1>18
  <2>2. dirs = <<>> /\ mrcs = <<>> /\ osds = q
    <3>1. SubSeq(q, 1, 0) = <<>> /\ SubSeq(q, 1, Len(q)) = q
      BY <1>6
    <3> QED BY <2>1, <3>1 DEF dirs, mrcs, osds
  <2>3. dirNodes' = dirNodes /\ mrcNodes' = mrcNodes
    BY <1>4, <2>2 DEF Plain
  <2>4. Named("dir")' = Named("dir") /\ Named("mrc")' = Named("mrc")
    BY <2>3 DEF Named, ListOf
  <2>5. Led'
    BY <1>1, <1>10, <2>3 DEF Led
  <2>6. Resting'
    BY <1>1, <1>4, <1>11, <1>18, <2>5 DEF Resting
  <2>7. Starting' /\ Removing' /\ Stopping'
    BY <1>11, <1>18 DEF Starting, Removing, Stopping
  <2>8. Adding'
    <3>1. /\ worker'.calls = Calls("create", "osd", q) /\ Len(worker'.calls) = Len(q)
          /\ IsInjective(worker'.calls)
          /\ \A i \in 1..Len(q) :
               /\ worker'.calls[i].do = "create" /\ worker'.calls[i].role = "osd"
               /\ worker'.calls[i].node \in ToSet(q)
      <4> DEFINE call == Calls("create", "osd", q)
      <4>1. /\ Len(call) = Len(q) /\ IsInjective(call)
            /\ \A i \in 1..Len(q) :
                 /\ call[i] = [do |-> "create", role |-> "osd", node |-> q[i]]
                 /\ q[i] \in ToSet(q)
        BY <1>6, CallsOf DEF Role
      <4>2. worker'.calls = call
        BY <1>11, <1>18, <2>2 DEF AddCalls
      <4> HIDE DEF call
      <4>3. ASSUME NEW i \in 1..Len(q)
            PROVE  /\ call[i].do = "create" /\ call[i].role = "osd"
                   /\ call[i].node \in ToSet(q)
        <5>1. /\ call[i] = [do |-> "create", role |-> "osd", node |-> q[i]]
              /\ q[i] \in ToSet(q)
          BY <4>1
        <5> QED BY <5>1
      <4> QED BY <4>1, <4>2, <4>3 DEF call
    <3>2. Pending("create", "osd")' = ToSet(q)
      <4>1. \A c \in ToSet(Calls("create", "osd", q)) : c.node \in ToSet(q)
        BY <1>6, CallsOf DEF Role
      <4>2. \A n \in ToSet(q) : [do |-> "create", role |-> "osd", node |-> n]
                                  \in ToSet(Calls("create", "osd", q))
        BY <1>6, CallsOf DEF Role
      <4>3. Pending("create", "osd")' = {n \in Node :
              [do |-> "create", role |-> "osd", node |-> n]
                 \in ToSet(Calls("create", "osd", q))}
        BY <3>1 DEF Pending
      <4> QED BY <1>6, <4>1, <4>2, <4>3
    <3>3. /\ Mine = Named("osd") /\ runs["dir"] = Named("dir")
          /\ runs["mrc"] = Named("mrc") /\ runs["osd"] = Named("osd")
      BY <1>1, FirstNode DEF Level, Role
    <3>4. /\ Mine' = Named("osd")' /\ runs'["dir"] = Named("dir")'
          /\ runs'["mrc"] = Named("mrc")'
          /\ runs'["osd"] = Named("osd")' \ Pending("create", "osd")'
      BY <1>4, <1>6, <1>10, <2>2, <2>4, <3>2, <3>3
    <3>5. \A i \in 1..Len(worker'.calls) : worker'.calls[i].node \in Named("osd")'
      BY <1>10, <2>2, <3>1
    <3> QED BY <3>1, <3>4, <3>5 DEF Adding
  <2> QED BY <1>12, <1>13, <1>14, <1>15, <1>16, <2>6, <2>7, <2>8
<1> QED BY <1>17, <1>18

\* An OSD that is removed is not the first, and it runs until it is stopped.
LEMMA PopOSDStep ==
    ASSUME InOrder, PopOSD
    PROVE  InOrder'
<1> USE XtreemFSAssumption DEF InOrder
<1> DEFINE x == osdNodes[2]
<1>1. /\ worker # None /\ worker \in PlainWorker /\ worker.op = "remove"
      /\ worker.calls = <<>> /\ worker.want["osd"] > 0 /\ ToSet(worker.calls) = {}
      /\ state = "ADAPTING" /\ ~failed /\ Led
  BY DEF PopOSD, Plain, States, Resting, ToSet
<1>2. /\ UNCHANGED <<state, dirNodes, mrcNodes, nodes, leaving, Mine, runs, holds>>
      /\ UNCHANGED <<failed, refused, undrained>>
      /\ osdNodes' = RemoveAt(osdNodes, 2)
      /\ worker' = [worker EXCEPT !.begun = TRUE, !.want["osd"] = @ - 1,
                      !.calls = Calls("stop", "osd", <<x>>), !.gone = @ \cup {x}]
  BY DEF PopOSD, history, Mine
<1>3. osdNodes \in Seq(Node) /\ IsInjective(osdNodes)
  BY DEF Plain
<1>4. worker.want \in [Role -> 0..MaxCount] /\ worker.gone \subseteq Node
  BY <1>1 DEF PlainWorker
<1>5. worker.want["osd"] \in 1..MaxCount /\ worker.want["osd"] < Len(osdNodes)
  BY <1>1, <1>4 DEF Removing, Role
<1>6. Len(osdNodes) > 1 /\ x \in Node
  BY <1>3, <1>5
<1>7. /\ osdNodes' \in Seq(Node) /\ IsInjective(osdNodes')
      /\ Len(osdNodes') = Len(osdNodes) - 1
      /\ osdNodes'[1] = osdNodes[1] /\ x \in Named("osd")
      /\ Named("osd")' = Named("osd") \ {x}
  BY <1>2, <1>3, <1>6, SecondRemoved DEF Named, ListOf
<1> HIDE DEF x
<1>8. Named("dir")' = Named("dir") /\ Named("mrc")' = Named("mrc")
  BY <1>2 DEF Named, ListOf
<1> DEFINE one == <<x>>
           call == Calls("stop", "osd", one)
<1>9. one \in Seq(Node) /\ Len(one) = 1 /\ one[1] = x
  BY <1>6, OneNode DEF one
<1>10. /\ worker' = [worker EXCEPT !.begun = TRUE, !.want["osd"] = @ - 1,
                      !.calls = call, !.gone = @ \cup {x}]
  BY <1>2
<1> HIDE DEF one
<1>11. /\ call \in Seq(PlainCall) /\ Len(call) = 1
       /\ call[1] = [do |-> "stop", role |-> "osd", node |-> x]
  <2>1. 1 \in 1..Len(one)
    BY <1>9
  <2> QED BY <1>9, <2>1, CallsOf DEF Role
<1> HIDE DEF call
<1>12. /\ worker'.op = "remove" /\ worker'.begun /\ worker'.calls = call
       /\ worker'.gone = worker.gone \cup {x}
       /\ worker'.want["osd"] = worker.want["osd"] - 1
       /\ worker'.want = [worker.want EXCEPT !["osd"] = @ - 1]
  BY <1>1, <1>4, <1>10 DEF PlainWorker, Role
<1>13. worker' \in PlainWorker /\ worker' # None
  <2>1. worker'.want \in [Role -> 0..MaxCount]
    BY <1>4, <1>5, <1>12
  <2>2. worker'.gone \in SUBSET Node
    BY <1>4, <1>6, <1>12
  <2>3. worker' \in PlainWorker
    BY <1>1, <1>10, <1>11, <1>12, <2>1, <2>2 DEF PlainWorker
  <2> QED BY <2>3, PlainWorkers
<1>14. Plain'
  BY <1>2, <1>7, <1>13 DEF Plain
<1>15. Rooted' /\ NothingRefused'
  <2>1. /\ ToSet(osdNodes') \subseteq ToSet(osdNodes)
        /\ ToSet(mrcNodes') = ToSet(mrcNodes)
    BY <1>2, <1>7 DEF Named, ListOf
  <2> QED BY <1>2, <2>1 DEF Rooted, NothingRefused
<1>16. States'
  BY <1>1, <1>2, <1>12 DEF States
<1>17. Placed'
  BY <1>2, <1>7, <1>8 DEF Placed, Role
<1>18. Resting'
  <2>1. Led'
    BY <1>1, <1>2, <1>3, <1>6, <1>7 DEF Led
  <2> QED BY <1>1, <1>2, <1>12, <1>13, <2>1 DEF Resting
<1>19. Starting' /\ Adding' /\ Stopping'
  BY <1>12 DEF Starting, Adding, Stopping
<1>20. Removing'
  <2>1. Pending("stop", "osd") = {}
    BY <1>1 DEF Pending
  <2>2. Pending("stop", "osd")' = {x}
    <3>1. ToSet(call) = {[do |-> "stop", role |-> "osd", node |-> x]}
      BY <1>11 DEF ToSet
    <3>2. Pending("stop", "osd")' = {n \in Node :
            [do |-> "stop", role |-> "osd", node |-> n] \in ToSet(call)}
      BY <1>12 DEF Pending
    <3> QED BY <1>6, <3>1, <3>2
  <2>3. /\ worker.gone \cap Named("osd") = {} /\ Mine = Named("osd") \cup worker.gone
        /\ runs["dir"] = Named("dir") /\ runs["mrc"] = Named("mrc")
        /\ runs["osd"] = Named("osd")
    BY <1>1, <2>1 DEF Removing
  <2>4. /\ worker'.gone \cap Named("osd")' = {} /\ Mine' = Named("osd")' \cup worker'.gone
        /\ runs'["dir"] = Named("dir")' /\ runs'["mrc"] = Named("mrc")'
        /\ runs'["osd"] = Named("osd")' \cup Pending("stop", "osd")'
    BY <1>2, <1>7, <1>8, <1>12, <2>2, <2>3
  <2>5. worker'.want["osd"] < Len(osdNodes')
    BY <1>3, <1>5, <1>7, <1>12
  <2>6. /\ Len(worker'.calls) <= 1
        /\ \A i \in 1..Len(worker'.calls) :
             /\ worker'.calls[i].do = "stop" /\ worker'.calls[i].role = "osd"
             /\ worker'.calls[i].node \in worker'.gone
    <3>1. \A i \in 1..1 : i = 1
      OBVIOUS
    <3>2. call[1].do = "stop" /\ call[1].role = "osd" /\ call[1].node = x
      BY <1>11
    <3>3. /\ Len(call) <= 1 /\ x \in worker'.gone
          /\ \A i \in 1..Len(call) : i = 1
      BY <1>11, <1>12, <3>1
    <3> QED BY <1>12, <3>2, <3>3
  <2> QED BY <2>4, <2>5, <2>6 DEF Removing
<1>21. Kept'
  BY <1>2 DEF Kept
<1> QED
  BY <1>14, <1>15, <1>16, <1>17, <1>18, <1>19, <1>20, <1>21

-----------------------------------------------------------------------------
(* The calls. *)

\* The next call of a worker that makes calls, and the others.
LEMMA NextCall ==
    ASSUME InOrder, worker # None, worker.calls # <<>>
    PROVE  /\ worker \in PlainWorker /\ worker.begun /\ worker.calls \in Seq(PlainCall)
           /\ Head(worker.calls) = worker.calls[1] /\ 1 \in 1..Len(worker.calls)
           /\ Head(worker.calls).do \in {"create", "stop"}
           /\ Head(worker.calls).role \in Role /\ Head(worker.calls).node \in Node
           /\ ToSet(worker.calls)
                = {Head(worker.calls)} \cup ToSet(Tail(worker.calls))
           /\ IsInjective(worker.calls) =>
                Head(worker.calls) \notin ToSet(Tail(worker.calls))
<1>1. worker \in PlainWorker /\ worker.begun /\ worker.calls \in Seq(PlainCall)
  BY DEF InOrder, Plain, Resting, PlainWorker
<1>2. /\ Head(worker.calls) = worker.calls[1] /\ 1 \in 1..Len(worker.calls)
      /\ Head(worker.calls) \in PlainCall
      /\ ToSet(worker.calls)
           = {Head(worker.calls)} \cup ToSet(Tail(worker.calls))
      /\ IsInjective(worker.calls) =>
           Head(worker.calls) \notin ToSet(Tail(worker.calls))
  BY <1>1, HeadOrTail
<1>3. \A c \in PlainCall : c.do \in {"create", "stop"} /\ c.role \in Role /\ c.node \in Node
  BY DEF PlainCall
<1> QED BY <1>1, <1>2, <1>3

\* What the worker calls next, by its operation.
LEMMA CallKinds ==
    ASSUME InOrder, worker # None, worker.calls # <<>>
    PROVE  LET c == Head(worker.calls) IN
           /\ worker.op \in {"start", "add", "remove", "stop", "snapshot"}
           /\ worker.op = "start" => c.do = "create" /\ c.node = osdNodes[1]
           /\ worker.op = "add" =>
                c.do = "create" /\ c.role = "osd" /\ c.node \in Named("osd")
           /\ worker.op = "remove" =>
                c.do = "stop" /\ c.role = "osd" /\ c.node \in worker.gone
           /\ worker.op \in {"stop", "snapshot"} => c.do = "stop"
<1> DEFINE c == Head(worker.calls)
<1>1. /\ worker \in PlainWorker /\ worker.begun /\ c = worker.calls[1]
      /\ 1 \in 1..Len(worker.calls)
  BY NextCall
<1> HIDE DEF c
<1>2. worker.op \in {"start", "add", "remove", "stop", "snapshot"}
  BY <1>1 DEF PlainWorker
<1>3. worker.op = "start" => c.do = "create" /\ c.node = osdNodes[1]
  <2>1. SUFFICES ASSUME worker.op = "start"
                 PROVE  c.do = "create" /\ c.node = osdNodes[1]
    OBVIOUS
  <2>2. c = [do |-> "create", node |-> osdNodes[1],
             role |-> Order[3 - Len(worker.calls) + 1]]
    BY <1>1, <2>1 DEF InOrder, Starting
  <2> QED BY <2>2
<1>4. worker.op = "add" =>
        c.do = "create" /\ c.role = "osd" /\ c.node \in Named("osd")
  BY <1>1 DEF InOrder, Adding
<1>5. worker.op = "remove" =>
        c.do = "stop" /\ c.role = "osd" /\ c.node \in worker.gone
  BY <1>1 DEF InOrder, Removing
<1>6. worker.op \in {"stop", "snapshot"} => c.do = "stop"
  BY <1>1 DEF InOrder, Stopping
<1> QED BY <1>2, <1>3, <1>4, <1>5, <1>6 DEF c

\* What a worker that dies in the middle of its calls leaves behind needs only
\* the lists, the types and the files to be in order.
LEMMA WorkerDies ==
    ASSUME InOrder, worker # None, worker' = None, failed' = TRUE,
           UNCHANGED <<state, dirNodes, mrcNodes, osdNodes, nodes, leaving, Mine, refused>>
    PROVE  /\ States' /\ Placed' /\ Resting' /\ NothingRefused'
           /\ Starting' /\ Adding' /\ Removing' /\ Stopping'
<1>1. \A r : Named(r)' = Named(r)
  BY DEF Named, ListOf
<1>2. state \notin {"INIT", "STOPPED", "RUNNING", "ERROR"}
  BY DEF InOrder, States
<1>3. States' /\ Placed' /\ Resting' /\ NothingRefused'
  BY <1>1, <1>2 DEF InOrder, States, Placed, Resting, NothingRefused
<1>4. Starting' /\ Adding' /\ Removing' /\ Stopping'
  BY DEF Starting, Adding, Removing, Stopping
<1> QED BY <1>3, <1>4

\* A call that does not reach its agent, or a worker that finds no node.
LEMMA FailStep ==
    ASSUME InOrder, Fail
    PROVE  InOrder'
<1>1. /\ worker # None /\ worker' = None /\ failed' = TRUE
      /\ UNCHANGED <<state, dirNodes, mrcNodes, osdNodes, nodes, leaving, Mine, refused>>
      /\ UNCHANGED <<runs, holds, undrained>>
  BY DEF Fail, lists, Mine
<1>2. Plain' /\ Rooted' /\ Kept'
  BY <1>1 DEF InOrder, Plain, Rooted, Kept
<1> QED BY <1>1, <1>2, WorkerDies DEF InOrder

\* A snapshot dies of the volume it asks for.
LEMMA SnapshotDiesStep ==
    ASSUME InOrder, SnapshotDies
    PROVE  InOrder'
<1>1. /\ worker # None /\ worker' = None /\ failed' = TRUE
      /\ UNCHANGED <<state, dirNodes, mrcNodes, osdNodes, nodes, leaving, Mine, refused>>
      /\ UNCHANGED <<runs, holds, undrained>>
  BY DEF SnapshotDies, Finished, lists, Mine
<1>2. Plain' /\ Rooted' /\ Kept'
  BY <1>1 DEF InOrder, Plain, Rooted, Kept
<1> QED BY <1>1, <1>2, WorkerDies DEF InOrder

\* An agent refuses only what an earlier worker, that died, has left behind:
\* the worker creates what does not run, and stops what runs.
LEMMA RefuseStep ==
    ASSUME InOrder, Refuse
    PROVE  InOrder'
<1> DEFINE c == Head(worker.calls)
<1>1. /\ worker # None /\ worker.calls # <<>>
      /\ c.do = "create" <=> c.node \in runs[c.role]
      /\ worker' = None /\ failed' = TRUE /\ refused' = (refused \/ ~failed)
      /\ UNCHANGED <<state, dirNodes, mrcNodes, osdNodes, nodes, leaving, Mine>>
      /\ UNCHANGED <<runs, holds, undrained>>
  BY DEF Refuse, Reaches, lists, Mine
<1>2. /\ worker \in PlainWorker /\ worker.begun /\ c = worker.calls[1]
      /\ c.role \in Role /\ c.node \in Node /\ c \in ToSet(worker.calls)
      /\ c = [do |-> c.do, role |-> c.role, node |-> c.node]
      /\ Len(worker.calls) \in Nat \ {0}
  <2>1. /\ worker \in PlainWorker /\ worker.begun /\ c = worker.calls[1]
        /\ c.role \in Role /\ c.node \in Node /\ c \in ToSet(worker.calls)
        /\ worker.calls \in Seq(PlainCall) /\ 1 \in 1..Len(worker.calls)
    BY <1>1, NextCall
  <2>2. c \in PlainCall
    BY <2>1
  <2> QED BY <2>1, <2>2 DEF PlainCall
<1>3. /\ worker.op \in {"start", "add", "remove", "stop", "snapshot"}
      /\ worker.op \in {"start", "add"} => c.do = "create"
      /\ worker.op \notin {"start", "add"} => c.do = "stop"
      /\ worker.op \in {"add", "remove"} => c.role = "osd"
  BY <1>1, CallKinds
<1> HIDE DEF c
<1>4. c.node \in Pending(c.do, c.role)
  BY <1>2 DEF Pending
<1>5. CASE worker.op = "start"
  <2>1. PICK n \in 1..3 : Len(worker.calls) = n
    <3>1. Len(worker.calls) <= 3
      BY <1>1, <1>2, <1>5 DEF InOrder, Starting
    <3>2. Len(worker.calls) \in Nat \ {0}
      BY <1>2
    <3>3. \A n \in Nat \ {0} : n <= 3 => n \in 1..3
      OBVIOUS
    <3> QED BY <3>1, <3>2, <3>3
  <2>2. c = [do |-> "create", node |-> osdNodes[1], role |-> Order[3 - n + 1]]
    <3>1. 1 \in 1..Len(worker.calls)
      BY <2>1
    <3> QED BY <1>1, <1>2, <1>5, <2>1, <3>1 DEF InOrder, Starting
  <2>3. 3 - n + 1 \in 1..3 /\ ~(3 - n + 1 <= 3 - n)
    BY <2>1
  <2>4. runs[Order[3 - n + 1]] = {}
    BY <1>1, <1>2, <1>5, <2>1, <2>3 DEF InOrder, Starting
  <2>5. runs[c.role] = {}
    BY <2>2, <2>4
  <2> QED BY <1>1, <1>3, <1>5, <2>5
<1>6. CASE worker.op = "add"
  <2>1. runs["osd"] = Named("osd") \ Pending("create", "osd")
    BY <1>1, <1>2, <1>6 DEF InOrder, Adding
  <2> QED BY <1>1, <1>3, <1>4, <1>6, <2>1
<1>7. CASE worker.op = "remove"
  <2>1. runs["osd"] = Named("osd") \cup Pending("stop", "osd")
    BY <1>1, <1>7 DEF InOrder, Removing
  <2> QED BY <1>1, <1>3, <1>4, <1>7, <2>1
<1>8. CASE worker.op \in {"stop", "snapshot"}
  <2>1. failed
    <3>1. SUFFICES ASSUME ~failed PROVE FALSE
      OBVIOUS
    <3>2. runs[c.role] = Pending("stop", c.role)
      BY <1>1, <1>2, <1>8, <3>1 DEF InOrder, Stopping
    <3> QED BY <1>1, <1>3, <1>4, <1>8, <3>2
  <2>2. refused' = refused
    BY <1>1, <2>1 DEF InOrder, Plain
  <2>3. Plain' /\ Rooted' /\ Kept'
    BY <1>1, <2>2 DEF InOrder, Plain, Rooted, Kept
  <2> QED BY <1>1, <2>2, <2>3, WorkerDies DEF InOrder
<1> QED BY <1>3, <1>5, <1>6, <1>7, <1>8

\* What the agent that is called does to the daemons and to the files.
LEMMA Served ==
    ASSUME InOrder, Serve
    PROVE  LET c == Head(worker.calls) IN
           /\ worker # None /\ worker.calls # <<>> /\ Answered
           /\ c.role \in Role /\ c.node \in Node
           /\ UNCHANGED <<state, dirNodes, mrcNodes, osdNodes, nodes, leaving, Mine, refused>>
           /\ \/ /\ c.do = "create"
                 /\ runs' = [runs EXCEPT ![c.role] = @ \cup {c.node}]
                 /\ UNCHANGED <<holds, undrained>>
              \/ /\ c.do = "stop"
                 /\ runs' = [runs EXCEPT ![c.role] = @ \ {c.node}]
                 /\ c.role = "osd" => Drain(c.node)
                 /\ c.role # "osd" => UNCHANGED <<holds, undrained>>
<1> DEFINE c == Head(worker.calls)
<1>1. worker # None /\ worker.calls # <<>> /\ Answered
  BY DEF Serve, Reaches
<1>2. c.role \in Role /\ c.node \in Node
  BY <1>1, NextCall
<1> QED BY <1>1, <1>2 DEF Serve, lists, Mine

\* An agent keeps the types, starts nothing before the directory, and a removal
\* takes the files off an OSD before it stops it.
LEMMA ServeKeeps ==
    ASSUME InOrder, Serve
    PROVE  Plain' /\ Rooted' /\ Kept'
<1> DEFINE c == Head(worker.calls)
<1>1. /\ worker # None /\ worker.calls # <<>> /\ Answered
      /\ c.role \in Role /\ c.node \in Node
      /\ UNCHANGED <<state, dirNodes, mrcNodes, osdNodes, nodes, leaving, Mine, refused>>
  BY Served
<1>2. \/ /\ c.do = "create"
         /\ runs' = [runs EXCEPT ![c.role] = @ \cup {c.node}]
         /\ UNCHANGED <<holds, undrained>>
      \/ /\ c.do = "stop"
         /\ runs' = [runs EXCEPT ![c.role] = @ \ {c.node}]
         /\ c.role = "osd" => Drain(c.node)
         /\ c.role # "osd" => UNCHANGED <<holds, undrained>>
  BY Served
<1>3. /\ worker \in PlainWorker /\ worker.begun /\ worker.calls \in Seq(PlainCall)
      /\ c = worker.calls[1] /\ 1 \in 1..Len(worker.calls)
      /\ ToSet(worker.calls) = {c} \cup ToSet(Tail(worker.calls))
  BY <1>1, NextCall
<1>4. /\ worker.op \in {"start", "add", "remove", "stop", "snapshot"}
      /\ worker.op = "start" => c.do = "create" /\ c.node = osdNodes[1]
      /\ worker.op = "add" =>
           c.do = "create" /\ c.role = "osd" /\ c.node \in Named("osd")
      /\ worker.op = "remove" =>
           c.do = "stop" /\ c.role = "osd" /\ c.node \in worker.gone
      /\ worker.op \in {"stop", "snapshot"} => c.do = "stop"
  BY <1>1, CallKinds
<1>5. \/ worker' \in PlainWorker /\ failed' = failed
      \/ worker' = None /\ failed' = TRUE
  <2>1. Tail(worker.calls) \in Seq(PlainCall)
    BY <1>1, <1>3, HeadOrTail
  <2>2. [worker EXCEPT !.calls = Tail(@)] \in PlainWorker
    BY <1>3, <2>1 DEF PlainWorker
  <2> QED BY <1>1, <2>2 DEF Answered
<1> HIDE DEF c
<1>6. \A r \in Role : runs[r] \subseteq Mine
  BY DEF InOrder, Plain
<1>7. c.do = "create" => c.node \in Mine
  <2>1. Named("osd") \subseteq Mine
    BY DEF InOrder, Placed, Role
  <2>2. worker.op = "start" => osdNodes[1] \in Mine
    BY <1>1, <1>3 DEF InOrder, Starting
  <2> QED BY <1>4, <2>1, <2>2
<1>8. /\ runs' \in [Role -> SUBSET Mine]
      /\ c.do = "create" => \A r \in Role : runs[r] \subseteq runs'[r]
      /\ c.do = "stop" => \A r \in Role : runs'[r] \subseteq runs[r]
      /\ \A r \in Role \ {c.role} : runs'[r] = runs[r]
  BY <1>1, <1>2, <1>7 DEF InOrder, Plain
<1>9. holds' \subseteq nodes /\ undrained' \in BOOLEAN
  <2>1. ASSUME Drain(c.node) PROVE holds' \subseteq nodes /\ undrained' \in BOOLEAN
    <3>1. runs["osd"] \subseteq nodes
      BY <1>6 DEF Role, Mine
    <3> QED BY <2>1, <3>1 DEF Drain, InOrder, Plain
  <2>2. UNCHANGED <<holds, undrained>> => holds' \subseteq nodes /\ undrained' \in BOOLEAN
    BY DEF InOrder, Plain
  <2> QED BY <1>2, <2>1, <2>2
<1>10. Plain'
  <2>1. worker' \in PlainWorker \cup {None} /\ failed' \in BOOLEAN
    BY <1>5 DEF InOrder, Plain
  <2> QED BY <1>1, <1>8, <1>9, <2>1 DEF InOrder, Plain
<1>11. Rooted'
  <2>1. "dir" \in Role /\ "mrc" \in Role /\ "osd" \in Role
    BY DEF Role
  <2>2. CASE worker.op \in {"start", "add", "remove"}
    <3>1. Led
      BY <1>1, <1>3, <2>2 DEF InOrder, Resting, Starting
    <3>2. dirNodes # <<>> /\ dirNodes[1] = osdNodes[1] /\ osdNodes[1] \in Named("dir")
      BY <3>1, FirstNode DEF InOrder
    <3>3. CASE worker.op \in {"add", "remove"}
      <4>1. runs["dir"] = Named("dir")
        BY <1>1, <1>3, <3>3 DEF InOrder, Adding, Removing
      <4>2. runs'["dir"] = runs["dir"]
        BY <1>4, <1>8, <2>1, <3>3
      <4> QED BY <1>1, <3>2, <4>1, <4>2 DEF Rooted
    <3>4. CASE worker.op = "start"
      <4>1. dirNodes[1] \in runs'["dir"]
        <5>1. CASE c.role = "dir"
          BY <1>2, <1>4, <2>1, <3>2, <3>4, <5>1 DEF InOrder, Plain
        <5>2. CASE c.role # "dir"
          <6>1. /\ c.role = Order[3 - Len(worker.calls) + 1]
                /\ Len(worker.calls) <= 3 /\ Mine = {osdNodes[1]}
                /\ runs["dir"] =
                     IF 1 <= 3 - Len(worker.calls) THEN Mine ELSE {}
            <7>1. /\ worker.calls[1] = [do |-> "create", node |-> osdNodes[1],
                        role |-> Order[3 - Len(worker.calls) + 1]]
                  /\ Len(worker.calls) <= 3 /\ Mine = {osdNodes[1]}
                  /\ \A i \in 1..3 : runs[Order[i]] =
                       IF i <= 3 - Len(worker.calls) THEN Mine ELSE {}
              BY <1>1, <1>3, <3>4 DEF InOrder, Starting
            <7>2. Order[1] = "dir" /\ 1 \in 1..3
              BY DEF Order
            <7> HIDE DEF Order
            <7> QED BY <1>3, <7>1, <7>2
          <6>2. PICK n \in Nat \ {0} : n = Len(worker.calls)
            BY <1>3
          <6>3. n # 3
            <7>1. Order[3 - 3 + 1] = "dir"
              BY DEF Order
            <7> HIDE DEF Order
            <7> QED BY <5>2, <6>1, <6>2, <7>1
          <6>4. \A i \in Nat \ {0} : i <= 3 /\ i # 3 => 1 <= 3 - i
            OBVIOUS
          <6>5. runs["dir"] = Mine
            BY <6>1, <6>2, <6>3, <6>4
          <6> QED BY <1>4, <1>8, <2>1, <3>2, <3>4, <6>1, <6>5
        <5> QED BY <5>1, <5>2
      <4> QED BY <1>1, <3>2, <4>1 DEF Rooted
    <3> QED BY <2>2, <3>3, <3>4
  <2>3. CASE worker.op \in {"stop", "snapshot"} /\ c.role # "dir"
    <3>1. /\ runs'["dir"] = runs["dir"] /\ runs'["mrc"] \subseteq runs["mrc"]
          /\ runs'["osd"] \subseteq runs["osd"]
      BY <1>4, <1>8, <2>1, <2>3
    <3> QED BY <1>1, <3>1 DEF InOrder, Rooted
  <2>4. CASE worker.op \in {"stop", "snapshot"} /\ c.role = "dir"
    <3>1. \A i \in 1..Len(worker.calls) : worker.calls[i].role = "dir"
      BY <1>1, <1>3, <2>4 DEF InOrder, Stopping
    <3>2. \A r \in {"mrc", "osd"} : Pending("stop", r) = {}
      <4>1. \A d \in ToSet(worker.calls) : d.role = "dir"
        BY <1>3, <3>1 DEF ToSet
      <4> QED BY <4>1 DEF Pending
    <3>3. \A r \in {"mrc", "osd"} : runs[r] \cap Named(r) = {}
      BY <1>1, <1>3, <2>4, <3>2 DEF InOrder, Stopping
    <3>4. /\ runs'["mrc"] \cap Named("mrc") = {}
          /\ runs'["osd"] \cap Named("osd") = {}
      BY <1>4, <1>8, <2>1, <2>4, <3>3
    <3> QED BY <1>1, <3>4 DEF Rooted, Named, ListOf
  <2> QED BY <1>4, <2>2, <2>3, <2>4
<1>12. Kept'
  <2>1. SUFFICES ASSUME state' # "EPILOGUE", ~undrained'
                 PROVE  holds' \subseteq runs'["osd"]
    BY DEF Kept
  <2>2. worker.op \notin {"stop", "snapshot"}
    BY <1>1, <2>1 DEF InOrder, States
  <2>3. "osd" \in Role
    BY DEF Role
  <2>4. CASE c.do = "create"
    <3>1. holds' = holds /\ undrained' = undrained
      BY <1>2, <2>4
    <3>2. holds \subseteq runs["osd"]
      BY <1>1, <2>1, <3>1 DEF InOrder, Kept
    <3> QED BY <1>8, <2>3, <2>4, <3>1, <3>2
  <2>5. CASE c.do = "stop"
    <3>1. worker.op = "remove" /\ c.role = "osd"
      BY <1>4, <2>2, <2>5
    <3>2. Drain(c.node) /\ runs'["osd"] = runs["osd"] \ {c.node}
      BY <1>2, <2>3, <2>5, <3>1 DEF InOrder, Plain
    <3>3. ~undrained
      BY <2>1, <3>2 DEF Drain, InOrder, Plain
    <3>4. holds \subseteq runs["osd"]
      BY <1>1, <2>1, <3>3 DEF InOrder, Kept
    <3> QED BY <2>1, <3>1, <3>2, <3>4 DEF Drain, Drains
  <2> QED BY <1>2, <2>4, <2>5
<1> QED BY <1>10, <1>11, <1>12

\* After an answer, the worker has the other calls still to make.
LEMMA ServeStep ==
    ASSUME InOrder, Serve
    PROVE  InOrder'
<1> DEFINE c == Head(worker.calls)
           rest == Tail(worker.calls)
<1>1. /\ worker # None /\ worker.calls # <<>> /\ Answered
      /\ c.role \in Role /\ c.node \in Node
      /\ UNCHANGED <<state, dirNodes, mrcNodes, osdNodes, nodes, leaving, Mine, refused>>
  BY Served
<1>2. Plain' /\ Rooted' /\ Kept'
  BY ServeKeeps
<1>3. CASE worker' = None /\ failed' = TRUE
  BY <1>1, <1>2, <1>3, WorkerDies DEF InOrder
<1>4. CASE worker' = [worker EXCEPT !.calls = Tail(@)] /\ UNCHANGED failed
  <2>1. /\ c.do = "create" =>
             runs' = [runs EXCEPT ![c.role] = @ \cup {c.node}]
        /\ c.do = "stop" =>
             runs' = [runs EXCEPT ![c.role] = @ \ {c.node}]
        /\ runs \in [Role -> SUBSET Mine]
    BY Served DEF InOrder, Plain
  <2>2. /\ worker \in PlainWorker /\ worker.begun /\ worker.calls \in Seq(PlainCall)
        /\ c = worker.calls[1] /\ 1 \in 1..Len(worker.calls)
        /\ ToSet(worker.calls) = {c} \cup ToSet(rest)
        /\ IsInjective(worker.calls) => c \notin ToSet(rest)
    BY <1>1, NextCall
  <2>3. /\ rest \in Seq(PlainCall) /\ Len(rest) = Len(worker.calls) - 1
        /\ \A i \in 1..Len(rest) :
             i + 1 \in 1..Len(worker.calls) /\ rest[i] = worker.calls[i + 1]
        /\ IsInjective(worker.calls) => IsInjective(rest)
    BY <1>1, <2>2, HeadOrTail
  <2>4. /\ worker' \in PlainWorker /\ worker'.op = worker.op /\ worker'.begun
        /\ worker'.calls = rest /\ worker'.want = worker.want
        /\ worker'.gone = worker.gone
    BY <1>4, <2>2, <2>3 DEF PlainWorker
  <2>5. worker' # None
    BY <2>4, PlainWorkers
  <2>6. /\ worker.op \in {"start", "add", "remove", "stop", "snapshot"}
        /\ worker.op = "start" => c.do = "create" /\ c.node = osdNodes[1]
        /\ worker.op = "add" =>
             c.do = "create" /\ c.role = "osd" /\ c.node \in Named("osd")
        /\ worker.op = "remove" =>
             c.do = "stop" /\ c.role = "osd" /\ c.node \in worker.gone
        /\ worker.op \in {"stop", "snapshot"} => c.do = "stop"
    BY <1>1, CallKinds
  <2>7. c = [do |-> c.do, role |-> c.role, node |-> c.node]
    <3>1. c \in PlainCall
      BY <2>2
    <3> QED BY <3>1 DEF PlainCall
  <2>8. /\ \A r : Named(r)' = Named(r)
        /\ Led <=> Led'
    BY <1>1 DEF Named, ListOf, Led
  <2> HIDE DEF c, rest
  <2>9. ASSUME NEW do, do = c.do, NEW r \in Role, IsInjective(worker.calls)
        PROVE  Pending(do, r)' = IF r = c.role THEN Pending(do, r) \ {c.node}
                                 ELSE Pending(do, r)
    <3>1. Pending(do, r)' = {n \in Node :
            [do |-> do, role |-> r, node |-> n] \in ToSet(rest)}
      BY <2>4 DEF Pending
    <3>2. ASSUME NEW n \in Node
          PROVE  [do |-> do, role |-> r, node |-> n] = c
                   <=> r = c.role /\ n = c.node
      BY <2>7, <2>9
    <3> QED BY <2>2, <2>9, <3>1, <3>2 DEF Pending
  <2>10. States' /\ Placed' /\ NothingRefused'
    BY <1>1, <1>4, <2>4, <2>5, <2>8 DEF InOrder, States, Placed, NothingRefused
  <2>11. Resting'
    BY <1>1, <2>4, <2>5, <2>8 DEF InOrder, Resting
  <2>12. Starting'
    <3>1. SUFFICES ASSUME worker.op = "start" PROVE Starting'
      BY <2>4 DEF Starting
    <3>2. /\ Led /\ Len(osdNodes) = 1 /\ Mine = {osdNodes[1]}
          /\ Len(worker.calls) <= 3
          /\ \A i \in 1..Len(worker.calls) :
               worker.calls[i] = [do |-> "create", node |-> osdNodes[1],
                                  role |-> Order[3 - Len(worker.calls) + i]]
          /\ \A i \in 1..3 :
               runs[Order[i]] = IF i <= 3 - Len(worker.calls) THEN Mine ELSE {}
      BY <1>1, <2>2, <3>1 DEF InOrder, Starting
    <3>3. PICK n \in 1..3 : n = Len(worker.calls)
      <4>1. Len(worker.calls) \in Nat \ {0}
        BY <2>2
      <4>2. \A m \in Nat \ {0} : m <= 3 => m \in 1..3
        OBVIOUS
      <4> QED BY <3>2, <4>1, <4>2
    <3>4. Len(rest) = n - 1 /\ Len(rest) <= 3
      BY <2>3, <3>3
    <3>5. ASSUME NEW i \in 1..Len(rest)
          PROVE  rest[i] = [do |-> "create", node |-> osdNodes[1],
                            role |-> Order[3 - Len(rest) + i]]
      <4>1. 3 - Len(rest) + i = 3 - n + (i + 1)
        BY <3>3, <3>4
      <4>2. rest[i] = worker.calls[i + 1] /\ i + 1 \in 1..n
        BY <2>3, <3>3
      <4> QED BY <3>2, <3>3, <4>1, <4>2
    <3>6. c.role = Order[3 - n + 1] /\ c.node = osdNodes[1] /\ c.do = "create"
      <4>1. c = [do |-> "create", node |-> osdNodes[1], role |-> Order[3 - n + 1]]
        BY <2>2, <3>2, <3>3
      <4> QED BY <4>1
    <3>7. ASSUME NEW i \in 1..3
          PROVE  runs'[Order[i]] = IF i <= 3 - Len(rest) THEN Mine ELSE {}
      <4>1. 3 - Len(rest) = 3 - n + 1
        BY <3>3, <3>4
      <4>2. \A m \in 1..3 : 3 - m + 1 \in 1..3
        OBVIOUS
      <4>3. \A j, k \in 1..3 : (Order[j] = Order[k] <=> j = k) /\ Order[j] \in Role
        BY DEF Order, Role
      <4> HIDE DEF Order
      <4>4. runs[Order[i]] = IF i <= 3 - n THEN Mine ELSE {}
        BY <3>2, <3>3
      <4>5. runs' = [runs EXCEPT ![Order[3 - n + 1]] = @ \cup {osdNodes[1]}]
        BY <2>1, <3>6
      <4>6. CASE i = 3 - n + 1
        <5>1. runs'[Order[i]] = runs[Order[i]] \cup {osdNodes[1]}
          BY <2>1, <4>2, <4>3, <4>5, <4>6
        <5>2. ~(i <= 3 - n) /\ i <= 3 - Len(rest)
          BY <3>3, <4>1, <4>6
        <5> QED BY <3>2, <4>4, <5>1, <5>2
      <4>7. CASE i # 3 - n + 1
        <5>1. runs'[Order[i]] = runs[Order[i]]
          BY <2>1, <4>2, <4>3, <4>5, <4>7
        <5>2. i <= 3 - n <=> i <= 3 - Len(rest)
          BY <3>3, <4>1, <4>7
        <5> QED BY <4>4, <5>1, <5>2
      <4> QED BY <4>6, <4>7
    <3> QED BY <1>1, <2>4, <2>8, <3>2, <3>4, <3>5, <3>7 DEF Starting
  <2>13. Adding'
    <3>1. SUFFICES ASSUME worker.op = "add" PROVE Adding'
      BY <2>4 DEF Adding
    <3>2. /\ Mine = Named("osd") /\ IsInjective(worker.calls)
          /\ \A i \in 1..Len(worker.calls) :
               /\ worker.calls[i].do = "create" /\ worker.calls[i].role = "osd"
               /\ worker.calls[i].node \in Named("osd")
          /\ runs["dir"] = Named("dir") /\ runs["mrc"] = Named("mrc")
          /\ runs["osd"] = Named("osd") \ Pending("create", "osd")
      BY <1>1, <2>2, <3>1 DEF InOrder, Adding
    <3>3. /\ c.do = "create" /\ c.role = "osd" /\ c.node \in Named("osd")
      BY <2>6, <3>1
    <3>4. Pending("create", "osd")' = Pending("create", "osd") \ {c.node}
      BY <2>9, <3>2, <3>3 DEF Role
    <3>5. /\ runs'["dir"] = Named("dir") /\ runs'["mrc"] = Named("mrc")
          /\ runs'["osd"] = runs["osd"] \cup {c.node}
      BY <2>1, <3>2, <3>3 DEF Role
    <3>6. runs'["osd"] = Named("osd") \ Pending("create", "osd")'
      BY <3>2, <3>3, <3>4, <3>5
    <3>7. \A i \in 1..Len(rest) :
            /\ rest[i].do = "create" /\ rest[i].role = "osd"
            /\ rest[i].node \in Named("osd")
      BY <2>3, <3>2
    <3> QED BY <1>1, <2>3, <2>4, <2>8, <3>2, <3>5, <3>6, <3>7 DEF Adding
  <2>14. Removing'
    <3>1. SUFFICES ASSUME worker.op = "remove" PROVE Removing'
      BY <2>4 DEF Removing
    <3>2. /\ worker.want["osd"] < Len(osdNodes)
          /\ worker.gone \cap Named("osd") = {}
          /\ Mine = Named("osd") \cup worker.gone
          /\ Len(worker.calls) <= 1
          /\ runs["dir"] = Named("dir") /\ runs["mrc"] = Named("mrc")
          /\ runs["osd"] = Named("osd") \cup Pending("stop", "osd")
      BY <1>1, <3>1 DEF InOrder, Removing
    <3>3. c.do = "stop" /\ c.role = "osd" /\ c.node \in worker.gone
      BY <2>6, <3>1
    <3>4. rest = <<>> /\ Len(rest) = 0 /\ ToSet(rest) = {}
      <4>1. Len(worker.calls) \in Nat \ {0}
        BY <2>2
      <4>2. \A m \in Nat \ {0} : m <= 1 => m - 1 = 0
        OBVIOUS
      <4>3. Len(rest) = 0
        BY <2>3, <3>2, <4>1, <4>2
      <4>4. rest = <<>>
        BY <2>3, <4>3
      <4> QED BY <4>3, <4>4 DEF ToSet
    <3>5. Pending("stop", "osd")' = {} /\ Pending("stop", "osd") \subseteq {c.node}
      BY <2>2, <2>4, <3>4 DEF Pending
    <3>6. /\ runs'["dir"] = Named("dir") /\ runs'["mrc"] = Named("mrc")
          /\ runs'["osd"] = runs["osd"] \ {c.node}
      BY <2>1, <3>2, <3>3 DEF Role
    <3>7. runs'["osd"] = Named("osd") \cup Pending("stop", "osd")'
      BY <3>2, <3>3, <3>5, <3>6
    <3> QED BY <1>1, <2>4, <2>8, <3>2, <3>4, <3>6, <3>7 DEF Removing
  <2>15. Stopping'
    <3>1. SUFFICES ASSUME worker.op \in {"stop", "snapshot"} PROVE Stopping'
      BY <2>4 DEF Stopping
    <3>2. /\ IsInjective(worker.calls)
          /\ \A i \in 1..Len(worker.calls) :
               /\ worker.calls[i].do = "stop"
               /\ worker.calls[i].role = "dir" =>
                    \A j \in i..Len(worker.calls) : worker.calls[j].role = "dir"
          /\ \A r \in {"mrc", "osd"} :
               runs[r] \cap Named(r) \subseteq Pending("stop", r)
          /\ ~failed => \A r \in Role : runs[r] = Pending("stop", r)
      BY <1>1, <2>2, <3>1 DEF InOrder, Stopping
    <3>3. c.do = "stop"
      BY <2>6, <3>1
    <3>4. ASSUME NEW i \in 1..Len(rest)
          PROVE  /\ rest[i].do = "stop"
                 /\ rest[i].role = "dir" =>
                      \A j \in i..Len(rest) : rest[j].role = "dir"
      <4>1. rest[i] = worker.calls[i + 1] /\ i + 1 \in 1..Len(worker.calls)
        BY <2>3
      <4>2. ASSUME NEW j \in i..Len(rest), rest[i].role = "dir"
            PROVE  rest[j].role = "dir"
        <5>1. j \in 1..Len(rest)
          BY <2>3
        <5>2. /\ rest[j] = worker.calls[j + 1]
              /\ j + 1 \in (i + 1)..Len(worker.calls)
          BY <2>3, <5>1
        <5> QED BY <3>2, <4>1, <4>2, <5>2
      <4> QED BY <3>2, <4>1, <4>2
    <3>5. ASSUME NEW r \in Role
          PROVE  IF r = c.role
                 THEN /\ Pending("stop", r)' = Pending("stop", r) \ {c.node}
                      /\ runs'[r] = runs[r] \ {c.node}
                 ELSE /\ Pending("stop", r)' = Pending("stop", r)
                      /\ runs'[r] = runs[r]
      BY <1>1, <2>1, <2>9, <3>2, <3>3
    <3>6. /\ \A r \in {"mrc", "osd"} :
               runs'[r] \cap Named(r) \subseteq Pending("stop", r)'
          /\ ~failed => \A r \in Role : runs'[r] = Pending("stop", r)'
      <4>1. ASSUME NEW r \in {"mrc", "osd"}
            PROVE  runs'[r] \cap Named(r) \subseteq Pending("stop", r)'
        <5>1. r \in Role /\ runs[r] \cap Named(r) \subseteq Pending("stop", r)
          BY <3>2 DEF Role
        <5> QED BY <3>5, <5>1
      <4>2. ASSUME ~failed, NEW r \in Role
            PROVE  runs'[r] = Pending("stop", r)'
        BY <3>2, <3>5, <4>2
      <4> QED BY <4>1, <4>2
    <3>7. /\ IsInjective(worker'.calls)
          /\ \A i \in 1..Len(worker'.calls) :
               /\ worker'.calls[i].do = "stop"
               /\ worker'.calls[i].role = "dir" =>
                    \A j \in i..Len(worker'.calls) : worker'.calls[j].role = "dir"
      BY <2>3, <2>4, <3>2, <3>4
    <3>8. /\ \A r \in {"mrc", "osd"} :
               runs'[r] \cap Named(r)' \subseteq Pending("stop", r)'
          /\ ~failed' => \A r \in Role : runs'[r] = Pending("stop", r)'
      BY <1>4, <2>8, <3>6
    <3> QED BY <3>7, <3>8 DEF Stopping
  <2> QED BY <1>2, <2>10, <2>11, <2>12, <2>13, <2>14, <2>15 DEF InOrder
<1> QED BY <1>1, <1>3, <1>4 DEF Answered

-----------------------------------------------------------------------------
(* The workers end. *)

\* A start or an addition that has made all its calls has everything running.
LEMMA StartedStep ==
    ASSUME InOrder, Started
    PROVE  InOrder'
<1>1. /\ worker # None /\ worker \in PlainWorker /\ worker.op \in {"start", "add"}
      /\ worker.begun /\ worker.calls = <<>> /\ worker' = None
      /\ state' \in {"RUNNING", "ERROR"}
      /\ UNCHANGED <<dirNodes, mrcNodes, osdNodes, nodes, leaving, Mine, runs, holds>>
      /\ UNCHANGED <<failed, refused, undrained>>
  BY DEF Started, Finished, InOrder, Plain, lists, history, Mine
<1>2. state \in {"PROLOGUE", "ADAPTING"} /\ ~failed
  BY <1>1 DEF InOrder, States
<1>3. (\A r : Named(r)' = Named(r)) /\ (Led <=> Led') /\ (Level <=> Level')
  BY <1>1 DEF Named, ListOf, Led, Level
<1>4. Len(worker.calls) = 0 /\ \A do, r : Pending(do, r) = {}
  <2>1. ToSet(worker.calls) = {} /\ Len(worker.calls) = 0
    BY <1>1 DEF ToSet
  <2> QED BY <2>1 DEF Pending
<1>5. Led /\ Level
  <2>1. CASE worker.op = "start"
    <3>1. /\ Led /\ Mine = {osdNodes[1]} /\ Len(osdNodes) = 1
          /\ \A i \in 1..3 : runs[Order[i]] = IF i <= 3 - 0 THEN Mine ELSE {}
      BY <1>1, <1>4, <2>1 DEF InOrder, Starting
    <3>2. runs["dir"] = Mine /\ runs["mrc"] = Mine /\ runs["osd"] = Mine
      <4>1. \A i \in 1..3 : i <= 3 - 0
        OBVIOUS
      <4>2. \A i \in 1..3 : runs[Order[i]] = Mine
        BY <3>1, <4>1
      <4>3. /\ 1 \in 1..3 /\ 2 \in 1..3 /\ 3 \in 1..3
            /\ Order[1] = "dir" /\ Order[2] = "mrc" /\ Order[3] = "osd"
        BY DEF Order
      <4> HIDE DEF Order
      <4> QED BY <4>2, <4>3
    <3>3. Named("dir") = Mine /\ Named("mrc") = Mine
      BY <3>1, FirstNode DEF InOrder
    <3>4. Named("osd") \subseteq Mine /\ osdNodes[1] \in Named("osd")
      BY <3>1, FirstNode DEF InOrder, Placed, Role
    <3>5. \A r \in Role : runs[r] = Named(r) /\ Named(r) = Mine
      BY <3>1, <3>2, <3>3, <3>4 DEF Role
    <3> QED BY <3>1, <3>5 DEF Level, Role
  <2>2. CASE worker.op = "add"
    <3>1. /\ Led /\ Mine = Named("osd") /\ runs["dir"] = Named("dir")
          /\ runs["mrc"] = Named("mrc") /\ runs["osd"] = Named("osd")
      BY <1>1, <1>4, <2>2 DEF InOrder, Adding, Resting
    <3>2. Named("dir") \subseteq Mine /\ Named("mrc") \subseteq Mine
      BY DEF InOrder, Placed, Role
    <3> QED BY <3>1, <3>2 DEF Level, Role
  <2> QED BY <1>1, <2>1, <2>2
<1>6. Plain'
  BY <1>1 DEF InOrder, Plain, State
<1>7. Rooted' /\ NothingRefused' /\ Placed'
  BY <1>1, <1>3 DEF InOrder, Rooted, NothingRefused, Placed
<1>8. States' /\ Kept'
  BY <1>1, <1>2 DEF InOrder, States, Kept
<1>9. Resting'
  BY <1>1, <1>3, <1>5 DEF Resting
<1>10. Starting' /\ Adding' /\ Removing' /\ Stopping'
  BY <1>1 DEF Starting, Adding, Removing, Stopping
<1> QED BY <1>6, <1>7, <1>8, <1>9, <1>10 DEF InOrder

\* A removal hands back the machines that are on no list any more.
LEMMA RemovedStep ==
    ASSUME InOrder, Removed
    PROVE  InOrder'
<1>1. /\ worker # None /\ worker \in PlainWorker /\ worker.op = "remove"
      /\ worker.begun /\ worker.calls = <<>> /\ worker' = None
      /\ state' = "RUNNING" /\ UNCHANGED <<dirNodes, mrcNodes, osdNodes>>
      /\ leaving' = leaving \cup worker.gone /\ Mine' = Mine \ worker.gone
      /\ worker.gone \subseteq Node
      /\ UNCHANGED <<nodes, runs, holds, failed, refused, undrained>>
  BY DEF Removed, Finished, InOrder, Plain, PlainWorker, Mine, lists, history
<1>2. state = "ADAPTING" /\ ~failed /\ Led
  BY <1>1 DEF InOrder, States, Resting
<1>3. (\A r : Named(r)' = Named(r)) /\ (Led <=> Led')
  BY <1>1 DEF Named, ListOf, Led
<1>4. \A do, r : Pending(do, r) = {}
  <2>1. ToSet(worker.calls) = {}
    BY <1>1 DEF ToSet
  <2> QED BY <2>1 DEF Pending
<1>5. /\ worker.gone \cap Named("osd") = {} /\ Mine = Named("osd") \cup worker.gone
      /\ runs["dir"] = Named("dir") /\ runs["mrc"] = Named("mrc")
      /\ runs["osd"] = Named("osd")
  BY <1>1, <1>4 DEF InOrder, Removing
<1>6. Named("dir") \subseteq Named("osd") /\ Named("mrc") \subseteq Named("osd")
  BY <1>2, FirstNode DEF InOrder
<1>7. /\ Mine' = Named("osd") /\ runs'["dir"] = Named("dir")
      /\ runs'["mrc"] = Named("mrc") /\ runs'["osd"] = Named("osd")
  BY <1>1, <1>5, <1>6 DEF Role
<1>8. Level'
  <2>1. \A r \in Role : runs'[r] = Named(r)' /\ Named(r) \subseteq Mine'
    BY <1>3, <1>6, <1>7 DEF Role
  <2> QED BY <1>3, <1>7, <2>1 DEF Level, Role
<1>9. Plain'
  <2>1. runs' \in [Role -> SUBSET Mine']
    BY <1>1, <1>6, <1>7 DEF InOrder, Plain, Role
  <2> QED BY <1>1, <2>1 DEF InOrder, Plain, State
<1>10. Placed'
  BY <1>3, <1>6, <1>7 DEF Placed, Role
<1>11. Rooted' /\ NothingRefused'
  <2>1. dirNodes' # <<>> /\ dirNodes'[1] \in runs'["dir"]
    BY <1>1, <1>2, <1>7, FirstNode DEF InOrder
  <2> QED BY <1>1, <2>1 DEF InOrder, Rooted, NothingRefused
<1>12. States'
  BY <1>1, <1>2 DEF States
<1>13. Kept'
  BY <1>1, <1>2 DEF InOrder, Kept, Role
<1>14. Resting'
  BY <1>1, <1>2, <1>3, <1>8 DEF Resting
<1>15. Starting' /\ Adding' /\ Removing' /\ Stopping'
  BY <1>1 DEF Starting, Adding, Removing, Stopping
<1> QED BY <1>9, <1>10, <1>11, <1>12, <1>13, <1>14, <1>15 DEF InOrder

\* A stop leaves nothing.
LEMMA on_stopStep ==
    ASSUME InOrder, on_stop
    PROVE  InOrder'
<1>1. /\ worker' = None /\ state' = "STOPPED" /\ ~failed' /\ ~undrained'
      /\ failed' = FALSE /\ undrained' = FALSE /\ refused' = refused
      /\ dirNodes' = <<>> /\ mrcNodes' = <<>> /\ osdNodes' = <<>>
      /\ nodes' = nodes \ nodes /\ holds' = holds \ nodes
      /\ leaving' = leaving \cup nodes
      /\ runs' = [r \in Role |-> runs[r] \ nodes]
  BY DEF on_stop, Release, Cleared
<1>2. /\ nodes' = {} /\ Mine' = {} /\ holds' = {} /\ leaving' \subseteq Node
      /\ \A r \in Role : runs'[r] = {}
  BY <1>1 DEF InOrder, Plain, Mine
<1>3. <<>> \in Seq(Node) /\ IsInjective(<<>>) /\ ToSet(<<>>) = {}
  BY DEF IsInjective, ToSet
<1>4. \A r : Named(r)' = {}
  BY <1>1, <1>3 DEF Named, ListOf
<1>5. Plain'
  BY <1>1, <1>2, <1>3 DEF InOrder, Plain, State
<1>6. Rooted' /\ NothingRefused' /\ Placed' /\ Kept'
  BY <1>1, <1>2, <1>4 DEF InOrder, Rooted, NothingRefused, Placed, Kept, Role
<1>7. States'
  BY <1>1, <1>2 DEF States
<1>8. Resting'
  BY <1>1, <1>2, <1>4 DEF Resting, Level
<1>9. Starting' /\ Adding' /\ Removing' /\ Stopping'
  BY <1>1 DEF Starting, Adding, Removing, Stopping
<1> QED BY <1>5, <1>6, <1>7, <1>8, <1>9 DEF InOrder

-----------------------------------------------------------------------------
(* The clients and the machines. *)

\* A step that changes nothing but files on OSDs that run and machines that are
\* being handed back keeps everything.
LEMMA QuietStep ==
    ASSUME InOrder, UNCHANGED <<state, lists, Mine, runs, worker, history>>,
           nodes' \subseteq nodes, leaving' \subseteq leaving,
           holds' \subseteq nodes', holds' \subseteq holds \cup runs["osd"]
    PROVE  InOrder'
<1>1. /\ UNCHANGED <<state, dirNodes, mrcNodes, osdNodes, Mine, runs, worker>>
      /\ UNCHANGED <<failed, refused, undrained>>
  BY DEF lists, history
<1>2. /\ \A r : Named(r)' = Named(r)
      /\ \A do, r : Pending(do, r)' = Pending(do, r)
      /\ Led <=> Led'
  BY <1>1 DEF Named, ListOf, Pending, Led
<1>3. Level <=> Level'
  BY <1>1, <1>2 DEF Level
<1>4. Plain'
  BY <1>1 DEF InOrder, Plain
<1>5. nodes = {} => nodes' = {}
  OBVIOUS
<1>6. Rooted' /\ NothingRefused' /\ Placed'
  BY <1>1, <1>2 DEF InOrder, Rooted, NothingRefused, Placed
<1>7. States'
  BY <1>1, <1>5 DEF InOrder, States
<1>8. Resting'
  BY <1>1, <1>2, <1>3, <1>5 DEF InOrder, Resting
<1>9. Starting' /\ Adding'
  BY <1>1, <1>2 DEF InOrder, Starting, Adding
<1>10. Removing'
  BY <1>1, <1>2 DEF InOrder, Removing
<1>11. Stopping'
  BY <1>1, <1>2 DEF InOrder, Stopping
<1>12. Kept'
  BY <1>1 DEF InOrder, Kept
<1> QED BY <1>4, <1>6, <1>7, <1>8, <1>9, <1>10, <1>11, <1>12 DEF InOrder

\* Clients write to OSDs that run; machines that are handed back run nothing.
LEMMA OthersStep ==
    ASSUME InOrder, NEW n \in Node, DropNode(n) \/ Killed(n) \/ Write(n)
    PROVE  InOrder'
<1>1. /\ runs \in [Role -> SUBSET Mine] /\ runs["osd"] \subseteq Mine
      /\ Mine \subseteq nodes /\ holds \subseteq nodes
  BY DEF InOrder, Plain, Role, Mine
<1>2. CASE DropNode(n)
  <2>1. /\ n \in leaving /\ n \notin Mine
        /\ nodes' = nodes \ {n} /\ leaving' = leaving /\ holds' = holds \ {n}
        /\ runs' = [r \in Role |-> runs[r] \ {n}]
        /\ UNCHANGED <<state, lists, worker, history>>
    BY <1>2 DEF DropNode, Release, Mine
  <2>2. Mine' = Mine
    BY <2>1 DEF Mine
  <2>3. runs' = runs
    <3>1. \A r \in Role : runs[r] \ {n} = runs[r]
      BY <1>1, <2>1
    <3> QED BY <1>1, <2>1, <3>1
  <2> QED BY <1>1, <2>1, <2>2, <2>3, QuietStep
<1>3. CASE Killed(n)
  <2>1. Mine' = Mine
    BY <1>3 DEF Killed, Mine
  <2> QED BY <1>1, <1>3, <2>1, QuietStep DEF Killed
<1>4. CASE Write(n)
  <2>1. Mine' = Mine
    BY <1>4 DEF Write, Mine
  <2> QED BY <1>1, <1>4, <2>1, QuietStep DEF Write
<1> QED BY <1>2, <1>3, <1>4

-----------------------------------------------------------------------------
(* A start that is refused. *)

\* The lists of a service that starts are empty, and get the word "error".
LEMMA StartRefusedStep ==
    ASSUME InOrder, StartRefused
    PROVE  Poisoned'
<1>1. /\ worker # None /\ worker.op = "start" /\ ~worker.begun
      /\ worker' = None /\ failed' = TRUE
      /\ UNCHANGED <<state, nodes, leaving, runs, holds, refused, undrained>>
  BY DEF StartRefused, Begins
<1>2. /\ state = "PROLOGUE" /\ nodes = {} /\ Mine = {} /\ leaving \subseteq Node
      /\ refused = FALSE /\ undrained \in BOOLEAN
  BY <1>1 DEF InOrder, States, Resting, Plain, Mine, NothingRefused
<1>3. dirNodes = <<>> /\ mrcNodes = <<>> /\ osdNodes = <<>>
  BY <1>2, NamedNodes DEF InOrder, Placed, Role, ListOf
<1>4. runs = [r \in Role |-> {}] /\ holds = {}
  BY <1>2 DEF InOrder, Plain
<1>5. dirNodes' = <<Junk>> /\ mrcNodes' = <<Junk>> /\ osdNodes' = <<Junk>>
  BY <1>3 DEF StartRefused
<1> QED BY <1>1, <1>2, <1>4, <1>5 DEF Poisoned

\* A stop is to call "error" three times.
LEMMA JunkCalls ==
    ASSUME Poisoned
    PROVE  /\ _stop_all \in Seq(Call) /\ _stop_all # <<>>
           /\ Head(_stop_all).node = Junk
<1> DEFINE C(r) == [do |-> "stop", role |-> r, node |-> Junk]
<1>1. ASSUME NEW r \in Role
      PROVE  Calls("stop", r, <<Junk>>) = <<C(r)>> /\ C(r) \in Call
  BY DEF Calls, Call
<1>2. _stop_all = <<C("osd")>> \o <<C("mrc")>> \o <<C("dir")>>
  BY <1>1 DEF Poisoned, _stop_all, Role
<1>3. C("osd") \in Call /\ C("mrc") \in Call /\ C("dir") \in Call
  BY <1>1 DEF Role
<1>4. C("osd").node = Junk
  OBVIOUS
<1> HIDE DEF C
<1>5. _stop_all \in Seq(Call) /\ _stop_all # <<>> /\ Head(_stop_all) = C("osd")
  BY <1>2, <1>3
<1> QED BY <1>4, <1>5

\* No worker of a poisoned service comes further than its first call.
LEMMA PoisonedStep ==
    ASSUME Poisoned, Next \/ UNCHANGED vars
    PROVE  Poisoned'
<1> USE XtreemFSAssumption
<1>1. state \in {"PROLOGUE", "EPILOGUE"} /\ nodes = {} /\ runs["osd"] = {}
      /\ (worker # None => /\ worker \in Worker /\ worker.op = "stop"
                           /\ worker.begun <=> worker.calls # <<>>)
  BY DEF Poisoned, Role
<1>2. ~Reaches
  BY DEF Poisoned, Reaches
<1>3. CASE stop_service
  <2>1. /\ state' = "EPILOGUE"
        /\ worker' = [op |-> "stop", want |-> Nothing, begun |-> FALSE, calls |-> <<>>,
                      gone |-> {}]
        /\ UNCHANGED <<lists, nodes, leaving, runs, holds, history>>
    BY <1>3 DEF stop_service, Start
  <2>2. Nothing \in [Role -> 0..MaxCount]
    BY DEF Nothing
  <2>3. worker' \in Worker
    BY <2>1, <2>2 DEF Worker
  <2>4. worker'.op = "stop" /\ ~worker'.begun /\ worker'.calls = <<>>
    BY <2>1
  <2> QED BY <2>1, <2>3, <2>4 DEF Poisoned, lists, history
<1>4. CASE StopAll
  <2>1. /\ worker # None /\ worker \in Worker /\ worker.op = "stop"
        /\ worker' = [worker EXCEPT !.begun = TRUE, !.calls = _stop_all]
        /\ UNCHANGED <<state, lists, nodes, leaving, runs, holds, history>>
    BY <1>1, <1>4 DEF StopAll, Begins
  <2>2. /\ worker' \in Worker /\ worker'.op = "stop" /\ worker'.begun
        /\ worker'.calls = _stop_all
    BY <2>1, JunkCalls DEF Worker
  <2> QED BY <2>1, <2>2, JunkCalls DEF Poisoned, lists, history
<1>5. CASE Fail
  <2>1. /\ worker' = None /\ failed' = TRUE
        /\ UNCHANGED <<state, lists, nodes, leaving, runs, holds, refused, undrained>>
    BY <1>5 DEF Fail
  <2> QED BY <2>1 DEF Poisoned, lists
<1>6. ASSUME NEW n \in Node, Killed(n) PROVE Poisoned'
  BY <1>6 DEF Poisoned, Killed, lists, history
<1>7. CASE UNCHANGED vars
  BY <1>7 DEF Poisoned, vars, lists, history
<1>8. ~start_service /\ ~get_service_snapshot
      /\ \A w \in Wants : ~add_nodes(w) /\ ~remove_nodes(w)
  BY <1>1 DEF start_service, get_service_snapshot, add_nodes, remove_nodes
<1>9. ~on_start /\ ~StartRefused /\ ~on_add_nodes /\ ~PopOSD /\ ~Serve /\ ~Refuse
  BY <1>1, <1>2 DEF on_start, StartRefused, on_add_nodes, Begins, PopOSD, Serve, Refuse
<1>10. ~Started /\ ~Removed /\ ~on_stop /\ ~SnapshotDies
  BY <1>1 DEF Started, Removed, on_stop, SnapshotDies, Finished
<1>11. \A n \in Node : ~DropNode(n) /\ ~Write(n)
  BY <1>1 DEF DropNode, Write
<1> QED BY <1>3, <1>4, <1>5, <1>6, <1>7, <1>8, <1>9, <1>10, <1>11 DEF Next, Handle, Work

-----------------------------------------------------------------------------
(* The specification. *)

\* A manager starts with nothing.
LEMMA InitOK == Init => InOrder
<1> SUFFICES ASSUME Init PROVE InOrder
  OBVIOUS
<1>1. <<>> \in Seq(Node) /\ IsInjective(<<>>) /\ ToSet(<<>>) = {}
  BY DEF IsInjective, ToSet
<1>2. \A r : Named(r) = {}
  BY <1>1 DEF Init, Named, ListOf
<1>3. Plain
  BY <1>1 DEF Init, Plain, State
<1>4. Rooted /\ NothingRefused /\ Placed /\ Kept
  BY <1>2 DEF Init, Rooted, NothingRefused, Placed, Kept, Role
<1>5. States
  BY DEF Init, States
<1>6. Resting
  BY <1>2 DEF Init, Resting, Level, Mine
<1>7. Starting /\ Adding /\ Removing /\ Stopping
  BY DEF Init, Starting, Adding, Removing, Stopping
<1> QED BY <1>3, <1>4, <1>5, <1>6, <1>7 DEF InOrder

\* Every step of the manager, of an agent or of a client keeps the invariant.
LEMMA NextOK == InOrder /\ [Next]_vars => IInv'
<1> SUFFICES ASSUME InOrder, [Next]_vars, ~StartRefused PROVE InOrder'
  BY StartRefusedStep DEF IInv
<1>1. CASE Handle
  BY <1>1, HandleStep
<1>2. CASE on_start
  BY <1>2, on_startStep
<1>3. CASE on_add_nodes
  BY <1>3, on_add_nodesStep
<1>4. CASE StopAll
  BY <1>4, StopAllStep
<1>5. CASE PopOSD
  BY <1>5, PopOSDStep
<1>6. CASE Serve
  BY <1>6, ServeStep
<1>7. CASE Refuse
  BY <1>7, RefuseStep
<1>8. CASE Fail
  BY <1>8, FailStep
<1>9. CASE Started
  BY <1>9, StartedStep
<1>10. CASE Removed
  BY <1>10, RemovedStep
<1>11. CASE on_stop
  BY <1>11, on_stopStep
<1>12. CASE SnapshotDies
  BY <1>12, SnapshotDiesStep
<1>13. ASSUME NEW n \in Node, DropNode(n) \/ Killed(n) \/ Write(n) PROVE InOrder'
  BY <1>13, OthersStep
<1>14. CASE UNCHANGED vars
  <2>1. Mine' = Mine
    BY <1>14 DEF vars, Mine
  <2> QED BY <1>14, <2>1, QuietStep DEF vars, InOrder, Plain
<1> QED
  BY <1>1, <1>2, <1>3, <1>4, <1>5, <1>6, <1>7, <1>8, <1>9, <1>10, <1>11, <1>12,
     <1>13, <1>14 DEF Next, Work

\* The invariant always holds.
LEMMA Invariance == Spec => []IInv
<1>1. Init => IInv
  BY InitOK DEF IInv
<1>2. IInv /\ [Next]_vars => IInv'
  BY NextOK, PoisonedStep DEF IInv
<1> QED BY <1>1, <1>2, PTL DEF Spec

\* Plain types are types, and so are those of a poisoned service.
LEMMA Types == IInv => TypeOK
<1>1. ASSUME NEW q \in Seq(Node) PROVE q \in Seq(Node \cup {Junk})
  OBVIOUS
<1>2. PlainWorker \subseteq Worker
  BY PlainWorkers
<1>3. ASSUME Plain PROVE TypeOK
  <2>1. runs \in [Role -> SUBSET nodes]
    BY <1>3 DEF Plain, Mine
  <2> QED BY <1>1, <1>2, <1>3, <2>1 DEF Plain, TypeOK
<1>4. ASSUME Poisoned PROVE TypeOK
  <2>1. <<Junk>> \in Seq(Node \cup {Junk}) /\ IsInjective(<<Junk>>)
    BY DEF IsInjective
  <2> QED BY <1>4, <2>1 DEF Poisoned, TypeOK, State
<1> QED BY <1>3, <1>4 DEF IInv, InOrder

\* The state of the manager, the daemons and the files are always of their types.
THEOREM TypeCorrect == Spec => []TypeOK
<1> QED BY Types, Invariance, PTL

\* No catalog and no OSD of the service runs without the directory, at any call of
\* a start, an addition, a removal or a stop, whichever call fails.
THEOREM RootedAlways == Spec => []Rooted
<1>1. IInv => Rooted
  BY DEF IInv, InOrder, Poisoned, Rooted, Role
<1> QED BY <1>1, Invariance, PTL

\* A service that shows S_RUNNING has on its lists exactly what runs.
THEOREM SettledAlways == Spec => []Settled
<1>1. IInv => Settled
  <2>1. SUFFICES ASSUME InOrder, state = "RUNNING" PROVE Settled
    BY DEF IInv, Poisoned, Settled
  <2>2. worker = None /\ ~failed
    BY <2>1 DEF InOrder, States
  <2>3. Level /\ Led
    BY <2>1, <2>2 DEF InOrder, Resting
  <2>4. /\ Named("dir") = ToSet(dirNodes) /\ Named("mrc") = ToSet(mrcNodes)
        /\ Named("osd") = ToSet(osdNodes)
    BY DEF Named, ListOf
  <2>5. /\ dirNodes[1] = osdNodes[1] /\ mrcNodes[1] = osdNodes[1] /\ osdNodes # <<>>
        /\ Named("dir") \subseteq Named("osd") /\ Named("mrc") \subseteq Named("osd")
        /\ Mine = Named("osd")
    BY <2>1, <2>3, FirstNode DEF InOrder, Led
  <2>6. /\ runs["dir"] = Named("dir") /\ runs["mrc"] = Named("mrc")
        /\ runs["osd"] = Named("osd")
    BY <2>3 DEF Level, Role
  <2> QED BY <2>4, <2>5, <2>6 DEF Settled, Mine
<1> QED BY <1>1, Invariance, PTL

\* While no drain fails, every file is on an OSD that runs, through every removal
\* of OSDs, whole or broken off.
THEOREM DataAlwaysKept == Spec => []DataKept
<1>1. IInv => DataKept
  BY DEF IInv, InOrder, Poisoned, Kept, DataKept
<1> QED BY <1>1, Invariance, PTL

\* No agent refuses a call unless an earlier worker has died.
THEOREM NeverRefused == Spec => []NothingRefused
<1>1. IInv => NothingRefused
  BY DEF IInv, InOrder, Poisoned, NothingRefused
<1> QED BY <1>1, Invariance, PTL
=============================================================================
