---------------------------- MODULE WebHostingProofs ----------------------------
(***************************************************************************)
(* Proofs about WebHosting, for every number of machines, versions and     *)
(* nodes asked for: types, AlwaysServed, RoutesAlive, Settled and          *)
(* NothingRefused.                                                         *)
(***************************************************************************)
EXTENDS WebHosting, FiniteSetTheorems, TLAPS

-----------------------------------------------------------------------------
(* The inductive invariant: what holds whatever fails. *)

\* The worker wk still has to make the call do of role r to node n.
PendIn(wk, do, r, n) ==
    /\ wk # None /\ wk.todo # None
    /\ \E i \in DOMAIN wk.todo :
         wk.todo[i].do = do /\ wk.todo[i].role = r /\ n \in wk.todo[i].on

Pend(do, r, n) == PendIn(worker, do, r, n)

StateOf(op) == CASE op = "start" -> "PROLOGUE"
                 [] op = "stop" -> "EPILOGUE"
                 [] OTHER -> "ADAPTING"

\* Unless the server thread's update was refused, the state tells which request
\* the worker serves; a removal was allowed.
WorkerFits ==
    /\ worker # None => state \in {StateOf(worker.op), "ERROR"}
    /\ Hook("remove") => Enough(worker.want)

\* The loops a and b of a program must be run in this order.
Before(op, a, b) ==
    \/ /\ a.do = "create" /\ a.role # "proxy"
       /\ b.do \in {"create", "update"} /\ b.role = "proxy"
    \/ /\ op # "stop" /\ b.do = "stop"
       /\ a.do = "create" \/ (a.do = "update" /\ a.role = "proxy")
    \/ /\ op = "stop" /\ a.do = "stop" /\ b.do = "stop"
       /\ a.role = "proxy" /\ b.role # "proxy"

\* No two loops make the same call, agents run daemons of known roles only, and
\* daemons are created before proxies are told and stopped after it.
Ordered(op, p) ==
    /\ \A i \in DOMAIN p :
         /\ p[i].do \in {"create", "update", "stop"} <=> p[i].role # None
         /\ op = "stop" => p[i].do = "stop"
    /\ \A i, j \in DOMAIN p :
         /\ p[i].do = p[j].do /\ p[i].role = p[j].role => i = j
         /\ Before(op, p[i], p[j]) => i < j

\* Calls go to nodes of the service.
ProgramOK ==
    HasProgram =>
      /\ Ordered(worker.op, worker.todo)
      /\ \A i \in DOMAIN worker.todo : worker.todo[i].on \subseteq nodes

\* Other machines have no roles and no daemons.
Outside == \A n \in Node \ nodes : roles[n] = {} /\ daemons[n] = {}

\* A service that does not run has no nodes.
NoNodes == state \in {"INIT", "STOPPED"} \/ Hook("start") => nodes = {}

\* Unless cdn_enable interferes, the server thread's update and a worker
\* exclude each other, and the update sends the lists of the moment.
RequestOK ==
    request # None /\ ~raced =>
      worker = None /\ request.route = TuplesNow /\ request.on \subseteq With("proxy")

Always == TypeOK /\ WorkerFits /\ ProgramOK /\ Outside /\ NoNodes /\ RequestOK

-----------------------------------------------------------------------------
(* The inductive invariant: what holds while nothing has failed. *)

AtRest == worker = None => state \in {"INIT", "STOPPED", "RUNNING", "ERROR"}

\* Every role is taken, and a node that shares a role with the proxy's is the
\* only node of that role.
Provisioned ==
    /\ \A r \in Role : With(r) # {}
    /\ \A r \in {"web", "backend"} : \A a \in With(r) \cap With("proxy") :
         With(r) = {a}

Stopping == HasProgram /\ worker.op = "stop"

Shape ==
    /\ nodes = {} => /\ state \in {"INIT", "STOPPED", "PROLOGUE", "EPILOGUE", "ERROR"}
                     /\ worker # None => worker.op = "stop" \/ Hook("start")
    /\ nodes # {} => Provisioned

Counted ==
    /\ count["proxy"] = Cardinality(With("proxy"))
    /\ \A r \in {"web", "backend"} : count[r] = Cardinality(With(r) \ With("proxy"))

\* The counts are made anew when an addition or a removal is done.
CountsOK ==
    nodes # {} /\ ~(HasProgram /\ worker.op \in {"add", "remove"}) => Counted

\* A node runs the daemons of its roles, but for those that are still to be
\* created, and those that are still to be stopped.
DaemonsOK ==
    ~Stopping =>
      \A n \in nodes, r \in Role :
        /\ r \in daemons[n] <=> \/ r \in roles[n] /\ ~Pend("create", r, n)
                                \/ Pend("stop", r, n)
        /\ Pend("create", r, n) => r \in roles[n]
        /\ Pend("stop", r, n) => r \notin roles[n]
        /\ Pend("update", r, n) => r \in roles[n] /\ ~Pend("create", r, n)

\* While the service stops, what runs is still to be stopped, and as long as a
\* proxy runs everything behind it runs.
StoppingOK ==
    Stopping =>
      /\ \A n \in nodes, r \in Role :
           /\ r \in daemons[n] <=> Pend("stop", r, n)
           /\ Pend("stop", r, n) => r \in roles[n]
      /\ (\E n \in nodes : Pend("stop", "proxy", n)) =>
           \A n \in nodes, r \in {"web", "backend"} :
             r \in roles[n] => Pend("stop", r, n)

CodeOK ==
    ~Stopping => \A n \in nodes : code[n] = current \/ Pend("code", None, n)

Alive(route) ==
    /\ route.web # {}
    /\ route.web \subseteq Serving("web")
    /\ route.backend \subseteq Serving("backend")

\* A proxy that stays knows the nodes of the moment, and all of them run or ran
\* until the service began to stop, or it will be told and knows others that run.
RoutesOK ==
    ~raced =>
      \A n \in Serving("proxy") \cap With("proxy") :
        \/ /\ routes[n] = TuplesNow
           /\ \A r \in {"web", "backend"}, m \in nodes : ~Pend("create", r, m)
        \/ Pend("update", "proxy", n) /\ Alive(routes[n])

Healthy ==
    Sound => /\ AtRest /\ Shape /\ CountsOK /\ DaemonsOK /\ StoppingOK /\ CodeOK
             /\ RoutesOK /\ AlwaysServed

IInv == Always /\ Healthy

-----------------------------------------------------------------------------
(* Sequences and programs. *)

\* Pasted sequences keep the kind of their elements, and the places of each.
LEMMA ConcatFacts ==
    ASSUME NEW S, NEW s \in Seq(S), NEW t \in Seq(S)
    PROVE  /\ s \o t \in Seq(S)
           /\ Len(s \o t) = Len(s) + Len(t)
           /\ \A i \in 1..Len(s) : (s \o t)[i] = s[i]
           /\ \A i \in 1..Len(t) : (s \o t)[Len(s) + i] = t[i]
    OBVIOUS

\* k times the same element.
LEMMA RepeatFacts ==
    ASSUME NEW S, NEW e \in S, NEW k \in Nat
    PROVE  /\ [i \in 1..k |-> e] \in Seq(S)
           /\ Len([i \in 1..k |-> e]) = k
           /\ \A i \in 1..k : [j \in 1..k |-> e][i] = e
    OBVIOUS

\* A loop over nodes is a loop.
LEMMA DoFacts ==
    ASSUME NEW do \in {"scalaris", "create", "update", "stop", "code"},
           NEW r \in Role \cup {None}, NEW on \in SUBSET Node
    PROVE  /\ Do(do, r, on) \in Call
           /\ Do(do, r, on).do = do /\ Do(do, r, on).role = r /\ Do(do, r, on).on = on
    BY DEF Do, Call

\* A worker that takes up a program stays a worker.
LEMMA WorkerWithProgram ==
    ASSUME NEW w \in Worker, NEW p \in Seq(Call)
    PROVE  LET v == [w EXCEPT !.todo = p] IN
           /\ v \in Worker /\ v # None
           /\ v.op = w.op /\ v.todo = p /\ v.todo # None
    BY NoneAssumption DEF Worker

\* A worker that has made one call.
LEMMA WorkerWithCall ==
    ASSUME NEW w \in Worker, w.todo # None, NEW i \in DOMAIN w.todo, NEW n
    PROVE  LET v == [w EXCEPT !.todo[i].on = @ \ {n}] IN
           /\ v \in Worker /\ v # None
           /\ v.op = w.op /\ v.todo # None
           /\ DOMAIN v.todo = DOMAIN w.todo
           /\ \A j \in DOMAIN w.todo :
                /\ w.todo[j] \in Call
                /\ v.todo[j].do = w.todo[j].do /\ v.todo[j].role = w.todo[j].role
                /\ v.todo[j].on = IF j = i THEN w.todo[j].on \ {n} ELSE w.todo[j].on
<1> DEFINE v == [w EXCEPT !.todo[i].on = @ \ {n}]
           t == [w.todo EXCEPT ![i].on = @ \ {n}]
<1>1. w.todo \in Seq(Call)
  BY DEF Worker
<1>2. /\ t \in Seq(Call) /\ DOMAIN t = DOMAIN w.todo
      /\ \A j \in DOMAIN w.todo :
           /\ w.todo[j] \in Call
           /\ t[j].do = w.todo[j].do /\ t[j].role = w.todo[j].role
           /\ t[j].on = IF j = i THEN w.todo[j].on \ {n} ELSE w.todo[j].on
  <2>1. \A j \in DOMAIN w.todo : w.todo[j] \in Call
    BY <1>1
  <2>2. [w.todo[i] EXCEPT !.on = @ \ {n}] \in Call
    BY <2>1 DEF Call
  <2>3. t \in Seq(Call) /\ DOMAIN t = DOMAIN w.todo
    BY <1>1, <2>2
  <2> QED BY <1>1, <2>1, <2>3 DEF Call
<1>3. v = [w EXCEPT !.todo = t]
  BY DEF Worker
<1> HIDE DEF v, t
<1>4. v \in Worker /\ v # None /\ v.op = w.op /\ v.todo = t /\ v.todo # None
  BY <1>2, <1>3, WorkerWithProgram
<1> QED BY <1>2, <1>4 DEF v

\* The loop the worker is in, and what it has to do.
LEMMA TurnFacts ==
    ASSUME TypeOK, HasProgram
    PROVE  /\ worker \in Worker /\ worker.todo \in Seq(Call)
           /\ \A i \in DOMAIN worker.todo : worker.todo[i] \in Call
    BY DEF TypeOK, HasProgram, Worker

\* The roles are three.
LEMMA RoleFacts ==
    /\ "proxy" \in Role /\ "web" \in Role /\ "backend" \in Role
    /\ \A r \in Role : r # None
    BY NoneAssumption DEF Role

\* Sets of nodes are finite.
LEMMA WithFacts ==
    ASSUME TypeOK
    PROVE  \A r : /\ With(r) \subseteq nodes /\ nodes \subseteq Node
                  /\ IsFiniteSet(With(r)) /\ Cardinality(With(r)) \in Nat
                  /\ \A S \in SUBSET With(r) : IsFiniteSet(S) /\ Cardinality(S) \in Nat
<1> TAKE r
<1>1. With(r) \subseteq nodes /\ nodes \subseteq Node
  BY DEF With, Having, TypeOK
<1>2. \A S \in SUBSET Node : IsFiniteSet(S) /\ Cardinality(S) \in Nat
  BY WebAssumption, FS_Subset, FS_CardinalityType
<1> QED BY <1>1, <1>2

-----------------------------------------------------------------------------
(* The operators the hooks are made of. *)

Wanted == [Role -> Nat]

\* A start's counts are counts, and those of a start that packs nothing are not 0.
LEMMA StartingCountsFacts ==
    ASSUME NEW c \in Wanted
    PROVE  /\ StartingCounts(c) \in Wanted
           /\ ~(c["proxy"] = 1 /\ (c["web"] = 0 \/ c["backend"] = 0)) =>
                \A r \in Role : StartingCounts(c)[r] > 0
           /\ (c["proxy"] = 1 /\ (c["web"] = 0 \/ c["backend"] = 0)) =>
                StartingCounts(c) = c
    BY DEF Wanted, StartingCounts, Role

\* Three stretches of nodes with one role each.
Stretches(c) == [i \in 1..c["proxy"] |-> {"proxy"}]
                  \o [i \in 1..c["web"] |-> {"web"}]
                  \o [i \in 1..c["backend"] |-> {"backend"}]

\* What Stretches is: the places of the proxies, then of the web and the backend nodes.
LEMMA StretchesFacts ==
    ASSUME NEW c \in Wanted
    PROVE  LET q == Stretches(c)
               p == c["proxy"]
               w == c["web"]
               b == c["backend"] IN
           /\ q \in Seq(SUBSET Role) /\ Len(q) = p + w + b
           /\ \A i \in 1..p : q[i] = {"proxy"}
           /\ \A i \in (p + 1)..(p + w) : q[i] = {"web"}
           /\ \A i \in (p + w + 1)..(p + w + b) : q[i] = {"backend"}
<1> DEFINE p == c["proxy"]  w == c["web"]  b == c["backend"]
           P == [i \in 1..p |-> {"proxy"}]
           W == [i \in 1..w |-> {"web"}]
           B == [i \in 1..b |-> {"backend"}]
<1>1. p \in Nat /\ w \in Nat /\ b \in Nat
  BY DEF Wanted, Role
<1>2. {"proxy"} \in SUBSET Role /\ {"web"} \in SUBSET Role /\ {"backend"} \in SUBSET Role
  BY DEF Role
<1> HIDE DEF p, w, b
<1>3. /\ P \in Seq(SUBSET Role) /\ Len(P) = p /\ \A i \in 1..p : P[i] = {"proxy"}
      /\ W \in Seq(SUBSET Role) /\ Len(W) = w /\ \A i \in 1..w : W[i] = {"web"}
      /\ B \in Seq(SUBSET Role) /\ Len(B) = b /\ \A i \in 1..b : B[i] = {"backend"}
  BY <1>1, <1>2, RepeatFacts, SMTT(30)
<1> HIDE DEF P, W, B
<1>4. /\ P \o W \in Seq(SUBSET Role) /\ Len(P \o W) = Len(P) + Len(W)
      /\ \A i \in 1..Len(P) : (P \o W)[i] = P[i]
      /\ \A i \in 1..Len(W) : (P \o W)[Len(P) + i] = W[i]
  <2>1. P \in Seq(SUBSET Role) /\ W \in Seq(SUBSET Role)
    BY <1>3
  <2> QED BY <2>1, ConcatFacts
<1>5. /\ P \o W \in Seq(SUBSET Role) /\ Len(P \o W) = p + w
      /\ \A i \in 1..p : (P \o W)[i] = P[i]
      /\ \A i \in 1..w : (P \o W)[p + i] = W[i]
  BY <1>3, <1>4
<1> DEFINE PW == P \o W
<1> HIDE DEF PW
<1>6. PW \in Seq(SUBSET Role) /\ Len(PW) = p + w
  BY <1>5 DEF PW
<1>7. /\ PW \o B \in Seq(SUBSET Role) /\ Len(PW \o B) = Len(PW) + Len(B)
      /\ \A i \in 1..Len(PW) : (PW \o B)[i] = PW[i]
      /\ \A i \in 1..Len(B) : (PW \o B)[Len(PW) + i] = B[i]
  <2>1. PW \in Seq(SUBSET Role) /\ B \in Seq(SUBSET Role)
    BY <1>3, <1>6
  <2> QED BY <2>1, ConcatFacts
<1>8. /\ PW \o B \in Seq(SUBSET Role) /\ Len(PW \o B) = p + w + b
      /\ \A i \in 1..(p + w) : (PW \o B)[i] = PW[i]
      /\ \A i \in 1..b : (PW \o B)[p + w + i] = B[i]
  BY <1>3, <1>6, <1>1, <1>7
<1>9. \A i \in 1..p : (PW \o B)[i] = {"proxy"}
  BY <1>1, <1>3, <1>5, <1>8 DEF PW
<1>10. ASSUME NEW i \in (p + 1)..(p + w) PROVE (PW \o B)[i] = {"web"}
  <2>1. i - p \in 1..w /\ i = p + (i - p) /\ i \in 1..(p + w)
    BY <1>1
  <2>2. (PW \o B)[i] = PW[i] /\ PW[p + (i - p)] = W[i - p] /\ W[i - p] = {"web"}
    BY <2>1, <1>3, <1>5, <1>8 DEF PW
  <2> QED BY <2>1, <2>2
<1>11. ASSUME NEW i \in (p + w + 1)..(p + w + b) PROVE (PW \o B)[i] = {"backend"}
  <2>1. i - (p + w) \in 1..b /\ i = p + w + (i - (p + w))
    BY <1>1
  <2> QED BY <2>1, <1>3, <1>8
<1>12. PW \o B = Stretches(c)
  BY DEF PW, P, W, B, p, w, b, Stretches
<1> QED BY <1>8, <1>9, <1>10, <1>11, <1>12 DEF p, w, b

Repeated(k, e) == [i \in 1..k |-> e]

\* One node with roles rs and then k nodes with role r.
Packed(rs, r, k) == <<rs>> \o Repeated(k, {r})

\* What Packed is: one node with several roles, then k nodes of one role.
LEMMA PackedFacts ==
    ASSUME NEW rs \in SUBSET Role, NEW r \in Role, NEW k \in Nat
    PROVE  /\ Packed(rs, r, k) \in Seq(SUBSET Role)
           /\ Len(Packed(rs, r, k)) = 1 + k
           /\ Packed(rs, r, k)[1] = rs
           /\ \A i \in 2..(1 + k) : Packed(rs, r, k)[i] = {r}
<1> DEFINE R == Repeated(k, {r})
<1>1. R \in Seq(SUBSET Role) /\ Len(R) = k /\ \A i \in 1..k : R[i] = {r}
  BY DEF Repeated
<1>2. <<rs>> \in Seq(SUBSET Role) /\ Len(<<rs>>) = 1 /\ <<rs>>[1] = rs
  OBVIOUS
<1> HIDE DEF R
<1>3. /\ <<rs>> \o R \in Seq(SUBSET Role) /\ Len(<<rs>> \o R) = 1 + k
      /\ (<<rs>> \o R)[1] = rs
      /\ \A i \in 1..k : (<<rs>> \o R)[1 + i] = R[i]
  BY <1>1, <1>2, ConcatFacts
<1>4. ASSUME NEW i \in 2..(1 + k) PROVE (<<rs>> \o R)[i] = {r}
  <2>1. i - 1 \in 1..k /\ i = 1 + (i - 1)
    OBVIOUS
  <2> QED BY <2>1, <1>1, <1>3
<1> QED BY <1>3, <1>4 DEF R, Packed

\* What get_starting_nodes makes, case by case.
LEMMA StartingNodesFacts ==
    ASSUME NEW c \in Wanted
    PROVE  /\ StartingNodes(c) \in Seq(SUBSET Role)
           /\ (c["proxy"] = 1 /\ c["web"] = 0 /\ c["backend"] = 0) =>
                StartingNodes(c) = <<Role>>
           /\ (c["proxy"] = 1 /\ c["web"] = 0 /\ c["backend"] > 0) =>
                StartingNodes(c) = Packed({"proxy", "web"}, "backend", c["backend"])
           /\ (c["proxy"] = 1 /\ c["web"] > 0 /\ c["backend"] = 0) =>
                StartingNodes(c) = Packed({"proxy", "web"}, "web", c["web"])
           /\ ~(c["proxy"] = 1 /\ (c["web"] = 0 \/ c["backend"] = 0)) =>
                StartingNodes(c) = Stretches(c)
<1>1. c["proxy"] \in Nat /\ c["web"] \in Nat /\ c["backend"] \in Nat
  BY DEF Wanted, Role
<1>2. {"proxy", "web"} \in SUBSET Role /\ Role \in SUBSET Role
      /\ "web" \in Role /\ "backend" \in Role
  BY DEF Role
<1>3. <<Role>> \in Seq(SUBSET Role)
  BY <1>2
<1>4. CASE c["proxy"] = 1 /\ c["web"] = 0 /\ c["backend"] = 0
  <2>1. StartingNodes(c) = <<Role>>
    BY <1>4, <1>1 DEF StartingNodes
  <2> QED BY <2>1, <1>3, <1>4
<1>5. CASE c["proxy"] = 1 /\ c["web"] = 0 /\ c["backend"] > 0
  <2>1. StartingNodes(c) = Packed({"proxy", "web"}, "backend", c["backend"])
    BY <1>5, <1>1 DEF StartingNodes, Packed, Repeated
  <2>2. /\ {"proxy", "web"} \in SUBSET Role /\ "backend" \in Role
        /\ c["backend"] \in Nat
    BY <1>1, <1>2
  <2>3. Packed({"proxy", "web"}, "backend", c["backend"]) \in Seq(SUBSET Role)
    BY <2>2, PackedFacts
  <2>4. StartingNodes(c) \in Seq(SUBSET Role)
    BY <2>1, <2>3
  <2> QED BY <2>1, <2>4, <1>5
<1>6. CASE c["proxy"] = 1 /\ c["web"] > 0 /\ c["backend"] = 0
  <2>1. StartingNodes(c) = Packed({"proxy", "web"}, "web", c["web"])
    BY <1>6, <1>1 DEF StartingNodes, Packed, Repeated
  <2>2. /\ {"proxy", "web"} \in SUBSET Role /\ "web" \in Role
        /\ c["web"] \in Nat
    BY <1>1, <1>2
  <2>3. Packed({"proxy", "web"}, "web", c["web"]) \in Seq(SUBSET Role)
    BY <2>2, PackedFacts
  <2>4. StartingNodes(c) \in Seq(SUBSET Role)
    BY <2>1, <2>3
  <2> QED BY <2>1, <2>4, <1>6
<1>7. CASE ~(c["proxy"] = 1 /\ (c["web"] = 0 \/ c["backend"] = 0))
  <2>1. StartingNodes(c) = Stretches(c)
    BY <1>7, <1>1 DEF StartingNodes, Stretches
  <2>2. StartingNodes(c) \in Seq(SUBSET Role)
    BY <2>1, StretchesFacts
  <2> QED BY <2>1, <2>2, <1>7
<1> QED BY <1>1, <1>4, <1>5, <1>6, <1>7

\* An addition asks for nodes with one role each.
LEMMA AddedNodesFacts ==
    ASSUME NEW c \in Wanted
    PROVE  /\ AddedNodes(c) \in Seq(SUBSET Role)
           /\ \A i \in 1..Len(AddedNodes(c)) : \E r \in Role : AddedNodes(c)[i] = {r}
<1>1. c["proxy"] \in Nat /\ c["web"] \in Nat /\ c["backend"] \in Nat
  BY DEF Wanted, Role
<1>2. AddedNodes(c) = Stretches(c)
  BY DEF AddedNodes, Stretches
<1> DEFINE q == AddedNodes(c)
<1>3. /\ q \in Seq(SUBSET Role) /\ Len(q) = c["proxy"] + c["web"] + c["backend"]
      /\ \A i \in 1..c["proxy"] : q[i] = {"proxy"}
      /\ \A i \in (c["proxy"] + 1)..(c["proxy"] + c["web"]) : q[i] = {"web"}
      /\ \A i \in (c["proxy"] + c["web"] + 1)..(c["proxy"] + c["web"] + c["backend"]) :
           q[i] = {"backend"}
  BY <1>2, StretchesFacts
<1> HIDE DEF q
<1>4. ASSUME NEW i \in 1..Len(q) PROVE \E r \in Role : q[i] = {r}
  <2>1. \/ i \in 1..c["proxy"]
        \/ i \in (c["proxy"] + 1)..(c["proxy"] + c["web"])
        \/ i \in (c["proxy"] + c["web"] + 1)..(c["proxy"] + c["web"] + c["backend"])
    BY <1>1, <1>3
  <2> QED BY <2>1, <1>3, RoleFacts
<1> QED BY <1>3, <1>4 DEF q

\* Where the entries that came are placed, and which roles nodes have then.
LEMMA PlacedFacts ==
    ASSUME TypeOK, NEW q \in Seq(SUBSET Role),
           NEW came \in SUBSET (1..Len(q)), NEW f \in Placed(q, came)
    PROVE  /\ f \in [came -> Node \ up]
           /\ \A i, j \in came : f[i] = f[j] => i = j
           /\ {f[i] : i \in came} \subseteq Node \ up
           /\ RolesPlaced(q, f) \in [Node -> SUBSET Role]
           /\ \A i \in came : RolesPlaced(q, f)[f[i]] = q[i]
           /\ \A n \in Node \ {f[i] : i \in came} : RolesPlaced(q, f)[n] = roles[n]
<1>1. f \in [came -> Node \ up] /\ \A i, j \in came : f[i] = f[j] => i = j
  BY DEF Placed
<1>2. \A i \in came : q[i] \in SUBSET Role
  OBVIOUS
<1>3. ASSUME NEW i \in came PROVE RolesPlaced(q, f)[f[i]] = q[i]
  <2>1. f[i] \in Node /\ DOMAIN f = came
    BY <1>1
  <2>2. (CHOOSE j \in came : f[j] = f[i]) = i
    BY <1>1
  <2> QED BY <2>1, <2>2 DEF RolesPlaced
<1>4. ASSUME NEW n \in Node \ {f[i] : i \in came} PROVE RolesPlaced(q, f)[n] = roles[n]
  BY <1>1 DEF RolesPlaced
<1>5. RolesPlaced(q, f) \in [Node -> SUBSET Role]
  <2>1. ASSUME NEW n \in Node PROVE RolesPlaced(q, f)[n] \in SUBSET Role
    BY <1>2, <1>3, <1>4 DEF TypeOK
  <2> QED BY <2>1 DEF RolesPlaced
<1> QED BY <1>1, <1>3, <1>4, <1>5

\* The counts made anew are counts.
LEMMA RecountFacts ==
    ASSUME NEW ns \in SUBSET Node, NEW rs
    PROVE  Recount(ns, rs) \in Wanted
<1>1. \A r \in Role : Cardinality(Having(r, ns, rs)) \in Nat
  <2> TAKE r \in Role
  <2>1. Having(r, ns, rs) \in SUBSET Node
    BY DEF Having
  <2> QED BY <2>1, WebAssumption, FS_Subset, FS_CardinalityType
<1> QED BY <1>1 DEF Recount, Wanted

-----------------------------------------------------------------------------
(* Types. *)

\* A new service has the types.
LEMMA TypeInit == Init => TypeOK
<1> SUFFICES ASSUME Init PROVE TypeOK
  OBVIOUS
<1>1. NoRoute \in Route /\ "INIT" \in State
  BY DEF NoRoute, Route, State
<1>2. count \in [Role -> Nat]
  BY DEF Init
<1> QED BY <1>1, <1>2 DEF Init, TypeOK

\* Only the worker and the state change when a request starts a worker.
LEMMA StartFacts ==
    ASSUME TypeOK,
           NEW op \in {"start", "add", "remove", "stop", "configure"}, NEW st \in State,
           NEW want \in Wanted, NEW v \in Version \cup {None}, NEW php \in BOOLEAN,
           Start(op, st, want, v, php)
    PROVE  /\ worker' \in Worker /\ worker' # None /\ worker'.todo = None
           /\ worker'.op = op /\ worker'.want = want /\ state' = st
           /\ worker'.version = v
           /\ request = None /\ worker = None /\ (failed => op = "stop")
           /\ UNCHANGED <<config, agent, request, history>>
    BY NoneAssumption DEF Start, Worker, Wanted

\* A hook leaves the worker with its program.
LEMMA ProgramFacts ==
    ASSUME TypeOK, worker # None, NEW p \in Seq(Call), Program(p)
    PROVE  /\ worker' \in Worker /\ worker' # None
           /\ worker'.op = worker.op /\ worker'.todo = p /\ worker'.todo # None
<1>1. worker \in Worker
  BY DEF TypeOK
<1> QED BY <1>1, WorkerWithProgram DEF Program

\* What every program is made of.
LEMMA ProgramTypes ==
    ASSUME NEW a \in SUBSET Node, NEW b \in SUBSET Node, NEW c \in SUBSET Node,
           NEW d \in SUBSET Node, NEW e \in SUBSET Node, NEW g \in SUBSET Node,
           NEW h \in SUBSET Node, NEW k \in SUBSET Node
    PROVE  /\ <<Do("scalaris", None, a), Do("create", "backend", b), Do("code", None, c),
                Do("create", "web", d), Do("create", "proxy", e)>> \in Seq(Call)
           /\ <<Do("scalaris", None, a), Do("create", "backend", b), Do("code", None, c),
                Do("create", "web", d), Do("create", "proxy", e),
                Do("update", "proxy", g), Do("stop", "backend", h),
                Do("stop", "web", k)>> \in Seq(Call)
           /\ <<Do("create", "backend", a), Do("code", None, b), Do("create", "web", c),
                Do("update", "proxy", d), Do("stop", "backend", e),
                Do("stop", "web", g), Do("stop", "proxy", h)>> \in Seq(Call)
           /\ <<Do("stop", "proxy", a), Do("stop", "web", b),
                Do("stop", "backend", c)>> \in Seq(Call)
           /\ <<Do("update", "backend", a), Do("code", None, b), Do("update", "web", c),
                Do("update", "proxy", d)>> \in Seq(Call)
<1>1. \A do \in {"scalaris", "create", "update", "stop", "code"},
         r \in Role \cup {None}, on \in SUBSET Node : Do(do, r, on) \in Call
  BY DoFacts
<1>2. {"proxy", "web", "backend", None} \subseteq Role \cup {None}
  BY DEF Role
<1>3. \A ns \in SUBSET Node :
        /\ Do("scalaris", None, ns) \in Call /\ Do("code", None, ns) \in Call
        /\ Do("create", "backend", ns) \in Call /\ Do("create", "web", ns) \in Call
        /\ Do("create", "proxy", ns) \in Call /\ Do("update", "proxy", ns) \in Call
        /\ Do("update", "web", ns) \in Call /\ Do("update", "backend", ns) \in Call
        /\ Do("stop", "proxy", ns) \in Call /\ Do("stop", "web", ns) \in Call
        /\ Do("stop", "backend", ns) \in Call
  BY <1>1, <1>2
<1>4. \A c1, c2, c3, c4, c5, c6, c7, c8 \in Call :
        /\ <<c1, c2, c3>> \in Seq(Call) /\ <<c1, c2, c3, c4>> \in Seq(Call)
        /\ <<c1, c2, c3, c4, c5>> \in Seq(Call)
        /\ <<c1, c2, c3, c4, c5, c6, c7>> \in Seq(Call)
        /\ <<c1, c2, c3, c4, c5, c6, c7, c8>> \in Seq(Call)
  OBVIOUS
<1> QED BY <1>3, <1>4

\* The handlers of requests keep the types.
LEMMA TypeHandle == TypeOK /\ Handle => TypeOK'
<1> SUFFICES ASSUME TypeOK, Handle PROVE TypeOK'
  OBVIOUS
<1> DEFINE Ops == {"start", "add", "remove", "stop", "configure"}
<1>1. ASSUME NEW op \in Ops, NEW st \in State, NEW want \in Wanted,
             NEW v \in Version \cup {None}, NEW php \in BOOLEAN,
             Start(op, st, want, v, php)
      PROVE  TypeOK'
  <2>1. worker' \in Worker /\ state' = st /\ UNCHANGED <<config, agent, request, history>>
    BY <1>1, StartFacts
  <2> QED BY <2>1 DEF TypeOK, config, agent, history
<1>2. {"PROLOGUE", "EPILOGUE", "ADAPTING"} \subseteq State /\ Nothing \in Wanted
      /\ Wants \subseteq Wanted /\ None \in Version \cup {None}
  BY WebAssumption DEF State, Nothing, Wanted, Wants
<1>3. CASE start_service \/ stop_service
  BY <1>1, <1>2, <1>3 DEF start_service, stop_service
<1>4. CASE \E w \in Wants : add_nodes(w) \/ remove_nodes(w)
  BY <1>1, <1>2, <1>4 DEF add_nodes, remove_nodes
<1>5. CASE \E v \in Version \cup {None}, php \in BOOLEAN : update_php_configuration(v, php)
  <2> PICK v \in Version \cup {None}, php \in BOOLEAN : update_php_configuration(v, php)
    BY <1>5
  <2>1. CASE Start("configure", "ADAPTING", Nothing, v, php)
    BY <2>1, <1>1, <1>2
  <2>2. CASE /\ current' = IF v = None THEN current ELSE v
             /\ UNCHANGED <<state, count, roles, nodes, up, cdn, agent, worker,
                            request, history>>
    BY <2>2 DEF TypeOK, agent, history
  <2> QED BY <2>1, <2>2 DEF update_php_configuration
<1>6. ASSUME NEW c \in BOOLEAN, UpdateProxies(c), raced' \in BOOLEAN PROVE TypeOK'
  <2>1. [route |-> TuplesNow, cdn |-> c, on |-> With("proxy")]
          \in [route : Route, cdn : BOOLEAN, on : SUBSET Node]
    BY WithFacts DEF TuplesNow, Route
  <2> QED BY <1>6, <2>1 DEF UpdateProxies, TypeOK, agent
<1>7. CASE update_nodes_weight
  BY <1>6, <1>7 DEF update_nodes_weight, TypeOK
<1>8. CASE \E a \in BOOLEAN : cdn_enable(a)
  BY <1>6, <1>8 DEF cdn_enable, TypeOK
<1>9. CASE ServerCall
  <2>1. state' \in State
    BY <1>9 DEF ServerCall, CallError, State, TypeOK
  <2>2. CASE request' = None /\ UNCHANGED routes
    BY <1>9, <2>1, <2>2 DEF ServerCall, TypeOK, config, history
  <2>3. CASE \E n \in request.on :
               /\ routes' = [routes EXCEPT ![n] = request.route]
               /\ request' = [request EXCEPT !.on = @ \ {n}]
    <3>1. request \in [route : Route, cdn : BOOLEAN, on : SUBSET Node]
      BY <1>9 DEF ServerCall, TypeOK
    <3> QED BY <1>9, <2>1, <2>3, <3>1 DEF ServerCall, TypeOK, config, history
  <2> QED BY <1>9, <2>2, <2>3 DEF ServerCall
<1> QED BY <1>3, <1>4, <1>5, <1>7, <1>8, <1>9 DEF Handle

\* What on_start does: the nodes of f get the roles of q.
LEMMA StartHookFacts ==
    ASSUME TypeOK, on_start
    PROVE  LET c == StartingCounts(count)
               q == StartingNodes(c) IN
           /\ c \in Wanted /\ count' = c
           /\ q \in Seq(SUBSET Role)
           /\ \E came \in (SUBSET (1..Len(q))) \ {{}} : \E f \in Placed(q, came) :
                /\ roles' = RolesPlaced(q, f)
                /\ nodes' = {f[i] : i \in came} /\ nodes' \subseteq Node \ up
                /\ nodes' # {}
                /\ up' = up \cup nodes'
                /\ failed' = (failed \/ came # 1..Len(q))
           /\ roles' \in [Node -> SUBSET Role] /\ nodes' \subseteq Node /\ up' \subseteq Node
           /\ failed' \in BOOLEAN
           /\ misplaced' = (misplaced \/ \A i \in 1..Len(q) : "backend" \notin q[i])
           /\ worker' \in Worker /\ worker' # None /\ worker'.op = "start"
           /\ worker'.todo = <<Do("scalaris", None, nodes'),
                               Do("create", "backend", Having("backend", nodes', roles')),
                               Do("code", None, nodes'),
                               Do("create", "web", Having("web", nodes', roles')),
                               Do("create", "proxy", Having("proxy", nodes', roles'))>>
           /\ worker'.todo # None
           /\ UNCHANGED <<state, current, cdn, agent, request, raced>>
<1> DEFINE c == StartingCounts(count)
           q == StartingNodes(c)
<1>1. c \in Wanted
  BY StartingCountsFacts DEF TypeOK, Wanted
<1> HIDE DEF c
<1>2. q \in Seq(SUBSET Role)
  BY <1>1, StartingNodesFacts
<1> HIDE DEF q
<1>3. PICK came \in (SUBSET (1..Len(q))) \ {{}} : \E f \in Placed(q, came) :
         /\ roles' = RolesPlaced(q, f)
         /\ nodes' = {f[i] : i \in came}
         /\ up' = up \cup nodes'
         /\ failed' = (failed \/ came # 1..Len(q))
  BY DEF on_start, q, c
<1>4. PICK f \in Placed(q, came) :
         /\ roles' = RolesPlaced(q, f)
         /\ nodes' = {f[i] : i \in came}
         /\ up' = up \cup nodes'
         /\ failed' = (failed \/ came # 1..Len(q))
  BY <1>3
<1>5. nodes' \subseteq Node \ up /\ roles' \in [Node -> SUBSET Role]
  BY <1>2, <1>4, PlacedFacts
<1>6. nodes' # {}
  <2>1. came \in (SUBSET (1..Len(q))) \ {{}}
    BY <1>3
  <2>2. PICK i : i \in came
    BY <2>1
  <2>3. f[i] \in nodes'
    BY <1>4, <2>2
  <2> QED BY <2>3
<1>7. up' \subseteq Node /\ nodes' \subseteq Node /\ failed' \in BOOLEAN
  BY <1>4, <1>5 DEF TypeOK
<1> DEFINE B == Having("backend", nodes', roles')
           W == Having("web", nodes', roles')
           P == Having("proxy", nodes', roles')
           prog == <<Do("scalaris", None, nodes'), Do("create", "backend", B),
                     Do("code", None, nodes'), Do("create", "web", W),
                     Do("create", "proxy", P)>>
<1>8. B \in SUBSET Node /\ W \in SUBSET Node /\ P \in SUBSET Node
  BY <1>7 DEF Having
<1>9. Program(prog) /\ worker # None /\ worker.op = "start"
  BY DEF on_start, Hook
<1> HIDE DEF B, W, P
<1>10. prog \in Seq(Call)
  BY <1>7, <1>8, ProgramTypes
<1> HIDE DEF prog
<1>11. /\ worker' \in Worker /\ worker' # None
       /\ worker'.op = worker.op /\ worker'.todo = prog /\ worker'.todo # None
  BY <1>9, <1>10, ProgramFacts
<1>12. count' = c /\ misplaced' = (misplaced \/ \A i \in 1..Len(q) : "backend" \notin q[i])
       /\ UNCHANGED <<state, current, cdn, agent, request, raced>>
  BY DEF on_start, q, c
<1>13. \E ca \in (SUBSET (1..Len(q))) \ {{}} : \E g \in Placed(q, ca) :
                /\ roles' = RolesPlaced(q, g)
                /\ nodes' = {g[i] : i \in ca} /\ nodes' \subseteq Node \ up
                /\ nodes' # {}
                /\ up' = up \cup nodes'
                /\ failed' = (failed \/ ca # 1..Len(q))
  BY <1>4, <1>5, <1>6
<1> QED BY <1>1, <1>2, <1>5, <1>7, <1>9, <1>11, <1>12, <1>13 DEF q, c, prog, B, W, P

\* The node that loses a role has it.
LEMMA UnpackedFacts ==
    ASSUME NEW r, NEW new, NEW kill \in Unpacked(r, new)
    PROVE  kill \subseteq With(r)
    BY DEF Unpacked

\* The two ways an addition goes on when its nodes are there.
AddDies ==
    /\ worker' = None
    /\ up \subseteq up' /\ up' \subseteq Node
    /\ \E b, w : Unpacked("backend", b) = {} \/ Unpacked("web", w) = {}
    /\ UNCHANGED <<roles, nodes>>

AddGoesOn(new, b, w, p, killB, killW) ==
    /\ new \subseteq Node \ up /\ new # {}
    /\ new = b \cup w \cup p
    /\ b \cap w = {} /\ b \cap p = {} /\ w \cap p = {}
    /\ killB \in Unpacked("backend", b) /\ killB \subseteq With("backend")
    /\ killW \in Unpacked("web", w) /\ killW \subseteq With("web")
    /\ up' = up \cup new /\ nodes' = nodes \cup new
    /\ roles' \in [Node -> SUBSET Role]
    /\ \A n \in Node :
         /\ "proxy" \in roles'[n] <=> (n \notin new /\ "proxy" \in roles[n]) \/ n \in p
         /\ "web" \in roles'[n] <=>
              (n \notin new /\ "web" \in roles[n] /\ n \notin killW) \/ n \in w
         /\ "backend" \in roles'[n] <=>
              (n \notin new /\ "backend" \in roles[n] /\ n \notin killB) \/ n \in b
    /\ worker' \in Worker /\ worker' # None /\ worker'.op = "add"
    /\ worker'.todo = AddCalls(new, b, w, p, killB, killW) /\ worker'.todo # None

\* What on_add_nodes does.
LEMMA AddHookFacts ==
    ASSUME TypeOK, on_add_nodes
    PROVE  /\ AddDies \/ \E new, b, w, p, killB, killW :
                           AddGoesOn(new, b, w, p, killB, killW)
           /\ UNCHANGED <<state, count, current, cdn, agent, request, history>>
<1> DEFINE q == AddedNodes(worker.want)
<1>1. worker \in Worker /\ worker # None /\ worker.op = "add" /\ worker.want \in Wanted
  BY DEF on_add_nodes, Hook, TypeOK, Worker, Wanted
<1>2. q \in Seq(SUBSET Role) /\ \A i \in 1..Len(q) : \E r \in Role : q[i] = {r}
  BY <1>1, AddedNodesFacts
<1> HIDE DEF q
<1>3. PICK came \in (SUBSET (1..Len(q))) \ {{}} : \E f \in Placed(q, came) :
         LET new == {f[i] : i \in came}
             rs == RolesPlaced(q, f)
             b == Having("backend", new, rs)
             w == Having("web", new, rs)
             p == Having("proxy", new, rs) IN
         /\ up' = up \cup new
         /\ \/ /\ Unpacked("backend", b) = {} \/ Unpacked("web", w) = {}
               /\ Die
               /\ UNCHANGED <<roles, nodes>>
            \/ \E killB \in Unpacked("backend", b), killW \in Unpacked("web", w) :
                 /\ roles' = [n \in Node |->
                      rs[n] \ ((IF n \in killB THEN {"backend"} ELSE {})
                               \cup (IF n \in killW THEN {"web"} ELSE {}))]
                 /\ nodes' = nodes \cup new
                 /\ Program(AddCalls(new, b, w, p, killB, killW))
  BY DEF on_add_nodes, q
<1>4. PICK f \in Placed(q, came) :
         LET new == {f[i] : i \in came}
             rs == RolesPlaced(q, f)
             b == Having("backend", new, rs)
             w == Having("web", new, rs)
             p == Having("proxy", new, rs) IN
         /\ up' = up \cup new
         /\ \/ /\ Unpacked("backend", b) = {} \/ Unpacked("web", w) = {}
               /\ Die
               /\ UNCHANGED <<roles, nodes>>
            \/ \E killB \in Unpacked("backend", b), killW \in Unpacked("web", w) :
                 /\ roles' = [n \in Node |->
                      rs[n] \ ((IF n \in killB THEN {"backend"} ELSE {})
                               \cup (IF n \in killW THEN {"web"} ELSE {}))]
                 /\ nodes' = nodes \cup new
                 /\ Program(AddCalls(new, b, w, p, killB, killW))
  BY <1>3
<1> DEFINE new == {f[i] : i \in came}
           rs == RolesPlaced(q, f)
           b == Having("backend", new, rs)
           w == Having("web", new, rs)
           p == Having("proxy", new, rs)
<1>5. /\ new \subseteq Node \ up
      /\ rs \in [Node -> SUBSET Role]
      /\ \A i \in came : rs[f[i]] = q[i]
      /\ \A n \in Node \ new : rs[n] = roles[n]
  BY <1>2, PlacedFacts
<1>6. new # {}
  <2>1. came \in (SUBSET (1..Len(q))) \ {{}}
    BY <1>3
  <2>2. PICK i : i \in came
    BY <2>1
  <2>3. f[i] \in new
    BY <2>2
  <2> QED BY <2>3
<1>7. ASSUME NEW n \in new PROVE \E r \in Role : rs[n] = {r}
  <2>1. PICK i \in came : n = f[i]
    OBVIOUS
  <2>2. rs[n] = q[i] /\ i \in 1..Len(q)
    BY <2>1, <1>5, <1>3
  <2> QED BY <2>2, <1>2
<1>8. UNCHANGED <<state, count, current, cdn, agent, request, history>>
  BY DEF on_add_nodes
<1>9. \/ /\ up' = up \cup new
         /\ Unpacked("backend", b) = {} \/ Unpacked("web", w) = {}
         /\ worker' = None /\ UNCHANGED <<roles, nodes>>
      \/ /\ up' = up \cup new
         /\ \E killB \in Unpacked("backend", b), killW \in Unpacked("web", w) :
                 /\ roles' = [n \in Node |->
                      rs[n] \ ((IF n \in killB THEN {"backend"} ELSE {})
                               \cup (IF n \in killW THEN {"web"} ELSE {}))]
                 /\ nodes' = nodes \cup new
                 /\ Program(AddCalls(new, b, w, p, killB, killW))
  BY <1>4 DEF Die
<1> HIDE DEF new, rs
<1>10. /\ b \cup w \cup p = new /\ b \cap w = {} /\ b \cap p = {} /\ w \cap p = {}
       /\ \A n \in Node : /\ n \in b <=> n \in new /\ "backend" \in rs[n]
                          /\ n \in w <=> n \in new /\ "web" \in rs[n]
                          /\ n \in p <=> n \in new /\ "proxy" \in rs[n]
  BY <1>5, <1>7 DEF Having, Role
<1> HIDE DEF b, w, p
<1>11. CASE /\ up' = up \cup new
            /\ Unpacked("backend", b) = {} \/ Unpacked("web", w) = {}
            /\ worker' = None /\ UNCHANGED <<roles, nodes>>
  <2>1. up \subseteq up' /\ up' \subseteq Node
    BY <1>5, <1>11 DEF TypeOK
  <2>2. AddDies
    BY <1>11, <2>1 DEF AddDies
  <2> QED BY <2>2, <1>8
<1>12. ASSUME up' = up \cup new,
              NEW killB \in Unpacked("backend", b), NEW killW \in Unpacked("web", w),
              roles' = [n \in Node |->
                      rs[n] \ ((IF n \in killB THEN {"backend"} ELSE {})
                               \cup (IF n \in killW THEN {"web"} ELSE {}))],
              nodes' = nodes \cup new, Program(AddCalls(new, b, w, p, killB, killW))
       PROVE  AddGoesOn(new, b, w, p, killB, killW)
  <2>1. killB \subseteq With("backend") /\ killW \subseteq With("web")
    BY UnpackedFacts
  <2>2. killB \subseteq nodes /\ killW \subseteq nodes /\ nodes \subseteq up /\ up \subseteq Node
        /\ With("proxy") \subseteq Node
    BY <2>1 DEF With, Having, TypeOK
  <2>3. new \in SUBSET Node /\ b \in SUBSET Node /\ w \in SUBSET Node /\ p \in SUBSET Node
        /\ killB \in SUBSET Node /\ killW \in SUBSET Node
        /\ (IF w \cup b = {} THEN {} ELSE With("proxy")) \in SUBSET Node
    BY <2>2, <1>5, <1>10
  <2>4. AddCalls(new, b, w, p, killB, killW) \in Seq(Call)
    BY <2>3, ProgramTypes DEF AddCalls
  <2>5. /\ worker' \in Worker /\ worker' # None /\ worker'.op = "add"
        /\ worker'.todo = AddCalls(new, b, w, p, killB, killW) /\ worker'.todo # None
    BY <2>4, <1>12, <1>1, ProgramFacts
  <2>6. roles' \in [Node -> SUBSET Role]
    BY <1>12, <1>5
  <2>7. \A n \in new : n \notin killB /\ n \notin killW
    BY <2>2, <1>5
  <2>8. ASSUME NEW n \in Node
        PROVE
         /\ "proxy" \in roles'[n] <=> (n \notin new /\ "proxy" \in roles[n]) \/ n \in p
         /\ "web" \in roles'[n] <=>
              (n \notin new /\ "web" \in roles[n] /\ n \notin killW) \/ n \in w
         /\ "backend" \in roles'[n] <=>
              (n \notin new /\ "backend" \in roles[n] /\ n \notin killB) \/ n \in b
    <3>1. roles'[n] = rs[n] \ ((IF n \in killB THEN {"backend"} ELSE {})
                               \cup (IF n \in killW THEN {"web"} ELSE {}))
      BY <1>12
    <3>2. CASE n \in new
      BY <3>1, <3>2, <2>7, <1>10
    <3>3. CASE n \notin new
      BY <3>1, <3>3, <1>5, <1>10
    <3> QED BY <3>2, <3>3
  <2> QED BY <1>5, <1>6, <1>10, <1>12, <2>1, <2>5, <2>6, <2>8 DEF AddGoesOn
<1>13. CASE /\ up' = up \cup new
            /\ \E killB \in Unpacked("backend", b), killW \in Unpacked("web", w) :
                 /\ roles' = [n \in Node |->
                      rs[n] \ ((IF n \in killB THEN {"backend"} ELSE {})
                               \cup (IF n \in killW THEN {"web"} ELSE {}))]
                 /\ nodes' = nodes \cup new
                 /\ Program(AddCalls(new, b, w, p, killB, killW))
  <2>1. \E killB, killW : AddGoesOn(new, b, w, p, killB, killW)
    BY <1>12, <1>13
  <2> QED BY <2>1, <1>8
<1> QED BY <1>9, <1>11, <1>13

\* The last nodes of a role have it.
LEMMA LastOfFacts ==
    ASSUME TypeOK, NEW r, NEW k \in Nat, NEW S \in LastOf(r, k)
    PROVE  /\ S \subseteq With(r)
           /\ k = 0 => S = {}
           /\ k >= Cardinality(With(r)) => S = With(r)
           /\ k < Cardinality(With(r)) => S # With(r) /\ Cardinality(S) = k
<1>1. S \in SUBSET With(r) /\ Cardinality(S) = IF k < Cardinality(With(r)) THEN k
                                           ELSE Cardinality(With(r))
  BY DEF LastOf
<1>2. /\ IsFiniteSet(With(r)) /\ Cardinality(With(r)) \in Nat
      /\ IsFiniteSet(S) /\ Cardinality(S) \in Nat
  BY <1>1, WithFacts
<1>3. Cardinality(S) = 0 <=> S = {}
  BY <1>2, FS_EmptySet
<1>4. Cardinality(S) = Cardinality(With(r)) => S = With(r)
  BY <1>1, <1>2, FS_Subset
<1> QED BY <1>1, <1>2, <1>3, <1>4

\* The loops of a removal.
RemoveCalls(killW, killB, killP, packW, packB, left) ==
    <<Do("create", "backend", packB), Do("code", None, packB),
      Do("create", "web", packW),
      Do("update", "proxy", IF killW \cup killB = {} THEN {} ELSE left),
      Do("stop", "backend", killB), Do("stop", "web", killW),
      Do("stop", "proxy", killP)>>

RemoveGoesOn(killW, killB, killP, pack, packW, packB) ==
    /\ killW \in LastOf("web", worker.want["web"]) /\ killW \subseteq With("web")
    /\ killB \in LastOf("backend", worker.want["backend"]) /\ killB \subseteq With("backend")
    /\ killP \in LastOf("proxy", worker.want["proxy"]) /\ killP \subseteq With("proxy")
    /\ pack \in With("proxy") /\ (killP # With("proxy") => pack \notin killP)
    /\ packW = IF worker.want["web"] > 0 /\ count["web"] = worker.want["web"]
               THEN {pack} ELSE {}
    /\ packB = IF worker.want["backend"] > 0 /\ count["backend"] = worker.want["backend"]
               THEN {pack} ELSE {}
    /\ roles' \in [Node -> SUBSET Role]
    /\ \A n \in Node :
         /\ "proxy" \in roles'[n] <=> "proxy" \in roles[n] /\ n \notin killP
         /\ "web" \in roles'[n] <=> ("web" \in roles[n] /\ n \notin killW) \/ n \in packW
         /\ "backend" \in roles'[n] <=>
              ("backend" \in roles[n] /\ n \notin killB) \/ n \in packB
    /\ worker.want \in Wanted /\ worker.op = "remove"
    /\ worker' \in Worker /\ worker' # None /\ worker'.op = "remove"
    /\ worker'.todo = RemoveCalls(killW, killB, killP, packW, packB,
                                  Having("proxy", nodes, roles'))
    /\ worker'.todo # None

\* What on_remove_nodes does.
LEMMA RemoveHookFacts ==
    ASSUME TypeOK, on_remove_nodes
    PROVE  /\ \E killW, killB, killP, pack, packW, packB :
                RemoveGoesOn(killW, killB, killP, pack, packW, packB)
           /\ UNCHANGED <<state, count, nodes, up, current, cdn, agent, request, history>>
<1> DEFINE want == worker.want
           packing == Packing(want)
           gone(n, killW, killB, killP) ==
              (IF n \in killW THEN {"web"} ELSE {})
                \cup (IF n \in killB THEN {"backend"} ELSE {})
                \cup (IF n \in killP THEN {"proxy"} ELSE {})
           onPack(r, pack) == IF r \in packing THEN {pack} ELSE {}
<1>1. worker \in Worker /\ worker # None /\ worker.op = "remove" /\ worker.want \in Wanted
  BY DEF on_remove_nodes, Hook, TypeOK, Worker, Wanted
<1>2. PICK killW \in LastOf("web", want["web"]),
           killB \in LastOf("backend", want["backend"]),
           killP \in LastOf("proxy", want["proxy"]), pack \in With("proxy") :
         /\ killP # With("proxy") => pack \notin killP
         /\ roles' = [n \in Node |-> (roles[n] \ gone(n, killW, killB, killP))
                         \cup (IF n = pack THEN packing ELSE {})]
         /\ Program(<<Do("create", "backend", onPack("backend", pack)),
                      Do("code", None, onPack("backend", pack)),
                      Do("create", "web", onPack("web", pack)),
                      Do("update", "proxy",
                         IF killW \cup killB = {} THEN {}
                         ELSE Having("proxy", nodes, roles')),
                      Do("stop", "backend", killB),
                      Do("stop", "web", killW),
                      Do("stop", "proxy", killP)>>)
  BY DEF on_remove_nodes
<1> DEFINE packW == onPack("web", pack)
           packB == onPack("backend", pack)
<1>3. /\ "web" \in packing <=> want["web"] > 0 /\ count["web"] = want["web"]
      /\ "backend" \in packing <=> want["backend"] > 0 /\ count["backend"] = want["backend"]
      /\ packing \subseteq {"web", "backend"}
  BY DEF Packing
<1>4. /\ packW = IF want["web"] > 0 /\ count["web"] = want["web"] THEN {pack} ELSE {}
      /\ packB = IF want["backend"] > 0 /\ count["backend"] = want["backend"]
                 THEN {pack} ELSE {}
  BY <1>3
<1>5. /\ killW \subseteq With("web") /\ killB \subseteq With("backend")
      /\ killP \subseteq With("proxy")
  BY DEF LastOf
<1>6. roles' \in [Node -> SUBSET Role]
  BY <1>2, <1>3 DEF TypeOK, Role
<1>7. ASSUME NEW n \in Node
      PROVE  /\ "proxy" \in roles'[n] <=> "proxy" \in roles[n] /\ n \notin killP
             /\ "web" \in roles'[n] <=> ("web" \in roles[n] /\ n \notin killW) \/ n \in packW
             /\ "backend" \in roles'[n] <=>
                  ("backend" \in roles[n] /\ n \notin killB) \/ n \in packB
  <2>1. roles'[n] = (roles[n] \ gone(n, killW, killB, killP))
                      \cup (IF n = pack THEN packing ELSE {})
    BY <1>2
  <2>2. /\ "web" \in packing => packW = {pack}
        /\ "web" \notin packing => packW = {}
        /\ "backend" \in packing => packB = {pack}
        /\ "backend" \notin packing => packB = {}
    OBVIOUS
  <2> HIDE DEF packing, packW, packB
  <2> QED BY <2>1, <2>2, <1>3
<1> DEFINE left == Having("proxy", nodes, roles')
           told == IF killW \cup killB = {} THEN {} ELSE left
<1>8. /\ killW \in SUBSET Node /\ killB \in SUBSET Node /\ killP \in SUBSET Node
      /\ packW \in SUBSET Node /\ packB \in SUBSET Node /\ told \in SUBSET Node
  BY <1>5 DEF With, Having, TypeOK
<1>9. Program(RemoveCalls(killW, killB, killP, packW, packB, left))
  BY <1>2 DEF RemoveCalls
<1> HIDE DEF packW, packB, left, packing
<1>10. RemoveCalls(killW, killB, killP, packW, packB, left) \in Seq(Call)
  BY <1>8, ProgramTypes DEF RemoveCalls
<1>11. /\ worker' \in Worker /\ worker' # None /\ worker'.op = "remove"
       /\ worker'.todo = RemoveCalls(killW, killB, killP, packW, packB, left)
       /\ worker'.todo # None
  BY <1>9, <1>10, <1>1, ProgramFacts
<1>12. RemoveGoesOn(killW, killB, killP, pack, packW, packB)
  BY <1>1, <1>2, <1>4, <1>5, <1>6, <1>7, <1>11 DEF RemoveGoesOn, left
<1>13. UNCHANGED <<state, count, nodes, up, current, cdn, agent, request, history>>
  BY DEF on_remove_nodes
<1> QED BY <1>12, <1>13

\* What on_stop does.
LEMMA StopHookFacts ==
    ASSUME TypeOK, on_stop
    PROVE  /\ worker' \in Worker /\ worker' # None /\ worker'.op = "stop"
           /\ worker'.todo = StopCalls /\ worker'.todo # None
           /\ UNCHANGED <<state, config, agent, request, history>>
<1>1. With("proxy") \in SUBSET Node /\ With("web") \in SUBSET Node
      /\ With("backend") \in SUBSET Node
  BY DEF With, Having, TypeOK
<1>2. StopCalls \in Seq(Call)
  BY <1>1, ProgramTypes DEF StopCalls
<1>3. worker # None /\ worker.op = "stop" /\ Program(StopCalls)
      /\ UNCHANGED <<state, config, agent, request, history>>
  BY DEF on_stop, Hook
<1> QED BY <1>2, <1>3, ProgramFacts

\* What do_update_configuration does.
LEMMA ConfigureHookFacts ==
    ASSUME TypeOK, do_update_configuration
    PROVE  /\ worker' \in Worker /\ worker' # None /\ worker'.op = "configure"
           /\ worker'.todo # None
           /\ \E php \in SUBSET With("backend"), all \in SUBSET nodes,
                 w \in SUBSET With("web"), p \in SUBSET With("proxy") :
                /\ worker'.todo = <<Do("update", "backend", php), Do("code", None, all),
                                    Do("update", "web", w), Do("update", "proxy", p)>>
                /\ current' # current => all = nodes
           /\ current' \in Version
           /\ UNCHANGED <<state, count, roles, nodes, up, cdn, agent, request, history>>
<1> DEFINE onCode(ns) == IF worker.version = None THEN {} ELSE ns
           php == IF worker.php THEN With("backend") ELSE {}
           all == onCode(nodes)
           w == onCode(With("web"))
           p == onCode(With("proxy"))
           prog == <<Do("update", "backend", php), Do("code", None, all),
                     Do("update", "web", w), Do("update", "proxy", p)>>
<1>1. /\ worker # None /\ worker.op = "configure" /\ Program(prog)
      /\ current' = IF worker.version = None THEN current ELSE worker.version
      /\ UNCHANGED <<state, count, roles, nodes, up, cdn, agent, request, history>>
  BY DEF do_update_configuration, Hook
<1>2. /\ php \in SUBSET With("backend") /\ all \in SUBSET nodes
      /\ w \in SUBSET With("web") /\ p \in SUBSET With("proxy")
      /\ current' # current => all = nodes
  BY <1>1
<1>3. current' \in Version
  BY <1>1 DEF TypeOK, Worker
<1> HIDE DEF php, all, w, p
<1>4. php \in SUBSET Node /\ all \in SUBSET Node /\ w \in SUBSET Node /\ p \in SUBSET Node
  BY <1>2 DEF With, Having, TypeOK
<1>5. prog \in Seq(Call)
  BY <1>4, ProgramTypes
<1>6. /\ worker' \in Worker /\ worker' # None /\ worker'.op = "configure"
      /\ worker'.todo = prog /\ worker'.todo # None
  BY <1>1, <1>5, ProgramFacts
<1> QED BY <1>1, <1>2, <1>3, <1>6

\* One call: loop i makes call c to node n.
CallMade(i, n, c) ==
    /\ HasProgram /\ worker \in Worker
    /\ i \in DOMAIN worker.todo /\ c = worker.todo[i] /\ c \in Call
    /\ n \in c.on /\ n \in Node /\ Turn(i) /\ Takes(n, c) /\ CdnOK(c)
    /\ \A m \in Node \ {n} : /\ daemons'[m] = daemons[m] /\ routes'[m] = routes[m]
                             /\ code'[m] = code[m]
    /\ daemons'[n] = CASE c.do = "create" -> daemons[n] \cup {c.role}
                       [] c.do = "stop" -> daemons[n] \ {c.role}
                       [] OTHER -> daemons[n]
    /\ routes'[n] = IF c.role # "proxy" THEN routes[n]
                    ELSE IF c.do = "stop" THEN NoRoute ELSE TuplesNow
    /\ code'[n] = IF c.do = "code" THEN current ELSE code[n]
    /\ worker' \in Worker /\ worker' # None
    /\ worker'.op = worker.op /\ worker'.todo # None
    /\ DOMAIN worker'.todo = DOMAIN worker.todo
    /\ \A j \in DOMAIN worker.todo :
         /\ worker.todo[j] \in Call
         /\ worker'.todo[j].do = worker.todo[j].do
         /\ worker'.todo[j].role = worker.todo[j].role
         /\ worker'.todo[j].on = IF j = i THEN worker.todo[j].on \ {n}
                                 ELSE worker.todo[j].on
    /\ UNCHANGED <<state, config, request, history>>

\* What a call is, whichever loop and node it is for.
LEMMA AgentCallFacts ==
    ASSUME TypeOK, AgentCall
    PROVE  /\ \E i, n, c : CallMade(i, n, c)
           /\ \E D : daemons' \in [Node -> D]
           /\ routes' \in [Node -> Route]
           /\ code' \in [Node -> Version \cup {None}]
<1>1. HasProgram /\ UNCHANGED <<state, config, request, history>>
  BY DEF AgentCall
<1>2. /\ worker \in Worker /\ worker.todo \in Seq(Call)
      /\ \A i \in DOMAIN worker.todo : worker.todo[i] \in Call
  BY <1>1, TurnFacts
<1>3. PICK i \in DOMAIN worker.todo : \E n \in worker.todo[i].on :
         LET c == worker.todo[i] IN
         /\ Turn(i) /\ Takes(n, c) /\ CdnOK(c)
         /\ daemons' = [daemons EXCEPT ![n] =
                          CASE c.do = "create" -> @ \cup {c.role}
                            [] c.do = "stop" -> @ \ {c.role}
                            [] OTHER -> @]
         /\ routes' = [routes EXCEPT ![n] =
                         IF c.role # "proxy" THEN @
                         ELSE IF c.do = "stop" THEN NoRoute ELSE TuplesNow]
         /\ code' = [code EXCEPT ![n] = IF c.do = "code" THEN current ELSE @]
         /\ worker' = [worker EXCEPT !.todo[i].on = @ \ {n}]
  BY DEF AgentCall
<1>4. PICK n \in worker.todo[i].on :
         LET c == worker.todo[i] IN
         /\ Turn(i) /\ Takes(n, c) /\ CdnOK(c)
         /\ daemons' = [daemons EXCEPT ![n] =
                          CASE c.do = "create" -> @ \cup {c.role}
                            [] c.do = "stop" -> @ \ {c.role}
                            [] OTHER -> @]
         /\ routes' = [routes EXCEPT ![n] =
                         IF c.role # "proxy" THEN @
                         ELSE IF c.do = "stop" THEN NoRoute ELSE TuplesNow]
         /\ code' = [code EXCEPT ![n] = IF c.do = "code" THEN current ELSE @]
         /\ worker' = [worker EXCEPT !.todo[i].on = @ \ {n}]
  BY <1>3
<1> DEFINE c == worker.todo[i]
<1>5. c \in Call /\ n \in c.on /\ n \in Node
  BY <1>2 DEF Call
<1>6. /\ Turn(i) /\ Takes(n, c) /\ CdnOK(c)
      /\ daemons' = [daemons EXCEPT ![n] =
                          CASE c.do = "create" -> @ \cup {c.role}
                            [] c.do = "stop" -> @ \ {c.role}
                            [] OTHER -> @]
      /\ routes' = [routes EXCEPT ![n] =
                         IF c.role # "proxy" THEN @
                         ELSE IF c.do = "stop" THEN NoRoute ELSE TuplesNow]
      /\ code' = [code EXCEPT ![n] = IF c.do = "code" THEN current ELSE @]
  BY <1>4
<1>7. LET v == [worker EXCEPT !.todo[i].on = @ \ {n}] IN
           /\ v \in Worker /\ v # None
           /\ v.op = worker.op /\ v.todo # None
           /\ DOMAIN v.todo = DOMAIN worker.todo
           /\ \A j \in DOMAIN worker.todo :
                /\ worker.todo[j] \in Call
                /\ v.todo[j].do = worker.todo[j].do /\ v.todo[j].role = worker.todo[j].role
                /\ v.todo[j].on = IF j = i THEN worker.todo[j].on \ {n}
                                  ELSE worker.todo[j].on
  <2>1. worker.todo # None
    BY <1>1 DEF HasProgram
  <2> QED BY <1>2, <2>1, WorkerWithCall
<1>8. /\ worker' \in Worker /\ worker' # None
      /\ worker'.op = worker.op /\ worker'.todo # None
      /\ DOMAIN worker'.todo = DOMAIN worker.todo
      /\ \A j \in DOMAIN worker.todo :
           /\ worker.todo[j] \in Call
           /\ worker'.todo[j].do = worker.todo[j].do
           /\ worker'.todo[j].role = worker.todo[j].role
           /\ worker'.todo[j].on = IF j = i THEN worker.todo[j].on \ {n}
                                   ELSE worker.todo[j].on
  BY <1>4, <1>7
<1> HIDE DEF c
<1>9. TuplesNow \in Route /\ NoRoute \in Route
  BY DEF TuplesNow, NoRoute, Route, With, Having, TypeOK
<1>10. /\ daemons \in [Node -> SUBSET Role] /\ routes \in [Node -> Route]
       /\ code \in [Node -> Version \cup {None}] /\ current \in Version
  BY DEF TypeOK
<1>11. /\ \A m \in Node \ {n} : /\ daemons'[m] = daemons[m] /\ routes'[m] = routes[m]
                                /\ code'[m] = code[m]
       /\ daemons'[n] = CASE c.do = "create" -> daemons[n] \cup {c.role}
                       [] c.do = "stop" -> daemons[n] \ {c.role}
                       [] OTHER -> daemons[n]
       /\ routes'[n] = IF c.role # "proxy" THEN routes[n]
                       ELSE IF c.do = "stop" THEN NoRoute ELSE TuplesNow
       /\ code'[n] = IF c.do = "code" THEN current ELSE code[n]
  BY <1>5, <1>6, <1>10
<1>12. CallMade(i, n, c)
  BY <1>1, <1>2, <1>3, <1>5, <1>6, <1>8, <1>11 DEF CallMade, c
<1>13. routes' \in [Node -> Route] /\ code' \in [Node -> Version \cup {None}]
  BY <1>6, <1>9, <1>10
<1>14. daemons' \in [Node -> SUBSET (Role \cup {c.role})]
  BY <1>6, <1>10
<1> QED BY <1>12, <1>13, <1>14

\* The call that fails ends the worker.
LEMMA CallFailsFacts ==
    ASSUME TypeOK, CallFails
    PROVE  /\ worker' = None /\ HasProgram
           /\ \E i \in DOMAIN worker.todo :
                /\ Turn(i)
                /\ failed' = (failed \/ \E n \in worker.todo[i].on : Takes(n, worker.todo[i]))
           /\ state' \in {state, "ERROR"} \/ (worker.op = "remove" /\ state' = "RUNNING")
           /\ state' \in State /\ failed' \in BOOLEAN
           /\ UNCHANGED <<config, agent, request, raced, misplaced>>
<1>1. PICK i \in DOMAIN worker.todo :
         LET c == worker.todo[i] IN
         /\ Turn(i)
         /\ failed' = (failed \/ \E n \in c.on : Takes(n, c))
         /\ IF worker.op = "remove" /\ c.do = "stop" THEN state' = "RUNNING" ELSE CallError
  BY DEF CallFails
<1>2. /\ worker' = None /\ HasProgram
      /\ UNCHANGED <<config, agent, request, raced, misplaced>>
  BY DEF CallFails, Die
<1>3. /\ state' \in {state, "ERROR"} \/ (worker.op = "remove" /\ state' = "RUNNING")
      /\ state' \in State
  BY <1>1 DEF CallError, TypeOK, State
<1>4. failed' \in BOOLEAN
  BY <1>1 DEF TypeOK
<1> QED BY <1>1, <1>2, <1>3, <1>4

\* The nodes that go when a worker is done.
Gone == CASE worker.op = "stop" -> nodes
          [] worker.op = "remove" -> {n \in nodes : roles[n] = {}}
          [] OTHER -> {}

\* What the end of a worker does.
LEMMA FinishFacts ==
    ASSUME TypeOK, Finish
    PROVE  /\ HasProgram /\ \A i \in DOMAIN worker.todo : worker.todo[i].on = {}
           /\ worker' = None
           /\ Gone \subseteq nodes /\ nodes' = nodes \ Gone /\ up' = up \ Gone
           /\ roles' = [n \in Node |-> IF n \in Gone THEN {} ELSE roles[n]]
           /\ daemons' = [n \in Node |-> IF n \in Gone THEN {} ELSE daemons[n]]
           /\ routes' = [n \in Node |-> IF n \in Gone THEN NoRoute ELSE routes[n]]
           /\ code' = [n \in Node |-> IF n \in Gone THEN None ELSE code[n]]
           /\ count' = IF worker.op \in {"add", "remove"} THEN Recount(nodes', roles)
                       ELSE count
           /\ state' = IF worker.op = "stop" THEN "STOPPED" ELSE "RUNNING"
           /\ failed' = (failed /\ worker.op # "stop")
           /\ UNCHANGED <<current, cdn, request, raced, misplaced>>
  BY DEF Finish, Destroy, Gone

\* The hooks, the calls and the end of a worker keep the types.
LEMMA TypeWork == TypeOK /\ ProgramOK /\ Work => TypeOK'
<1> SUFFICES ASSUME TypeOK, ProgramOK, Work PROVE TypeOK'
  OBVIOUS
<1>1. CASE NodesFailed
  <2>1. StartingCounts(count) \in [Role -> Nat]
    BY StartingCountsFacts DEF TypeOK, Wanted
  <2> QED BY <1>1, <2>1 DEF NodesFailed, Die, TypeOK, agent
<1>2. CASE on_start
  BY <1>2, StartHookFacts DEF TypeOK, Wanted, agent
<1>3. CASE on_add_nodes
  <2>1. CASE AddDies
    BY <2>1, <1>3, AddHookFacts DEF AddDies, TypeOK, agent, history
  <2>2. CASE \E new, b, w, p, killB, killW : AddGoesOn(new, b, w, p, killB, killW)
    BY <2>2, <1>3, AddHookFacts DEF AddGoesOn, TypeOK, agent, history
  <2> QED BY <1>3, <2>1, <2>2, AddHookFacts
<1>4. CASE on_remove_nodes
  BY <1>4, RemoveHookFacts DEF RemoveGoesOn, TypeOK, agent, history
<1>5. CASE on_stop
  BY <1>5, StopHookFacts DEF TypeOK, config, agent, history
<1>6. CASE do_update_configuration
  BY <1>6, ConfigureHookFacts DEF TypeOK, agent, history
<1>7. CASE AgentCall
  <2>1. PICK i, n, c : CallMade(i, n, c)
    BY <1>7, AgentCallFacts
  <2>2. worker' \in Worker /\ UNCHANGED <<state, config, request, history>>
    BY <2>1 DEF CallMade
  <2>3. c.do = "create" => c.role \in Role
    <3>1. Ordered(worker.op, worker.todo) /\ i \in DOMAIN worker.todo
          /\ c = worker.todo[i] /\ c \in Call
      BY <2>1 DEF CallMade, ProgramOK
    <3> QED BY <3>1 DEF Ordered, Call
  <2>4. \A m \in Node : daemons'[m] \in SUBSET Role
    BY <2>1, <2>3 DEF CallMade, TypeOK
  <2>5. daemons' \in [Node -> SUBSET Role]
    BY <2>4, <1>7, AgentCallFacts
  <2> QED BY <1>7, <2>2, <2>5, AgentCallFacts DEF TypeOK, config, history
<1>8. CASE CallFails
  BY <1>8, CallFailsFacts DEF TypeOK, config, agent
<1>9. CASE Finish
  <2>1. /\ roles' \in [Node -> SUBSET Role] /\ daemons' \in [Node -> SUBSET Role]
        /\ code' \in [Node -> Version \cup {None}] /\ routes' \in [Node -> Route]
    BY <1>9, FinishFacts DEF TypeOK, NoRoute, Route
  <2>2. nodes' \subseteq up' /\ up' \subseteq Node
    BY <1>9, FinishFacts DEF TypeOK
  <2>3. count' \in [Role -> Nat]
    <3>1. nodes' \in SUBSET Node
      BY <2>2
    <3>2. Recount(nodes', roles) \in [Role -> Nat]
      BY <3>1, RecountFacts DEF Wanted
    <3> QED BY <1>9, <3>2, FinishFacts DEF TypeOK
  <2>4. state' \in State /\ failed' \in BOOLEAN
    BY <1>9, FinishFacts DEF TypeOK, State
  <2> QED BY <1>9, <2>1, <2>2, <2>3, <2>4, FinishFacts DEF TypeOK
<1> QED BY <1>1, <1>2, <1>3, <1>4, <1>5, <1>6, <1>7, <1>8, <1>9 DEF Work

-----------------------------------------------------------------------------
(* What is still to be done. *)

\* Without a program nothing is.
LEMMA NothingPending ==
    ASSUME NEW wk,
           \/ wk = None \/ wk.todo = None \/ \A i \in DOMAIN wk.todo : wk.todo[i].on = {}
    PROVE  \A do, r, n : ~PendIn(wk, do, r, n)
  BY DEF PendIn

\* What is pending in the next state is what the next worker has to do.
LEMMA PendNext == \A do, r, n : Pend(do, r, n)' <=> PendIn(worker', do, r, n)
  BY DEF Pend, PendIn

\* The calls of a new program.
LEMMA StartProgram ==
    ASSUME NEW wk, NEW a, NEW b, NEW c, NEW d, NEW e, wk # None,
           wk.todo = <<Do("scalaris", None, a), Do("create", "backend", b),
                           Do("code", None, c), Do("create", "web", d),
                           Do("create", "proxy", e)>>,
           wk.todo # None, wk.op = "start"
    PROVE  /\ Ordered(wk.op, wk.todo)
           /\ \A i \in DOMAIN wk.todo :
                wk.todo[i].on \in {a, b, c, d, e}
           /\ \A n : /\ PendIn(wk, "create", "backend", n) <=> n \in b
                     /\ PendIn(wk, "create", "web", n) <=> n \in d
                     /\ PendIn(wk, "create", "proxy", n) <=> n \in e
                     /\ PendIn(wk, "code", None, n) <=> n \in c
                     /\ \A r : ~PendIn(wk, "stop", r, n) /\ ~PendIn(wk, "update", r, n)
<1> DEFINE p == wk.todo
<1>1. /\ DOMAIN p = 1..5
      /\ p[1] = Do("scalaris", None, a) /\ p[2] = Do("create", "backend", b)
      /\ p[3] = Do("code", None, c) /\ p[4] = Do("create", "web", d)
      /\ p[5] = Do("create", "proxy", e)
  OBVIOUS
<1> HIDE DEF p
<1>2. /\ p[1].do = "scalaris" /\ p[1].role = None /\ p[1].on = a
      /\ p[2].do = "create" /\ p[2].role = "backend" /\ p[2].on = b
      /\ p[3].do = "code" /\ p[3].role = None /\ p[3].on = c
      /\ p[4].do = "create" /\ p[4].role = "web" /\ p[4].on = d
      /\ p[5].do = "create" /\ p[5].role = "proxy" /\ p[5].on = e
  BY <1>1 DEF Do
<1>3. Ordered("start", p)
  BY <1>1, <1>2, RoleFacts DEF Ordered, Before
<1>4. \A i \in DOMAIN p : p[i].on \in {a, b, c, d, e}
  BY <1>1, <1>2
<1>5. \A n : /\ PendIn(wk, "create", "backend", n) <=> n \in b
             /\ PendIn(wk, "create", "web", n) <=> n \in d
             /\ PendIn(wk, "create", "proxy", n) <=> n \in e
             /\ PendIn(wk, "code", None, n) <=> n \in c
             /\ \A r : ~PendIn(wk, "stop", r, n) /\ ~PendIn(wk, "update", r, n)
  BY <1>1, <1>2 DEF PendIn, p
<1> QED BY <1>3, <1>4, <1>5 DEF p

\* The calls of an addition, their order and what they leave pending.
LEMMA AddProgram ==
    ASSUME NEW wk, NEW new, NEW b, NEW w, NEW p, NEW killB, NEW killW, NEW told, wk # None,
           wk.todo = <<Do("scalaris", None, new),
      Do("create", "backend", b), Do("code", None, new),
      Do("create", "web", w), Do("create", "proxy", p), Do("update", "proxy", told),
      Do("stop", "backend", killB), Do("stop", "web", killW)>>,
           wk.todo # None, wk.op = "add"
    PROVE  /\ Ordered(wk.op, wk.todo)
           /\ \A i \in DOMAIN wk.todo :
                wk.todo[i].on \in {new, b, w, p, killB, killW, told}
           /\ \A n : /\ PendIn(wk, "create", "backend", n) <=> n \in b
                     /\ PendIn(wk, "create", "web", n) <=> n \in w
                     /\ PendIn(wk, "create", "proxy", n) <=> n \in p
                     /\ PendIn(wk, "code", None, n) <=> n \in new
                     /\ PendIn(wk, "update", "proxy", n) <=> n \in told
                     /\ PendIn(wk, "stop", "backend", n) <=> n \in killB
                     /\ PendIn(wk, "stop", "web", n) <=> n \in killW
                     /\ ~PendIn(wk, "update", "web", n) /\ ~PendIn(wk, "update", "backend", n)
                     /\ ~PendIn(wk, "stop", "proxy", n)
<1> DEFINE q == wk.todo
<1>1. /\ DOMAIN q = 1..8
      /\ q[1] = Do("scalaris", None, new) /\ q[2] = Do("create", "backend", b)
      /\ q[3] = Do("code", None, new) /\ q[4] = Do("create", "web", w)
      /\ q[5] = Do("create", "proxy", p) /\ q[6] = Do("update", "proxy", told)
      /\ q[7] = Do("stop", "backend", killB) /\ q[8] = Do("stop", "web", killW)
  OBVIOUS
<1> HIDE DEF q
<1>2. /\ q[1].do = "scalaris" /\ q[1].role = None /\ q[1].on = new
      /\ q[2].do = "create" /\ q[2].role = "backend" /\ q[2].on = b
      /\ q[3].do = "code" /\ q[3].role = None /\ q[3].on = new
      /\ q[4].do = "create" /\ q[4].role = "web" /\ q[4].on = w
      /\ q[5].do = "create" /\ q[5].role = "proxy" /\ q[5].on = p
      /\ q[6].do = "update" /\ q[6].role = "proxy" /\ q[6].on = told
      /\ q[7].do = "stop" /\ q[7].role = "backend" /\ q[7].on = killB
      /\ q[8].do = "stop" /\ q[8].role = "web" /\ q[8].on = killW
  BY <1>1 DEF Do
<1>3. Ordered("add", q)
  BY <1>1, <1>2, RoleFacts DEF Ordered, Before
<1>4. \A i \in DOMAIN q : q[i].on \in {new, b, w, p, killB, killW, told}
  BY <1>1, <1>2
<1>5. \A n : /\ PendIn(wk, "create", "backend", n) <=> n \in b
             /\ PendIn(wk, "create", "web", n) <=> n \in w
             /\ PendIn(wk, "create", "proxy", n) <=> n \in p
             /\ PendIn(wk, "code", None, n) <=> n \in new
             /\ PendIn(wk, "update", "proxy", n) <=> n \in told
             /\ PendIn(wk, "stop", "backend", n) <=> n \in killB
             /\ PendIn(wk, "stop", "web", n) <=> n \in killW
             /\ ~PendIn(wk, "update", "web", n) /\ ~PendIn(wk, "update", "backend", n)
             /\ ~PendIn(wk, "stop", "proxy", n)
  BY <1>1, <1>2 DEF PendIn, q
<1> QED BY <1>3, <1>4, <1>5 DEF q

\* The calls of a removal, their order and what they leave pending.
LEMMA RemoveProgram ==
    ASSUME NEW wk, NEW killW, NEW killB, NEW killP, NEW packW, NEW packB, NEW told, wk # None,
           wk.todo = <<Do("create", "backend", packB), Do("code", None, packB),
                        Do("create", "web", packW), Do("update", "proxy", told),
                        Do("stop", "backend", killB), Do("stop", "web", killW),
                        Do("stop", "proxy", killP)>>,
           wk.todo # None, wk.op = "remove"
    PROVE  /\ Ordered(wk.op, wk.todo)
           /\ \A i \in DOMAIN wk.todo :
                wk.todo[i].on \in {killW, killB, killP, packW, packB, told}
           /\ \A n : /\ PendIn(wk, "create", "backend", n) <=> n \in packB
                     /\ PendIn(wk, "create", "web", n) <=> n \in packW
                     /\ ~PendIn(wk, "create", "proxy", n)
                     /\ PendIn(wk, "code", None, n) <=> n \in packB
                     /\ PendIn(wk, "update", "proxy", n) <=> n \in told
                     /\ PendIn(wk, "stop", "backend", n) <=> n \in killB
                     /\ PendIn(wk, "stop", "web", n) <=> n \in killW
                     /\ PendIn(wk, "stop", "proxy", n) <=> n \in killP
                     /\ ~PendIn(wk, "update", "web", n) /\ ~PendIn(wk, "update", "backend", n)
<1> DEFINE q == wk.todo
<1>1. /\ DOMAIN q = 1..7
      /\ q[1] = Do("create", "backend", packB) /\ q[2] = Do("code", None, packB)
      /\ q[3] = Do("create", "web", packW) /\ q[4] = Do("update", "proxy", told)
      /\ q[5] = Do("stop", "backend", killB) /\ q[6] = Do("stop", "web", killW)
      /\ q[7] = Do("stop", "proxy", killP)
  OBVIOUS
<1> HIDE DEF q
<1>2. /\ q[1].do = "create" /\ q[1].role = "backend" /\ q[1].on = packB
      /\ q[2].do = "code" /\ q[2].role = None /\ q[2].on = packB
      /\ q[3].do = "create" /\ q[3].role = "web" /\ q[3].on = packW
      /\ q[4].do = "update" /\ q[4].role = "proxy" /\ q[4].on = told
      /\ q[5].do = "stop" /\ q[5].role = "backend" /\ q[5].on = killB
      /\ q[6].do = "stop" /\ q[6].role = "web" /\ q[6].on = killW
      /\ q[7].do = "stop" /\ q[7].role = "proxy" /\ q[7].on = killP
  BY <1>1 DEF Do
<1>3. Ordered("remove", q)
  BY <1>1, <1>2, RoleFacts DEF Ordered, Before
<1>4. \A i \in DOMAIN q : q[i].on \in {killW, killB, killP, packW, packB, told}
  BY <1>1, <1>2
<1>5. \A n : /\ PendIn(wk, "create", "backend", n) <=> n \in packB
             /\ PendIn(wk, "create", "web", n) <=> n \in packW
             /\ ~PendIn(wk, "create", "proxy", n)
             /\ PendIn(wk, "code", None, n) <=> n \in packB
             /\ PendIn(wk, "update", "proxy", n) <=> n \in told
             /\ PendIn(wk, "stop", "backend", n) <=> n \in killB
             /\ PendIn(wk, "stop", "web", n) <=> n \in killW
             /\ PendIn(wk, "stop", "proxy", n) <=> n \in killP
             /\ ~PendIn(wk, "update", "web", n) /\ ~PendIn(wk, "update", "backend", n)
  BY <1>1, <1>2 DEF PendIn, q
<1> QED BY <1>3, <1>4, <1>5 DEF q

\* The calls of a stop, their order and what they leave pending.
LEMMA StopProgram ==
    ASSUME NEW wk, wk # None, NEW p, NEW w, NEW b,
           wk.todo = <<Do("stop", "proxy", p), Do("stop", "web", w),
                           Do("stop", "backend", b)>>,
           wk.todo # None, wk.op = "stop"
    PROVE  /\ Ordered(wk.op, wk.todo)
           /\ \A i \in DOMAIN wk.todo : wk.todo[i].on \in {p, w, b}
           /\ \A n : /\ PendIn(wk, "stop", "proxy", n) <=> n \in p
                     /\ PendIn(wk, "stop", "web", n) <=> n \in w
                     /\ PendIn(wk, "stop", "backend", n) <=> n \in b
                     /\ \A r : ~PendIn(wk, "create", r, n) /\ ~PendIn(wk, "update", r, n)
<1> DEFINE q == wk.todo
<1>1. /\ DOMAIN q = 1..3
      /\ q[1] = Do("stop", "proxy", p) /\ q[2] = Do("stop", "web", w)
      /\ q[3] = Do("stop", "backend", b)
  OBVIOUS
<1> HIDE DEF q
<1>2. /\ q[1].do = "stop" /\ q[1].role = "proxy" /\ q[1].on = p
      /\ q[2].do = "stop" /\ q[2].role = "web" /\ q[2].on = w
      /\ q[3].do = "stop" /\ q[3].role = "backend" /\ q[3].on = b
  BY <1>1 DEF Do
<1>3. Ordered("stop", q)
  BY <1>1, <1>2, RoleFacts DEF Ordered, Before
<1>4. \A i \in DOMAIN q : q[i].on \in {p, w, b}
  BY <1>1, <1>2
<1>5. \A n : /\ PendIn(wk, "stop", "proxy", n) <=> n \in p
             /\ PendIn(wk, "stop", "web", n) <=> n \in w
             /\ PendIn(wk, "stop", "backend", n) <=> n \in b
             /\ \A r : ~PendIn(wk, "create", r, n) /\ ~PendIn(wk, "update", r, n)
  BY <1>1, <1>2 DEF PendIn, q
<1> QED BY <1>3, <1>4, <1>5 DEF q

\* The calls of an update, their order and what they leave pending.
LEMMA ConfigureProgram ==
    ASSUME NEW wk, wk # None, NEW php, NEW all, NEW w, NEW p,
           wk.todo = <<Do("update", "backend", php), Do("code", None, all),
                           Do("update", "web", w), Do("update", "proxy", p)>>,
           wk.todo # None, wk.op = "configure"
    PROVE  /\ Ordered(wk.op, wk.todo)
           /\ \A i \in DOMAIN wk.todo : wk.todo[i].on \in {php, all, w, p}
           /\ \A n : /\ PendIn(wk, "update", "backend", n) <=> n \in php
                     /\ PendIn(wk, "update", "web", n) <=> n \in w
                     /\ PendIn(wk, "update", "proxy", n) <=> n \in p
                     /\ PendIn(wk, "code", None, n) <=> n \in all
                     /\ \A r : ~PendIn(wk, "create", r, n) /\ ~PendIn(wk, "stop", r, n)
<1> DEFINE q == wk.todo
<1>1. /\ DOMAIN q = 1..4
      /\ q[1] = Do("update", "backend", php) /\ q[2] = Do("code", None, all)
      /\ q[3] = Do("update", "web", w) /\ q[4] = Do("update", "proxy", p)
  OBVIOUS
<1> HIDE DEF q
<1>2. /\ q[1].do = "update" /\ q[1].role = "backend" /\ q[1].on = php
      /\ q[2].do = "code" /\ q[2].role = None /\ q[2].on = all
      /\ q[3].do = "update" /\ q[3].role = "web" /\ q[3].on = w
      /\ q[4].do = "update" /\ q[4].role = "proxy" /\ q[4].on = p
  BY <1>1 DEF Do
<1>3. Ordered("configure", q)
  BY <1>1, <1>2, RoleFacts DEF Ordered, Before
<1>4. \A i \in DOMAIN q : q[i].on \in {php, all, w, p}
  BY <1>1, <1>2
<1>5. \A n : /\ PendIn(wk, "update", "backend", n) <=> n \in php
             /\ PendIn(wk, "update", "web", n) <=> n \in w
             /\ PendIn(wk, "update", "proxy", n) <=> n \in p
             /\ PendIn(wk, "code", None, n) <=> n \in all
             /\ \A r : ~PendIn(wk, "create", r, n) /\ ~PendIn(wk, "stop", r, n)
  BY <1>1, <1>2 DEF PendIn, q
<1> QED BY <1>3, <1>4, <1>5 DEF q

\* What one call takes off the program, and what cannot come after it any more.
LEMMA CallFacts ==
    ASSUME TypeOK, ProgramOK, NEW i, NEW n, NEW c, CallMade(i, n, c)
    PROVE  /\ Ordered(worker'.op, worker'.todo)
           /\ \A j \in DOMAIN worker'.todo : worker'.todo[j].on \subseteq nodes
           /\ n \in nodes
           /\ c.do \in {"create", "update", "stop"} => c.role \in Role
           /\ c.do \in {"scalaris", "code"} => c.role = None
           /\ c.do \in {"scalaris", "create", "update", "stop", "code"}
           /\ worker.op = "stop" => c.do = "stop"
           /\ Pend(c.do, c.role, n)
           /\ \A do, r, m : PendIn(worker', do, r, m) <=>
                              Pend(do, r, m) /\ ~(do = c.do /\ r = c.role /\ m = n)
           /\ c.do \in {"create", "update"} /\ c.role = "proxy" =>
                \A m : ~Pend("create", "web", m) /\ ~Pend("create", "backend", m)
           /\ worker.op # "stop" /\ c.do = "stop" =>
                \A m : ~Pend("update", "proxy", m) /\ \A r : ~Pend("create", r, m)
           /\ worker.op = "stop" /\ c.role # "proxy" =>
                \A m : ~Pend("stop", "proxy", m)
<1> DEFINE t == worker.todo
           u == worker'.todo
<1>1. /\ i \in DOMAIN t /\ c = t[i] /\ n \in c.on /\ Turn(i)
      /\ DOMAIN u = DOMAIN t
      /\ \A j \in DOMAIN t :
           /\ t[j] \in Call
           /\ u[j].do = t[j].do /\ u[j].role = t[j].role
           /\ u[j].on = IF j = i THEN t[j].on \ {n} ELSE t[j].on
      /\ worker'.op = worker.op
      /\ worker # None /\ t # None /\ worker' # None /\ u # None
      /\ DOMAIN t = 1..Len(t) /\ Len(t) \in Nat
  <2>1. t \in Seq(Call)
    BY TurnFacts DEF CallMade
  <2>2. DOMAIN t = 1..Len(t) /\ Len(t) \in Nat
    BY <2>1
  <2> QED BY <2>2, ZenonT(60) DEF CallMade, HasProgram
<1>2. Ordered(worker.op, t) /\ \A j \in DOMAIN t : t[j].on \subseteq nodes
  BY <1>1 DEF ProgramOK, HasProgram
<1>3. Ordered(worker'.op, u)
  <2>1. \A j, k \in DOMAIN t : Before(worker.op, u[j], u[k]) <=> Before(worker.op, t[j], t[k])
    <3>1. \A j \in DOMAIN t : u[j].do = t[j].do /\ u[j].role = t[j].role
      BY <1>1
    <3> HIDE DEF t, u
    <3> QED BY <3>1 DEF Before
  <2>2. /\ \A j \in DOMAIN t :
              /\ t[j].do \in {"create", "update", "stop"} <=> t[j].role # None
              /\ worker.op = "stop" => t[j].do = "stop"
        /\ \A j, k \in DOMAIN t :
              /\ t[j].do = t[k].do /\ t[j].role = t[k].role => j = k
              /\ Before(worker.op, t[j], t[k]) => j < k
    BY <1>2 DEF Ordered
  <2>3. /\ DOMAIN u = DOMAIN t /\ worker'.op = worker.op
        /\ \A j \in DOMAIN t : u[j].do = t[j].do /\ u[j].role = t[j].role
    BY <1>1
  <2> HIDE DEF t, u
  <2>4. /\ \A j \in DOMAIN u :
              /\ u[j].do \in {"create", "update", "stop"} <=> u[j].role # None
              /\ worker'.op = "stop" => u[j].do = "stop"
        /\ \A j, k \in DOMAIN u :
              u[j].do = u[k].do /\ u[j].role = u[k].role => j = k
    BY <2>2, <2>3
  <2>5. \A j, k \in DOMAIN u : Before(worker'.op, u[j], u[k]) => j < k
    BY <2>1, <2>2, <2>3
  <2> QED BY <2>4, <2>5 DEF Ordered
<1>4. \A j \in DOMAIN u : u[j].on \subseteq nodes
  BY <1>1, <1>2
<1>5. /\ n \in nodes
      /\ c.do \in {"scalaris", "create", "update", "stop", "code"}
      /\ c.do \in {"create", "update", "stop"} => c.role \in Role
      /\ c.do \in {"scalaris", "code"} => c.role = None
      /\ worker.op = "stop" => c.do = "stop"
  BY <1>1, <1>2 DEF Ordered, Call
<1>6. Pend(c.do, c.role, n)
  BY <1>1 DEF Pend, PendIn
<1>7. \A do, r, m : Pend(do, r, m) <=>
                      \E j \in DOMAIN t : t[j].do = do /\ t[j].role = r /\ m \in t[j].on
  BY <1>1 DEF Pend, PendIn
<1>8. \A do, r, m : PendIn(worker', do, r, m) <=>
                      \E j \in DOMAIN t : t[j].do = do /\ t[j].role = r /\ m \in u[j].on
  BY <1>1 DEF PendIn
<1>9. \A j, k \in DOMAIN t : t[j].do = t[k].do /\ t[j].role = t[k].role => j = k
  BY <1>2 DEF Ordered
<1>10. ASSUME NEW do, NEW r, NEW m
       PROVE  PendIn(worker', do, r, m) <=>
                Pend(do, r, m) /\ ~(do = c.do /\ r = c.role /\ m = n)
  <2>1. ASSUME PendIn(worker', do, r, m)
        PROVE  Pend(do, r, m) /\ ~(do = c.do /\ r = c.role /\ m = n)
    <3>1. PICK j \in DOMAIN t : t[j].do = do /\ t[j].role = r /\ m \in u[j].on
      BY <2>1, <1>8
    <3>2. m \in t[j].on /\ (j = i => m # n)
      BY <3>1, <1>1
    <3>3. Pend(do, r, m)
      BY <3>1, <3>2, <1>7
    <3>4. do = c.do /\ r = c.role => j = i
      BY <3>1, <1>1, <1>9
    <3> QED BY <3>2, <3>3, <3>4
  <2>2. ASSUME Pend(do, r, m), ~(do = c.do /\ r = c.role /\ m = n)
        PROVE  PendIn(worker', do, r, m)
    <3>1. PICK j \in DOMAIN t : t[j].do = do /\ t[j].role = r /\ m \in t[j].on
      BY <2>2, <1>7
    <3>2. m \in u[j].on
      BY <3>1, <2>2, <1>1
    <3> QED BY <3>1, <3>2, <1>8
  <2> QED BY <2>1, <2>2
<1>11. \A j \in DOMAIN t : j < i => t[j].on = {}
  BY <1>1 DEF Turn
<1>12. \A j \in DOMAIN t : Before(worker.op, t[j], c) => t[j].on = {}
  BY <1>1, <1>2, <1>11 DEF Ordered
<1>13. c.do \in {"create", "update"} /\ c.role = "proxy" =>
         \A m : ~Pend("create", "web", m) /\ ~Pend("create", "backend", m)
  BY <1>7, <1>12 DEF Before
<1>14. worker.op # "stop" /\ c.do = "stop" =>
         \A m : ~Pend("update", "proxy", m) /\ \A r : ~Pend("create", r, m)
  BY <1>7, <1>12 DEF Before
<1>15. worker.op = "stop" /\ c.role # "proxy" => \A m : ~Pend("stop", "proxy", m)
  BY <1>5, <1>7, <1>12 DEF Before
<1> QED BY <1>3, <1>4, <1>5, <1>6, <1>10, <1>13, <1>14, <1>15

-----------------------------------------------------------------------------
(* What holds whatever fails. *)

\* A new service has no worker, no nodes and no request.
LEMMA AlwaysInit == Init => Always
<1> SUFFICES ASSUME Init PROVE Always
  OBVIOUS
<1>1. TypeOK
  BY TypeInit
<1> QED BY <1>1 DEF Init, Always, WorkerFits, Hook, ProgramOK, HasProgram, Outside, NoNodes,
     RequestOK

\* A request that starts a worker.
LEMMA AlwaysStart ==
    ASSUME Always, TypeOK',
           NEW op \in {"start", "add", "remove", "stop", "configure"}, NEW st \in State,
           NEW want \in Wanted, NEW v \in Version \cup {None}, NEW php \in BOOLEAN,
           Start(op, st, want, v, php), st = StateOf(op),
           op = "start" => state \in {"INIT", "STOPPED"},
           op = "remove" => Enough(want)
    PROVE  Always'
<1>1. /\ worker' \in Worker /\ worker' # None /\ worker'.todo = None
      /\ worker'.op = op /\ worker'.want = want /\ state' = st
      /\ request = None
      /\ UNCHANGED <<config, agent, request, history>>
  BY StartFacts DEF Always
<1>2. WorkerFits'
  BY <1>1 DEF WorkerFits, Hook, Enough, config
<1>3. ProgramOK' /\ RequestOK'
  BY <1>1 DEF ProgramOK, HasProgram, RequestOK
<1>4. Outside'
  BY <1>1 DEF Always, Outside, config, agent
<1>5. NoNodes'
  BY <1>1 DEF Always, NoNodes, Hook, StateOf, config
<1> QED BY <1>2, <1>3, <1>4, <1>5 DEF Always

\* The handlers and the calls of the server thread keep it.
LEMMA AlwaysHandle == Always /\ Handle => Always'
<1> SUFFICES ASSUME Always, Handle PROVE Always'
  OBVIOUS
<1>1. TypeOK'
  BY TypeHandle DEF Always
<1>2. {"PROLOGUE", "EPILOGUE", "ADAPTING"} \subseteq State /\ Nothing \in Wanted
      /\ Wants \subseteq Wanted /\ None \in Version \cup {None}
  BY WebAssumption DEF State, Nothing, Wanted, Wants
<1>3. CASE start_service \/ stop_service
  BY <1>1, <1>2, <1>3, AlwaysStart DEF start_service, stop_service, StateOf
<1>4. CASE \E w \in Wants : add_nodes(w) \/ remove_nodes(w)
  BY <1>1, <1>2, <1>4, AlwaysStart DEF add_nodes, remove_nodes, StateOf
<1>5. CASE \E v \in Version \cup {None}, php \in BOOLEAN : update_php_configuration(v, php)
  <2> PICK v \in Version \cup {None}, php \in BOOLEAN : update_php_configuration(v, php)
    BY <1>5
  <2>1. CASE Start("configure", "ADAPTING", Nothing, v, php)
    BY <2>1, <1>1, <1>2, AlwaysStart DEF StateOf
  <2>2. CASE UNCHANGED <<state, count, roles, nodes, up, cdn, agent, worker,
                         request, history>>
    BY <2>2, <1>1 DEF Always, WorkerFits, Hook, Enough, ProgramOK, HasProgram, Outside,
       NoNodes, RequestOK, TuplesNow, With, Having, agent, history
  <2> QED BY <2>1, <2>2 DEF update_php_configuration
<1>6. ASSUME NEW c \in BOOLEAN, UpdateProxies(c), raced' = raced \/ raced' \in BOOLEAN,
             ~raced' => ~raced /\ worker = None
      PROVE  Always'
  <2>1. /\ request' = [route |-> TuplesNow, cdn |-> c, on |-> With("proxy")]
        /\ UNCHANGED <<state, count, roles, nodes, up, current, daemons, worker>>
    BY <1>6 DEF UpdateProxies, agent
  <2>2. WorkerFits' /\ ProgramOK' /\ Outside' /\ NoNodes'
    BY <2>1 DEF Always, WorkerFits, Hook, Enough, ProgramOK, HasProgram, Outside, NoNodes
  <2>3. RequestOK'
    BY <2>1, <1>6 DEF RequestOK, TuplesNow, With, Having
  <2> QED BY <1>1, <2>2, <2>3 DEF Always
<1>7. CASE update_nodes_weight
  <2>1. worker = None
    BY <1>7 DEF update_nodes_weight, Always, WorkerFits, StateOf
  <2> QED BY <1>6, <1>7, <2>1 DEF update_nodes_weight, Always, TypeOK
<1>8. CASE \E a \in BOOLEAN : cdn_enable(a)
  BY <1>6, <1>8 DEF cdn_enable, Always, TypeOK
<1>9. CASE ServerCall
  <2>1. /\ UNCHANGED <<config, daemons, code, worker, history>> /\ request # None
        /\ state' \in {state, "ERROR"}
    BY <1>9 DEF ServerCall, CallError
  <2>2. WorkerFits' /\ ProgramOK' /\ Outside' /\ NoNodes'
    BY <2>1 DEF Always, WorkerFits, Hook, Enough, ProgramOK, HasProgram, Outside, NoNodes,
       config
  <2>3. request' = None \/ (request'.route = request.route /\ request'.on \subseteq request.on)
    <3>1. request \in [route : Route, cdn : BOOLEAN, on : SUBSET Node]
      BY <2>1 DEF Always, TypeOK
    <3> QED BY <1>9, <3>1 DEF ServerCall
  <2>4. RequestOK'
    BY <2>1, <2>3 DEF Always, RequestOK, TuplesNow, With, Having, config, history
  <2> QED BY <1>1, <2>2, <2>4 DEF Always
<1> QED BY <1>3, <1>4, <1>5, <1>7, <1>8, <1>9 DEF Handle

\* The hooks, the calls and the end of a worker keep it.
LEMMA AlwaysWork == Always /\ Work => Always'
<1> SUFFICES ASSUME Always, Work PROVE Always'
  OBVIOUS
<1>1. TypeOK' /\ TypeOK /\ WorkerFits /\ ProgramOK /\ Outside /\ NoNodes
  BY TypeWork DEF Always
<1>2. /\ worker # None /\ UNCHANGED <<request, raced>>
      /\ state \in {"PROLOGUE", "ADAPTING", "EPILOGUE", "ERROR"}
  BY <1>1 DEF Work, NodesFailed, on_start, on_add_nodes, on_remove_nodes, on_stop,
     do_update_configuration, AgentCall, CallFails, Finish, Hook, HasProgram, history,
     WorkerFits, StateOf
<1>3. RequestOK'
  BY <1>2 DEF Always, RequestOK
\* A worker that ends in a state of a service that runs or did not get there.
<1>4. ASSUME worker' = None, UNCHANGED <<roles, nodes, daemons>>,
             state' \in {state, "RUNNING", "ERROR"}
      PROVE  Always'
  BY <1>1, <1>2, <1>3, <1>4 DEF Always, WorkerFits, Hook, ProgramOK, HasProgram, Outside, NoNodes
\* A worker that goes on.
<1>5. ASSUME worker' # None, worker'.todo # None, worker'.op = worker.op, state' = state,
             Ordered(worker'.op, worker'.todo),
             \A i \in DOMAIN worker'.todo : worker'.todo[i].on \subseteq nodes',
             Outside'
      PROVE  Always'
  <2>1. WorkerFits' /\ NoNodes'
    BY <1>1, <1>2, <1>5 DEF WorkerFits, Hook, NoNodes
  <2>2. ProgramOK'
    BY <1>5 DEF ProgramOK
  <2> QED BY <1>1, <1>3, <1>5, <2>1, <2>2 DEF Always
<1>6. CASE NodesFailed
  BY <1>6, <1>4 DEF NodesFailed, Die, agent
<1>7. CASE on_start
  <2> DEFINE b == Having("backend", nodes', roles')
             w == Having("web", nodes', roles')
             p == Having("proxy", nodes', roles')
  <2>1. /\ worker' # None /\ worker'.op = "start" /\ worker'.todo # None
        /\ worker'.todo = <<Do("scalaris", None, nodes'), Do("create", "backend", b),
                            Do("code", None, nodes'), Do("create", "web", w),
                            Do("create", "proxy", p)>>
        /\ UNCHANGED <<state, daemons>>
    BY <1>1, <1>7, StartHookFacts DEF agent
  <2>2. b \subseteq nodes' /\ w \subseteq nodes' /\ p \subseteq nodes'
    BY DEF Having
  <2> HIDE DEF b, w, p
  <2>3. /\ Ordered(worker'.op, worker'.todo)
        /\ \A i \in DOMAIN worker'.todo : worker'.todo[i].on \in {nodes', b, w, p}
    BY <2>1, StartProgram
  <2>4. worker.op = "start" /\ nodes = {}
    BY <1>1, <1>7 DEF on_start, Hook, NoNodes
  <2>5. \A n \in Node \ nodes' : roles'[n] = roles[n]
    <3> DEFINE q == StartingNodes(StartingCounts(count))
    <3>1. /\ q \in Seq(SUBSET Role)
          /\ \E came \in (SUBSET (1..Len(q))) \ {{}} : \E f \in Placed(q, came) :
               roles' = RolesPlaced(q, f) /\ nodes' = {f[i] : i \in came}
      BY <1>1, <1>7, StartHookFacts
    <3> HIDE DEF q
    <3> QED BY <1>1, <3>1, PlacedFacts
  <2>6. Outside'
    BY <1>1, <2>1, <2>4, <2>5 DEF Outside
  <2> QED BY <1>5, <2>1, <2>2, <2>3, <2>4, <2>6
<1>8. CASE on_add_nodes
  <2>1. UNCHANGED <<state, daemons>> /\ worker.op = "add"
    BY <1>8 DEF on_add_nodes, agent, Hook
  <2>2. CASE AddDies
    BY <2>1, <2>2, <1>4 DEF AddDies
  <2>3. ASSUME NEW new, NEW b, NEW w, NEW p, NEW killB, NEW killW,
               AddGoesOn(new, b, w, p, killB, killW)
        PROVE  Always'
    <3> DEFINE told == IF w \cup b = {} THEN {} ELSE With("proxy")
    <3>1. /\ worker' # None /\ worker'.op = "add" /\ worker'.todo # None
          /\ worker'.todo = <<Do("scalaris", None, new),
                Do("create", "backend", b), Do("code", None, new),
                Do("create", "web", w), Do("create", "proxy", p), Do("update", "proxy", told),
                Do("stop", "backend", killB), Do("stop", "web", killW)>>
      BY <2>3 DEF AddGoesOn, AddCalls
    <3>2. \A r : With(r) \subseteq nodes
      BY DEF With, Having
    <3>3. /\ new \subseteq nodes' /\ b \subseteq new /\ w \subseteq new /\ p \subseteq new
          /\ killB \subseteq nodes' /\ killW \subseteq nodes' /\ told \subseteq nodes'
      BY <2>3, <3>2 DEF AddGoesOn
    <3> HIDE DEF told
    <3>4. /\ Ordered(worker'.op, worker'.todo)
          /\ \A i \in DOMAIN worker'.todo :
               worker'.todo[i].on \in {new, b, w, p, killB, killW, told}
      BY <3>1, AddProgram
    <3>5. Outside'
      <4> SUFFICES ASSUME NEW n \in Node, n \notin nodes' PROVE roles'[n] = {} /\ daemons'[n] = {}
        BY DEF Outside
      <4>1. n \notin nodes /\ n \notin new /\ roles[n] = {} /\ daemons[n] = {}
        BY <2>3, <1>1 DEF AddGoesOn, Outside
      <4>2. "proxy" \notin roles'[n] /\ "web" \notin roles'[n] /\ "backend" \notin roles'[n]
        BY <2>3, <3>3, <4>1 DEF AddGoesOn
      <4>3. roles'[n] \subseteq Role
        BY <2>3 DEF AddGoesOn
      <4> QED BY <2>1, <4>1, <4>2, <4>3 DEF Role
    <3>6. \A i \in DOMAIN worker'.todo : worker'.todo[i].on \subseteq nodes'
      BY <3>3, <3>4
    <3> QED BY <1>5, <2>1, <3>1, <3>4, <3>5, <3>6
  <2> QED BY <1>1, <1>8, <2>2, <2>3, AddHookFacts
<1>9. CASE on_remove_nodes
  <2>1. UNCHANGED <<state, nodes, daemons>>
    BY <1>9 DEF on_remove_nodes, agent
  <2>2. PICK killW, killB, killP, pack, packW, packB :
           RemoveGoesOn(killW, killB, killP, pack, packW, packB)
    BY <1>1, <1>9, RemoveHookFacts
  <2> DEFINE left == Having("proxy", nodes, roles')
             told == IF killW \cup killB = {} THEN {} ELSE left
  <2>3. /\ worker' # None /\ worker'.op = "remove" /\ worker'.todo # None
        /\ worker.op = "remove"
        /\ worker'.todo = <<Do("create", "backend", packB), Do("code", None, packB),
                            Do("create", "web", packW), Do("update", "proxy", told),
                            Do("stop", "backend", killB), Do("stop", "web", killW),
                            Do("stop", "proxy", killP)>>
    BY <2>2 DEF RemoveGoesOn, RemoveCalls
  <2>4. /\ killW \subseteq nodes /\ killB \subseteq nodes /\ killP \subseteq nodes
        /\ packW \subseteq nodes /\ packB \subseteq nodes /\ told \subseteq nodes
        /\ pack \in nodes
    BY <2>2 DEF RemoveGoesOn, With, Having
  <2> HIDE DEF told, left
  <2>5. /\ Ordered(worker'.op, worker'.todo)
        /\ \A i \in DOMAIN worker'.todo :
             worker'.todo[i].on \in {killW, killB, killP, packW, packB, told}
    BY <2>3, RemoveProgram
  <2>6. \A i \in DOMAIN worker'.todo : worker'.todo[i].on \subseteq nodes'
    BY <2>1, <2>4, <2>5
  <2>7. Outside'
    <3> SUFFICES ASSUME NEW n \in Node, n \notin nodes' PROVE roles'[n] = {} /\ daemons'[n] = {}
      BY DEF Outside
    <3>1. n \notin nodes /\ roles[n] = {} /\ daemons[n] = {} /\ n \notin packW /\ n \notin packB
      BY <2>1, <2>4, <1>1 DEF Outside
    <3>2. /\ "proxy" \notin roles'[n] /\ "web" \notin roles'[n] /\ "backend" \notin roles'[n]
          /\ roles'[n] \subseteq Role
      BY <2>2, <3>1 DEF RemoveGoesOn
    <3> QED BY <2>1, <3>1, <3>2 DEF Role
  <2> QED BY <1>5, <2>1, <2>3, <2>5, <2>6, <2>7
<1>10. CASE on_stop
  <2>1. /\ worker' # None /\ worker'.op = "stop" /\ worker'.todo # None
        /\ worker'.todo = <<Do("stop", "proxy", With("proxy")), Do("stop", "web", With("web")),
                            Do("stop", "backend", With("backend"))>>
        /\ UNCHANGED <<state, nodes, roles, daemons>>
    BY <1>1, <1>10, StopHookFacts DEF StopCalls, config, agent
  <2>2. \A r : With(r) \subseteq nodes
    BY DEF With, Having
  <2>3. /\ Ordered(worker'.op, worker'.todo)
        /\ \A i \in DOMAIN worker'.todo :
             worker'.todo[i].on \in {With("proxy"), With("web"), With("backend")}
    BY <2>1, StopProgram, ZenonT(60)
  <2>4. worker.op = "stop"
    BY <1>10 DEF on_stop, Hook
  <2>5. Outside'
    BY <1>1, <2>1 DEF Outside
  <2> QED BY <1>5, <2>1, <2>2, <2>3, <2>4, <2>5
<1>11. CASE do_update_configuration
  <2>1. PICK php \in SUBSET With("backend"), all \in SUBSET nodes,
             w \in SUBSET With("web"), p \in SUBSET With("proxy") :
                worker'.todo = <<Do("update", "backend", php), Do("code", None, all),
                                 Do("update", "web", w), Do("update", "proxy", p)>>
    BY <1>1, <1>11, ConfigureHookFacts
  <2>2. /\ worker' # None /\ worker'.op = "configure" /\ worker'.todo # None
        /\ UNCHANGED <<state, nodes, roles, daemons>>
    BY <1>1, <1>11, ConfigureHookFacts DEF agent
  <2>3. /\ php \subseteq nodes /\ all \subseteq nodes /\ w \subseteq nodes /\ p \subseteq nodes
    BY DEF With, Having
  <2>4. /\ Ordered(worker'.op, worker'.todo)
        /\ \A i \in DOMAIN worker'.todo : worker'.todo[i].on \in {php, all, w, p}
    BY <2>1, <2>2, ConfigureProgram
  <2>5. worker.op = "configure"
    BY <1>11 DEF do_update_configuration, Hook
  <2>6. Outside'
    BY <1>1, <2>2 DEF Outside
  <2> QED BY <1>5, <2>2, <2>3, <2>4, <2>5, <2>6
<1>12. CASE AgentCall
  <2>1. PICK i, n, c : CallMade(i, n, c)
    BY <1>1, <1>12, AgentCallFacts
  <2>2. /\ worker' # None /\ worker'.op = worker.op /\ worker'.todo # None
        /\ UNCHANGED <<state, nodes, roles>>
        /\ \A m \in Node \ {n} : daemons'[m] = daemons[m]
    BY <2>1 DEF CallMade, config
  <2>3. /\ Ordered(worker'.op, worker'.todo)
        /\ \A j \in DOMAIN worker'.todo : worker'.todo[j].on \subseteq nodes
        /\ n \in nodes
    BY <1>1, <2>1, CallFacts
  <2>4. Outside'
    BY <1>1, <2>2, <2>3 DEF Outside
  <2> QED BY <1>5, <2>2, <2>3, <2>4
<1>13. CASE CallFails
  BY <1>1, <1>4, <1>13, CallFailsFacts DEF config, agent
<1>14. CASE Finish
  <2>1. /\ worker' = None
        /\ nodes' = nodes \ Gone
        /\ roles' = [n \in Node |-> IF n \in Gone THEN {} ELSE roles[n]]
        /\ daemons' = [n \in Node |-> IF n \in Gone THEN {} ELSE daemons[n]]
        /\ state' = IF worker.op = "stop" THEN "STOPPED" ELSE "RUNNING"
    BY <1>1, <1>14, FinishFacts
  <2>2. Outside'
    BY <1>1, <2>1 DEF Outside
  <2>3. NoNodes'
    BY <2>1 DEF NoNodes, Hook, Gone
  <2>4. WorkerFits' /\ ProgramOK'
    BY <2>1 DEF WorkerFits, Hook, ProgramOK, HasProgram
  <2> QED BY <1>1, <1>3, <2>2, <2>3, <2>4 DEF Always
<1> QED BY <1>6, <1>7, <1>8, <1>9, <1>10, <1>11, <1>12, <1>13, <1>14 DEF Work

\* Every step keeps it.
LEMMA AlwaysStep == Always /\ [Next]_vars => Always'
<1>1. ASSUME Always, UNCHANGED vars PROVE Always'
  BY <1>1 DEF Always, TypeOK, WorkerFits, Hook, Enough, ProgramOK, HasProgram, Outside,
     NoNodes, RequestOK, TuplesNow, With, Having, vars, config, agent, history
<1> QED BY <1>1, AlwaysHandle, AlwaysWork DEF Next

-----------------------------------------------------------------------------
(* A service without a program of calls. *)

\* The healthy service whose worker has not begun or is not there.
Quiet ==
    /\ AtRest
    /\ Shape
    /\ nodes # {} => Counted
    /\ \A n \in nodes : daemons[n] = roles[n] /\ code[n] = current
    /\ ~raced => \A n \in With("proxy") : routes[n] = TuplesNow

\* Who serves a role is a node of the service.
LEMMA ServingFacts ==
    ASSUME TypeOK, Outside
    PROVE  \A r : /\ Serving(r) \subseteq nodes
                  /\ \A n \in nodes : n \in Serving(r) <=> r \in daemons[n]
                  /\ \A n \in nodes : n \in With(r) <=> r \in roles[n]
                  /\ With(r) \subseteq nodes
                  /\ r \notin Role => Serving(r) = {}
  BY DEF Serving, With, Having, TypeOK, Outside

\* Without a program, healthy is quiet.
LEMMA QuietHealthy == TypeOK /\ Outside /\ ~HasProgram => (Healthy <=> (Sound => Quiet))
<1> SUFFICES ASSUME TypeOK, Outside, ~HasProgram, Sound PROVE Healthy <=> Quiet
  BY DEF Healthy
<1>1. \A do, r, n : ~Pend(do, r, n)
  BY NothingPending DEF HasProgram, Pend
<1>2. CountsOK <=> (nodes # {} => Counted)
  BY DEF CountsOK
<1>3. ~Stopping /\ StoppingOK
  BY DEF Stopping, StoppingOK
<1>4. DaemonsOK <=> \A n \in nodes : daemons[n] = roles[n]
  <2>1. DaemonsOK <=> \A n \in nodes, r \in Role : r \in daemons[n] <=> r \in roles[n]
    BY <1>1, <1>3 DEF DaemonsOK
  <2>2. \A n \in nodes : daemons[n] \subseteq Role /\ roles[n] \subseteq Role
    BY DEF TypeOK
  <2>3. \A n \in nodes : (\A r \in Role : r \in daemons[n] <=> r \in roles[n]) <=>
                           daemons[n] = roles[n]
    BY <2>2
  <2> QED BY <2>1, <2>3
<1>5. CodeOK <=> \A n \in nodes : code[n] = current
  BY <1>1, <1>3 DEF CodeOK
<1>6. DaemonsOK => \A r : Serving(r) = With(r)
  BY <1>4, ServingFacts
<1>7. DaemonsOK => (RoutesOK <=> (~raced => \A n \in With("proxy") : routes[n] = TuplesNow))
  BY <1>1, <1>6 DEF RoutesOK
<1>8. Shape /\ DaemonsOK => AlwaysServed
  BY <1>6 DEF Shape, Provisioned, AlwaysServed
<1> QED BY <1>2, <1>3, <1>4, <1>5, <1>7, <1>8 DEF Healthy, Quiet

\* The same of the next state.
LEMMA QuietHealthyNext ==
    (TypeOK /\ Outside /\ ~HasProgram => (Healthy <=> (Sound => Quiet)))'
<1>1. TypeOK /\ Outside /\ ~HasProgram => (Healthy <=> (Sound => Quiet))
  BY QuietHealthy
<1> QED BY <1>1, PTL

\* Nothing that the health is about changes but the lists of the proxies.
LEMMA HealthyFrame ==
    ASSUME Healthy,
           UNCHANGED <<count, roles, nodes, up, current, daemons, code, worker, failed,
                       misplaced>>,
           state' \in {state, "ERROR"},
           ~raced' => ~raced, Sound /\ RoutesOK => RoutesOK'
    PROVE  Healthy'
<1> SUFFICES ASSUME Sound' PROVE (AtRest /\ Shape /\ CountsOK /\ DaemonsOK /\ StoppingOK
                                    /\ CodeOK /\ RoutesOK /\ AlwaysServed)'
  BY DEF Healthy
<1>1. Sound
  BY DEF Sound
<1>2. AtRest /\ Shape /\ CountsOK /\ DaemonsOK /\ StoppingOK /\ CodeOK /\ RoutesOK
      /\ AlwaysServed
  BY <1>1 DEF Healthy
<1>3. AtRest' /\ Shape' /\ CountsOK'
  BY <1>2 DEF AtRest, Shape, Hook, Stopping, Provisioned, CountsOK, Counted, With, Having,
     HasProgram
<1>4. DaemonsOK' /\ StoppingOK' /\ CodeOK'
  BY <1>2 DEF DaemonsOK, StoppingOK, CodeOK, Stopping, HasProgram, Pend
<1>5. AlwaysServed'
  BY <1>1, <1>2 DEF AlwaysServed, Serving, Sound
<1> QED BY <1>1, <1>2, <1>3, <1>4, <1>5

\* A stand-alone or a packed role: the count tells which.
LEMMA CountTells ==
    ASSUME TypeOK, Provisioned, Counted, NEW r \in {"web", "backend"}
    PROVE  /\ count[r] = 0 => \E a \in With("proxy") : With(r) = {a}
           /\ count[r] # 0 => /\ With(r) \cap With("proxy") = {}
                              /\ Cardinality(With(r)) = count[r]
<1>1. /\ IsFiniteSet(With(r) \ With("proxy"))
      /\ Cardinality(With(r) \ With("proxy")) \in Nat
      /\ count[r] = Cardinality(With(r) \ With("proxy"))
      /\ With(r) # {}
  <2>1. With(r) \ With("proxy") \in SUBSET With(r) /\ r \in Role
    BY DEF Role
  <2> QED BY <2>1, WithFacts DEF Counted, Provisioned
<1>2. count[r] = 0 <=> With(r) \ With("proxy") = {}
  BY <1>1, FS_EmptySet
<1>3. \A a \in With(r) \cap With("proxy") : With(r) = {a}
  BY DEF Provisioned
<1>4. CASE count[r] = 0
  BY <1>1, <1>2, <1>3, <1>4
<1>5. CASE count[r] # 0
  <2>1. With(r) \cap With("proxy") = {}
    BY <1>2, <1>3, <1>5
  <2>2. With(r) \ With("proxy") = With(r)
    BY <2>1
  <2> QED BY <1>1, <1>5, <2>1, <2>2
<1> QED BY <1>4, <1>5

-----------------------------------------------------------------------------
(* What holds while nothing has failed. *)

\* A new service is healthy.
LEMMA HealthyInit == Init => Healthy
<1> SUFFICES ASSUME Init PROVE Healthy
  OBVIOUS
<1>1. TypeOK /\ Outside /\ ~HasProgram
  BY AlwaysInit DEF Always, Init, HasProgram
<1>2. Quiet
  BY DEF Init, Quiet, AtRest, Shape, Hook, HasProgram, With, Having
<1> QED BY <1>1, <1>2, QuietHealthy

\* A quiet service stays quiet when only its worker, its state and what the
\* server thread does change.
LEMMA QuietFrame ==
    ASSUME Quiet, UNCHANGED <<count, roles, nodes, current, daemons, routes, code, raced>>,
           AtRest', ~HasProgram',
           nodes = {} => /\ state' \in {"INIT", "STOPPED", "PROLOGUE", "EPILOGUE", "ERROR"}
                         /\ worker' # None => worker'.op \in {"start", "stop"}
    PROVE  Quiet'
  BY DEF Quiet, Shape, Provisioned, Counted, TuplesNow, With, Having, Hook, HasProgram

\* A request that starts a worker changes nothing of the service.
LEMMA HealthyStart ==
    ASSUME Always, Always', Healthy,
           NEW op \in {"start", "add", "remove", "stop", "configure"}, NEW st \in State,
           NEW want \in Wanted, NEW v \in Version \cup {None}, NEW php \in BOOLEAN,
           Start(op, st, want, v, php), st = StateOf(op),
           op \in {"start", "stop"} \/ state = "RUNNING"
    PROVE  Healthy'
<1>1. /\ worker' # None /\ worker'.todo = None /\ worker'.op = op /\ state' = st
      /\ worker = None
      /\ UNCHANGED <<config, agent, request, history>>
  BY StartFacts DEF Always
<1>2. ~HasProgram /\ ~HasProgram' /\ TypeOK /\ Outside
  BY <1>1 DEF HasProgram, Always
<1>3. ASSUME Sound' PROVE Quiet'
  <2>1. Quiet
    BY <1>1, <1>2, <1>3, QuietHealthy DEF Sound, history
  <2>2. AtRest'
    BY <1>1 DEF AtRest
  <2>3. nodes = {} => /\ state' \in {"INIT", "STOPPED", "PROLOGUE", "EPILOGUE", "ERROR"}
                      /\ worker' # None => worker'.op \in {"start", "stop"}
    BY <1>1, <2>1 DEF Quiet, Shape, Hook, StateOf
  <2> QED BY <1>1, <1>2, <2>1, <2>2, <2>3, QuietFrame DEF config, agent, history
<1>4. TypeOK' /\ Outside'
  BY DEF Always
<1> QED BY <1>2, <1>3, <1>4, QuietHealthyNext

\* The handlers and the calls of the server thread keep the health.
LEMMA HealthyHandle == Always /\ Always' /\ Healthy /\ Handle => Healthy'
<1> SUFFICES ASSUME Always, Always', Healthy, Handle PROVE Healthy'
  OBVIOUS
<1>1. {"PROLOGUE", "EPILOGUE", "ADAPTING"} \subseteq State /\ Nothing \in Wanted
      /\ Wants \subseteq Wanted /\ None \in Version \cup {None}
  BY WebAssumption DEF State, Nothing, Wanted, Wants
<1>2. CASE start_service \/ stop_service
  BY <1>1, <1>2, HealthyStart DEF start_service, stop_service, StateOf
<1>3. CASE \E w \in Wants : add_nodes(w) \/ remove_nodes(w)
  BY <1>1, <1>3, HealthyStart DEF add_nodes, remove_nodes, StateOf
<1>4. CASE \E v \in Version \cup {None}, php \in BOOLEAN : update_php_configuration(v, php)
  <2> PICK v \in Version \cup {None}, php \in BOOLEAN : update_php_configuration(v, php)
    BY <1>4
  <2>1. CASE Start("configure", "ADAPTING", Nothing, v, php) /\ state = "RUNNING"
    BY <2>1, <1>1, HealthyStart DEF StateOf
  <2>2. CASE /\ state \in {"INIT", "STOPPED"} /\ worker = None
             /\ UNCHANGED <<state, count, roles, nodes, up, cdn, agent, worker,
                            request, history>>
    <3>1. nodes = {}
      BY <2>2 DEF Always, NoNodes
    <3>2. ~HasProgram /\ ~HasProgram' /\ TypeOK /\ Outside /\ TypeOK' /\ Outside'
      BY <2>2 DEF HasProgram, Always
    <3>3. ASSUME Sound' PROVE Quiet'
      <4>1. Quiet
        BY <2>2, <3>2, <3>3, QuietHealthy DEF Sound, history
      <4> QED BY <2>2, <3>1, <3>2, <4>1 DEF Quiet, AtRest, Shape, Hook, With, Having
    <3> QED BY <3>2, <3>3, QuietHealthyNext
  <2> QED BY <2>1, <2>2 DEF update_php_configuration
<1>5. ASSUME NEW c, UpdateProxies(c), ~raced' => ~raced PROVE Healthy'
  <2>1. UNCHANGED <<state, count, roles, nodes, up, current, agent, worker, failed, misplaced>>
    BY <1>5 DEF UpdateProxies
  <2>2. Sound /\ RoutesOK => RoutesOK'
    BY <1>5, <2>1 DEF RoutesOK, Serving, With, Having, TuplesNow, Pend, Alive, agent
  <2> QED BY <1>5, <2>1, <2>2, HealthyFrame DEF agent
<1>6. CASE update_nodes_weight
  BY <1>5, <1>6 DEF update_nodes_weight
<1>7. CASE \E a \in BOOLEAN : cdn_enable(a)
  BY <1>5, <1>7 DEF cdn_enable
<1>8. CASE ServerCall
  <2>1. /\ request # None /\ UNCHANGED <<config, daemons, code, worker, history>>
        /\ state' \in {state, "ERROR"}
    BY <1>8 DEF ServerCall, CallError
  <2>2. ~raced => worker = None /\ request.route = TuplesNow
    BY <2>1 DEF Always, RequestOK
  <2>3. ASSUME Sound, RoutesOK, ~raced PROVE RoutesOK'
    <3>1. \A do, r, n : ~Pend(do, r, n)
      BY <2>2, <2>3, NothingPending DEF Pend
    <3>2. \A do, r, n : ~Pend(do, r, n)'
      BY <2>1, <3>1 DEF Pend
    <3>3. \A n \in Serving("proxy") \cap With("proxy") : routes[n] = TuplesNow
      BY <2>3, <3>1 DEF RoutesOK
    <3>4. routes \in [Node -> Route]
      BY DEF Always, TypeOK
    <3>5. \A n \in Node : routes'[n] = routes[n] \/ routes'[n] = TuplesNow
      BY <1>8, <2>2, <2>3, <3>4 DEF ServerCall
    <3>6. /\ Serving("proxy")' = Serving("proxy") /\ With("proxy")' = With("proxy")
          /\ TuplesNow' = TuplesNow
      BY <2>1 DEF Serving, With, Having, TuplesNow, config
    <3>7. With("proxy") \subseteq Node
      BY DEF Always, TypeOK, With, Having
    <3>8. \A n \in Serving("proxy")' \cap With("proxy")' : routes'[n] = TuplesNow'
      BY <3>3, <3>5, <3>6, <3>7
    <3> QED BY <3>2, <3>8 DEF RoutesOK
  <2>4. raced => RoutesOK'
    BY <2>1 DEF RoutesOK, history
  <2> QED BY <2>1, <2>3, <2>4, HealthyFrame DEF config, history
<1> QED BY <1>2, <1>3, <1>4, <1>6, <1>7, <1>8 DEF Handle

\* A role in an addition: b are the new nodes of role r, kill loses it.
LEMMA AddRole ==
    ASSUME TypeOK, Provisioned, Counted, NEW r \in {"web", "backend"},
           NEW b \in SUBSET (Node \ up)
    PROVE  /\ Unpacked(r, b) # {}
           /\ \A kill \in Unpacked(r, b) :
                /\ kill \subseteq With(r)
                /\ (With(r) \ kill) \cup b # {}
                /\ b = {} => kill = {}
                /\ \A p \in SUBSET (Node \ up) :
                     p \cap b = {} =>
                       \A a \in ((With(r) \ kill) \cup b) \cap (With("proxy") \cup p) :
                         (With(r) \ kill) \cup b = {a}
<1>1. /\ With(r) # {} /\ With(r) \subseteq up /\ With("proxy") \subseteq up
      /\ \A a \in With(r) \cap With("proxy") : With(r) = {a}
  BY DEF Provisioned, Role, With, Having, TypeOK
<1>2. CASE b = {}
  <2>1. Unpacked(r, b) = {{}}
    BY <1>2 DEF Unpacked
  <2> QED BY <2>1, <1>1, <1>2
<1>3. CASE b # {} /\ count[r] = 0
  <2>1. PICK x : With(r) = {x}
    BY <1>3, CountTells
  <2>2. Unpacked(r, b) = {{x}}
    BY <1>3, <2>1 DEF Unpacked
  <2> QED BY <2>1, <2>2, <1>1, <1>3
<1>4. CASE b # {} /\ count[r] # 0
  <2>1. With(r) \cap With("proxy") = {}
    BY <1>4, CountTells
  <2>2. Unpacked(r, b) = {{}}
    BY <1>4 DEF Unpacked
  <2> QED BY <2>1, <2>2, <1>1, <1>4
<1> QED BY <1>2, <1>3, <1>4

\* A role in a removal: kill loses role r, and pk may get it.
WellRemoved(r, kill, pk) ==
    /\ pk \cap With(r) = {}
    /\ (With(r) \ kill) \cup pk # {}
    /\ kill = {} => pk = {}
    /\ \A a \in ((With(r) \ kill) \cup pk) \cap With("proxy") :
         (With(r) \ kill) \cup pk = {a}

\* The packed proxy gets the role that loses its last stand-alone node.
LEMMA RemoveRole ==
    ASSUME TypeOK, Provisioned, Counted, NEW r \in {"web", "backend"},
           NEW k \in Nat, k <= count[r], NEW kill \in LastOf(r, k),
           NEW pack \in With("proxy"),
           NEW pk, pk = IF k > 0 /\ count[r] = k THEN {pack} ELSE {}
    PROVE  WellRemoved(r, kill, pk)
<1> SUFFICES /\ pk \cap With(r) = {}
             /\ (With(r) \ kill) \cup pk # {}
             /\ kill = {} => pk = {}
             /\ \A a \in ((With(r) \ kill) \cup pk) \cap With("proxy") :
                  (With(r) \ kill) \cup pk = {a}
  BY DEF WellRemoved
<1>1. /\ With(r) # {} /\ count[r] \in Nat
      /\ \A a \in With(r) \cap With("proxy") : With(r) = {a}
  BY DEF Provisioned, Role, TypeOK
<1>2. /\ kill \subseteq With(r)
      /\ k = 0 => kill = {}
      /\ k >= Cardinality(With(r)) => kill = With(r)
      /\ k < Cardinality(With(r)) => kill # With(r)
  BY LastOfFacts
<1>3. CASE k = 0
  BY <1>1, <1>2, <1>3
<1>4. CASE k # 0
  <2>1. With(r) \cap With("proxy") = {} /\ Cardinality(With(r)) = count[r]
    BY <1>1, <1>4, CountTells
  <2>2. CASE k = count[r]
    BY <1>1, <1>2, <1>4, <2>1, <2>2
  <2>3. CASE k # count[r]
    BY <1>1, <1>2, <1>4, <2>1, <2>3
  <2> QED BY <2>2, <2>3
<1> QED BY <1>3, <1>4

\* The machines of the places S.
Spots(f, S) == {f[i] : i \in S}

\* The machines of a stretch of places are as many as the places.
LEMMA StretchCardinality ==
    ASSUME NEW f, NEW a \in Nat, NEW b \in Nat,
           \A i, j \in a..b : f[i] = f[j] => i = j
    PROVE  Cardinality(Spots(f, a..b)) = IF a > b THEN 0 ELSE b - a + 1
<1> DEFINE T == {f[i] : i \in a..b}
           g == [i \in a..b |-> f[i]]
<1>1. g \in Bijection(a..b, T)
  <2>1. g \in [a..b -> T]
    OBVIOUS
  <2>2. \A i, j \in a..b : g[i] = g[j] => i = j
    OBVIOUS
  <2>3. \A t \in T : \E i \in a..b : g[i] = t
    OBVIOUS
  <2> HIDE DEF g, T
  <2> QED BY <2>1, <2>2, <2>3 DEF Bijection, Injection, Surjection, IsInjective
<1>2. ExistsBijection(a..b, T)
  BY <1>1 DEF ExistsBijection
<1>3. IsFiniteSet(a..b) /\ Cardinality(a..b) = IF a > b THEN 0 ELSE b - a + 1
  BY FS_Interval
<1> HIDE DEF T
<1>4. Cardinality(T) = Cardinality(a..b)
  BY <1>2, <1>3, FS_Bijection
<1> QED BY <1>3, <1>4 DEF T, Spots

\* The machines that get role r when all places of q are placed by f.
Placing(q, f, r) == Spots(f, {j \in 1..Len(q) : r \in q[j]})

WellPlaced(c, q, f) ==
    /\ \A r \in Role : Placing(q, f, r) # {}
    /\ \A r \in {"web", "backend"} :
         \A a \in Placing(q, f, r) \cap Placing(q, f, "proxy") : Placing(q, f, r) = {a}
    /\ c["proxy"] = Cardinality(Placing(q, f, "proxy"))
    /\ \A r \in {"web", "backend"} :
         c[r] = Cardinality(Placing(q, f, r) \ Placing(q, f, "proxy"))

\* A whole start that leaves out no backend: every role is there, packed on one
\* node or on nodes of its own, and the counts tell how many these are.
LEMMA StartRoles ==
    ASSUME NEW c \in Wanted, NEW q, q = StartingNodes(c),
           ~(c["proxy"] = 1 /\ (c["web"] = 0 \/ c["backend"] = 0)) => \A r \in Role : c[r] > 0,
           NEW f, \A i, j \in 1..Len(q) : f[i] = f[j] => i = j,
           \E i \in 1..Len(q) : "backend" \in q[i]
    PROVE  WellPlaced(c, q, f)
<1> DEFINE cp == c["proxy"]  cw == c["web"]  cb == c["backend"]
           P == Placing(q, f, "proxy")
           W == Placing(q, f, "web")
           B == Placing(q, f, "backend")
<1>1. cp \in Nat /\ cw \in Nat /\ cb \in Nat
  BY DEF Wanted, Role
<1>2. SUFFICES /\ P # {} /\ W # {} /\ B # {}
               /\ \A a \in W \cap P : W = {a}
               /\ \A a \in B \cap P : B = {a}
               /\ cp = Cardinality(P) /\ cw = Cardinality(W \ P) /\ cb = Cardinality(B \ P)
  BY DEF Role, WellPlaced
<1>3. \A x : Cardinality({x}) = 1
  BY FS_Singleton
<1>4. Cardinality({}) = 0
  BY FS_EmptySet
<1>5. /\ P = Spots(f, {j \in 1..Len(q) : "proxy" \in q[j]})
      /\ W = Spots(f, {j \in 1..Len(q) : "web" \in q[j]})
      /\ B = Spots(f, {j \in 1..Len(q) : "backend" \in q[j]})
  BY DEF Placing
<1>6. CASE cp = 1 /\ cw = 0 /\ cb = 0
  <2>1. q = <<Role>>
    BY <1>6, StartingNodesFacts
  <2>2. Len(q) = 1 /\ q[1] = Role
    BY <2>1
  <2>3. P = {f[1]} /\ W = {f[1]} /\ B = {f[1]}
    BY <1>5, <2>2, RoleFacts DEF Spots
  <2>4. W \ P = {} /\ B \ P = {}
    BY <2>3
  <2> QED BY <1>3, <1>4, <1>6, <2>3, <2>4
<1>7. CASE cp = 1 /\ cw = 0 /\ cb > 0
  <2>1. q = Packed({"proxy", "web"}, "backend", cb)
    BY <1>7, StartingNodesFacts
  <2>2. {"proxy", "web"} \in SUBSET Role /\ "backend" \in Role
    BY DEF Role
  <2>3. Len(q) = 1 + cb /\ q[1] = {"proxy", "web"} /\ \A i \in 2..(1 + cb) : q[i] = {"backend"}
    <3> HIDE DEF cb
    <3> DEFINE s == Packed({"proxy", "web"}, "backend", cb)
    <3>1. {"proxy", "web"} \in SUBSET Role /\ "backend" \in Role /\ cb \in Nat
      BY <1>1, <2>2
    <3>2. Len(s) = 1 + cb /\ s[1] = {"proxy", "web"} /\ \A i \in 2..(1 + cb) : s[i] = {"backend"}
      BY <3>1, PackedFacts
    <3> QED BY <2>1, <3>2
  <2> HIDE DEF cp, cw, cb
  <2>4. {j \in 1..Len(q) : "proxy" \in q[j]} = {1} /\ {j \in 1..Len(q) : "web" \in q[j]} = {1}
        /\ {j \in 1..Len(q) : "backend" \in q[j]} = 2..(1 + cb)
    <3>1. \A j \in 1..Len(q) : j = 1 \/ j \in 2..(1 + cb)
      BY <1>1, <2>3
    <3>2. 1 \in 1..Len(q) /\ 2..(1 + cb) \subseteq 1..Len(q) /\ 1 \notin 2..(1 + cb)
      BY <1>1, <2>3
    <3> QED BY <2>3, <3>1, <3>2
  <2>5. P = {f[1]} /\ W = {f[1]} /\ B = Spots(f, 2..(1 + cb))
    <3>1. Spots(f, {1}) = {f[1]}
      BY DEF Spots
    <3>2. P = Spots(f, {1}) /\ W = Spots(f, {1}) /\ B = Spots(f, 2..(1 + cb))
      BY <1>5, <2>4
    <3> QED BY <3>1, <3>2
  <2>6. 2..(1 + cb) \subseteq 1..Len(q) /\ 1 \in 1..Len(q) /\ 2 \in 2..(1 + cb)
        /\ 1 \notin 2..(1 + cb)
    BY <1>1, <1>7, <2>3
  <2>7. f[1] \notin B /\ f[2] \in B
    BY <2>5, <2>6 DEF Spots
  <2>8. Cardinality(Spots(f, 2..(1 + cb))) = IF 2 > 1 + cb THEN 0 ELSE (1 + cb) - 2 + 1
    <3>1. 2 \in Nat /\ 1 + cb \in Nat /\ \A i, j \in 2..(1 + cb) : f[i] = f[j] => i = j
      BY <1>1, <2>6
    <3> QED BY <3>1, StretchCardinality
  <2>9. Cardinality(B) = cb
    BY <1>1, <1>7, <2>5, <2>8
  <2>10. P = {f[1]} /\ W = {f[1]}
    BY <2>5
  <2>11. W \ P = {} /\ B \ P = B /\ P # {} /\ W # {} /\ B # {} /\ B \cap P = {}
    <3> HIDE DEF P, W, B
    <3> QED BY <2>10, <2>7
  <2>12. Cardinality(P) = 1
    BY <2>5, <1>3
  <2> HIDE DEF P, W, B
  <2> QED BY <1>4, <1>7, <2>5, <2>9, <2>11, <2>12
<1>8. CASE cp = 1 /\ cw > 0 /\ cb = 0
  <2>1. q = Packed({"proxy", "web"}, "web", cw)
    BY <1>8, StartingNodesFacts
  <2>2. {"proxy", "web"} \in SUBSET Role /\ "web" \in Role
    BY DEF Role
  <2>3. Len(q) = 1 + cw /\ q[1] = {"proxy", "web"} /\ \A i \in 2..(1 + cw) : q[i] = {"web"}
    <3> HIDE DEF cw
    <3> DEFINE s == Packed({"proxy", "web"}, "web", cw)
    <3>1. {"proxy", "web"} \in SUBSET Role /\ "web" \in Role /\ cw \in Nat
      BY <1>1, <2>2
    <3>2. Len(s) = 1 + cw /\ s[1] = {"proxy", "web"} /\ \A i \in 2..(1 + cw) : s[i] = {"web"}
      BY <3>1, PackedFacts
    <3> QED BY <2>1, <3>2
  <2>4. \A j \in 1..Len(q) : j = 1 \/ j \in 2..(1 + cw)
    BY <1>1, <2>3
  <2> QED BY <2>3, <2>4
<1>9. CASE ~(cp = 1 /\ (cw = 0 \/ cb = 0))
  <2>1. q = Stretches(c)
    BY <1>9, StartingNodesFacts
  <2>2. cp > 0 /\ cw > 0 /\ cb > 0
    BY <1>9, RoleFacts
  <2>3. /\ Len(q) = cp + cw + cb
        /\ \A i \in 1..cp : q[i] = {"proxy"}
        /\ \A i \in (cp + 1)..(cp + cw) : q[i] = {"web"}
        /\ \A i \in (cp + cw + 1)..(cp + cw + cb) : q[i] = {"backend"}
    BY <2>1, StretchesFacts
  <2> HIDE DEF cp, cw, cb
  <2> DEFINE IP == 1..cp  IW == (cp + 1)..(cp + cw)  IB == (cp + cw + 1)..(cp + cw + cb)
  <2>4. /\ \A j \in 1..Len(q) : j \in IP \/ j \in IW \/ j \in IB
        /\ IP \subseteq 1..Len(q) /\ IW \subseteq 1..Len(q) /\ IB \subseteq 1..Len(q)
        /\ IP \cap IW = {} /\ IP \cap IB = {} /\ IW \cap IB = {}
        /\ 1 \in IP /\ cp + 1 \in IW /\ cp + cw + 1 \in IB
    BY <1>1, <2>2, <2>3
  <2>5. /\ Cardinality(Spots(f, IP)) = cp
        /\ Cardinality(Spots(f, IW)) = cw
        /\ Cardinality(Spots(f, IB)) = cb
    <3>1. Cardinality(Spots(f, 1..cp)) = IF 1 > cp THEN 0 ELSE cp - 1 + 1
      <4>1. 1 \in Nat /\ cp \in Nat /\ \A i, j \in 1..cp : f[i] = f[j] => i = j
        BY <1>1, <2>4
      <4> QED BY <4>1, StretchCardinality
    <3>2. Cardinality(Spots(f, (cp + 1)..(cp + cw))) =
            IF cp + 1 > cp + cw THEN 0 ELSE (cp + cw) - (cp + 1) + 1
      <4>1. /\ cp + 1 \in Nat /\ cp + cw \in Nat
            /\ \A i, j \in (cp + 1)..(cp + cw) : f[i] = f[j] => i = j
        BY <1>1, <2>4
      <4> QED BY <4>1, StretchCardinality
    <3>3. Cardinality(Spots(f, (cp + cw + 1)..(cp + cw + cb))) =
            IF cp + cw + 1 > cp + cw + cb THEN 0 ELSE (cp + cw + cb) - (cp + cw + 1) + 1
      <4>1. /\ cp + cw + 1 \in Nat /\ cp + cw + cb \in Nat
            /\ \A i, j \in (cp + cw + 1)..(cp + cw + cb) : f[i] = f[j] => i = j
        BY <1>1, <2>4
      <4> QED BY <4>1, StretchCardinality
    <3> QED BY <1>1, <2>2, <3>1, <3>2, <3>3
  <2>6. /\ \A i \in IP : q[i] = {"proxy"}
        /\ \A i \in IW : q[i] = {"web"}
        /\ \A i \in IB : q[i] = {"backend"}
    BY <2>3
  <2> HIDE DEF IP, IW, IB
  <2>7. {j \in 1..Len(q) : "proxy" \in q[j]} = IP /\ {j \in 1..Len(q) : "web" \in q[j]} = IW
        /\ {j \in 1..Len(q) : "backend" \in q[j]} = IB
    <3>1. \A j \in 1..Len(q) : /\ "proxy" \in q[j] <=> j \in IP
                               /\ "web" \in q[j] <=> j \in IW
                               /\ "backend" \in q[j] <=> j \in IB
      BY <2>4, <2>6
    <3> QED BY <2>4, <3>1
  <2>8. P = Spots(f, IP) /\ W = Spots(f, IW) /\ B = Spots(f, IB)
    BY <1>5, <2>7
  <2>9. P # {} /\ W # {} /\ B # {} /\ W \cap P = {} /\ B \cap P = {}
    <3>1. f[1] \in P /\ f[cp + 1] \in W /\ f[cp + cw + 1] \in B
      BY <2>4, <2>8 DEF Spots
    <3>2. ASSUME NEW x, x \in P, x \in W \/ x \in B PROVE FALSE
      <4>1. PICK i \in IP : x = f[i]
        BY <2>8, <3>2 DEF Spots
      <4>2. PICK j \in IW \cup IB : x = f[j]
        BY <2>8, <3>2 DEF Spots
      <4>3. i \in 1..Len(q) /\ j \in 1..Len(q) /\ i # j
        BY <2>4
      <4> QED BY <4>1, <4>2, <4>3
    <3> HIDE DEF P, W, B
    <3> QED BY <3>1, <3>2
  <2>10. cp = Cardinality(P) /\ cw = Cardinality(W) /\ cb = Cardinality(B)
    BY <2>5, <2>8
  <2> HIDE DEF P, W, B
  <2>11. W \ P = W /\ B \ P = B
    BY <2>9
  <2> QED BY <2>9, <2>10, <2>11
<1> QED BY <1>1, <1>6, <1>7, <1>8, <1>9

\* The parts of the health of the next state.
LEMMA HealthyParts ==
    ASSUME Sound' => /\ AtRest' /\ Shape' /\ CountsOK' /\ DaemonsOK' /\ StoppingOK' /\ CodeOK'
                     /\ RoutesOK' /\ AlwaysServed'
    PROVE  Healthy'
  BY DEF Healthy

\* A stop begins with everything that runs still to be stopped.
LEMMA HealthyStopHook ==
    ASSUME Always, Always', Healthy, on_stop
    PROVE  Healthy'
<1> SUFFICES ASSUME Sound'
             PROVE  /\ AtRest' /\ Shape' /\ CountsOK' /\ DaemonsOK' /\ StoppingOK' /\ CodeOK'
                    /\ RoutesOK' /\ AlwaysServed'
  BY HealthyParts
<1>1. /\ worker # None /\ worker.op = "stop" /\ worker.todo = None
      /\ worker' # None /\ worker'.op = "stop" /\ worker'.todo # None
      /\ worker'.todo = <<Do("stop", "proxy", With("proxy")), Do("stop", "web", With("web")),
                          Do("stop", "backend", With("backend"))>>
      /\ UNCHANGED <<state, count, roles, nodes, up, current, daemons, routes, code, failed,
                     raced, misplaced>>
  BY StopHookFacts DEF Always, on_stop, Hook, StopCalls, config, agent, history
<1>2. Sound /\ ~HasProgram /\ TypeOK /\ Outside /\ state \in {"EPILOGUE", "ERROR"}
  BY <1>1 DEF Sound, HasProgram, Always, WorkerFits, StateOf
<1>3. Quiet
  BY <1>2, QuietHealthy
<1>4. \A n : /\ Pend("stop", "proxy", n)' <=> n \in With("proxy")
             /\ Pend("stop", "web", n)' <=> n \in With("web")
             /\ Pend("stop", "backend", n)' <=> n \in With("backend")
             /\ \A r : ~Pend("create", r, n)' /\ ~Pend("update", r, n)'
  <2> DEFINE p == With("proxy")  w == With("web")  b == With("backend")
  <2>1. /\ worker' # None /\ worker'.op = "stop" /\ worker'.todo # None
        /\ worker'.todo = <<Do("stop", "proxy", p), Do("stop", "web", w),
                            Do("stop", "backend", b)>>
    BY <1>1
  <2> HIDE DEF p, w, b
  <2>2. \A n : /\ PendIn(worker', "stop", "proxy", n) <=> n \in p
               /\ PendIn(worker', "stop", "web", n) <=> n \in w
               /\ PendIn(worker', "stop", "backend", n) <=> n \in b
               /\ \A r : ~PendIn(worker', "create", r, n) /\ ~PendIn(worker', "update", r, n)
    BY <2>1, StopProgram, ZenonT(60)
  <2> QED BY <2>2, PendNext DEF p, w, b
<1>5. AtRest' /\ DaemonsOK' /\ CodeOK' /\ AlwaysServed'
  BY <1>1, <1>2 DEF AtRest, DaemonsOK, CodeOK, AlwaysServed, Stopping, HasProgram
<1>6. Shape' /\ CountsOK'
  BY <1>1, <1>3 DEF Quiet, Shape, Hook, Stopping, Provisioned, CountsOK, Counted, With, Having
<1>7. \A n \in nodes, r \in Role : /\ r \in daemons[n] <=> r \in roles[n]
                                   /\ n \in With(r) <=> r \in roles[n]
  BY <1>3 DEF Quiet, With, Having
<1>8. \A n \in nodes, r \in Role : Pend("stop", r, n)' <=> r \in roles[n]
  BY <1>4, <1>7 DEF Role
<1>9. StoppingOK'
  <2>1. \A n \in nodes', r \in Role : /\ r \in daemons'[n] <=> Pend("stop", r, n)'
                                      /\ Pend("stop", r, n)' => r \in roles'[n]
    BY <1>1, <1>7, <1>8
  <2>2. \A n \in nodes', r \in {"web", "backend"} : r \in roles'[n] => Pend("stop", r, n)'
    BY <1>1, <1>8 DEF Role
  <2> QED BY <2>1, <2>2 DEF StoppingOK
<1>10. RoutesOK'
  <2>1. With("proxy")' = With("proxy") /\ TuplesNow' = TuplesNow
    BY <1>1 DEF With, Having, TuplesNow
  <2>2. ~raced' => \A n \in With("proxy")' : routes'[n] = TuplesNow'
    BY <1>1, <1>3, <2>1 DEF Quiet
  <2> QED BY <1>4, <2>2 DEF RoutesOK
<1> QED BY <1>5, <1>6, <1>9, <1>10

\* An update begins with daemons that run and lists that stay as they are.
LEMMA HealthyConfigureHook ==
    ASSUME Always, Always', Healthy, do_update_configuration
    PROVE  Healthy'
<1> SUFFICES ASSUME Sound'
             PROVE  /\ AtRest' /\ Shape' /\ CountsOK' /\ DaemonsOK' /\ StoppingOK' /\ CodeOK'
                    /\ RoutesOK' /\ AlwaysServed'
  BY HealthyParts
<1>1. PICK php \in SUBSET With("backend"), all \in SUBSET nodes,
           w \in SUBSET With("web"), p \in SUBSET With("proxy") :
              /\ worker'.todo = <<Do("update", "backend", php), Do("code", None, all),
                                  Do("update", "web", w), Do("update", "proxy", p)>>
              /\ current' # current => all = nodes
  BY ConfigureHookFacts DEF Always
<1>2. /\ worker # None /\ worker.op = "configure" /\ worker.todo = None
      /\ worker' # None /\ worker'.op = "configure" /\ worker'.todo # None
      /\ UNCHANGED <<state, count, roles, nodes, up, daemons, routes, code, failed, raced,
                     misplaced>>
  BY ConfigureHookFacts DEF Always, do_update_configuration, Hook, agent, history
<1>3. Sound /\ ~HasProgram /\ TypeOK /\ Outside /\ state \in {"ADAPTING", "ERROR"}
  BY <1>2 DEF Sound, HasProgram, Always, WorkerFits, StateOf
<1>4. Quiet
  BY <1>3, QuietHealthy
<1>5. \A n : /\ Pend("update", "backend", n)' <=> n \in php
             /\ Pend("update", "web", n)' <=> n \in w
             /\ Pend("update", "proxy", n)' <=> n \in p
             /\ Pend("code", None, n)' <=> n \in all
             /\ \A r : ~Pend("create", r, n)' /\ ~Pend("stop", r, n)'
  <2>1. \A n : /\ PendIn(worker', "update", "backend", n) <=> n \in php
               /\ PendIn(worker', "update", "web", n) <=> n \in w
               /\ PendIn(worker', "update", "proxy", n) <=> n \in p
               /\ PendIn(worker', "code", None, n) <=> n \in all
               /\ \A r : ~PendIn(worker', "create", r, n) /\ ~PendIn(worker', "stop", r, n)
    <3>1. /\ worker' # None /\ worker'.op = "configure" /\ worker'.todo # None
          /\ worker'.todo = <<Do("update", "backend", php), Do("code", None, all),
                              Do("update", "web", w), Do("update", "proxy", p)>>
      BY <1>1, <1>2
    <3> QED BY <3>1, ConfigureProgram
  <2> QED BY <2>1, PendNext
<1>6. AtRest' /\ StoppingOK' /\ ~Stopping'
  BY <1>2 DEF AtRest, StoppingOK, Stopping
<1>7. Shape' /\ CountsOK'
  <2>1. nodes # {}
    BY <1>2, <1>4 DEF Quiet, Shape, Hook
  <2> QED BY <1>2, <1>4, <2>1 DEF Quiet, Shape, Hook, Provisioned, CountsOK, Counted, With, Having
<1>8. DaemonsOK'
  <2>1. \A n \in nodes, r \in Role : r \in daemons[n] <=> r \in roles[n]
    BY <1>4 DEF Quiet
  <2>2. \A n \in nodes, r \in Role : Pend("update", r, n)' => r \in roles[n]
    BY <1>5 DEF Role, With, Having
  <2> QED BY <1>2, <1>5, <2>1, <2>2 DEF DaemonsOK
<1>9. CodeOK'
  <2>1. \A n \in nodes : code[n] = current
    BY <1>4 DEF Quiet
  <2> QED BY <1>1, <1>2, <1>5, <2>1 DEF CodeOK
<1>10. RoutesOK'
  <2>1. With("proxy")' = With("proxy") /\ TuplesNow' = TuplesNow
    BY <1>2 DEF With, Having, TuplesNow
  <2>2. ~raced' => \A n \in With("proxy")' : routes'[n] = TuplesNow'
    BY <1>2, <1>4, <2>1 DEF Quiet
  <2> QED BY <1>5, <2>2 DEF RoutesOK
<1>11. AlwaysServed'
  BY <1>2, <1>3 DEF Healthy, AlwaysServed, Serving, Sound
<1> QED BY <1>6, <1>7, <1>8, <1>9, <1>10, <1>11

\* A whole start puts every role on nodes whose daemons are still to be created.
LEMMA HealthyStartHook ==
    ASSUME Always, Always', Healthy, on_start
    PROVE  Healthy'
<1> SUFFICES ASSUME Sound'
             PROVE  /\ AtRest' /\ Shape' /\ CountsOK' /\ DaemonsOK' /\ StoppingOK' /\ CodeOK'
                    /\ RoutesOK' /\ AlwaysServed'
  BY HealthyParts
<1> DEFINE c == StartingCounts(count)
           q == StartingNodes(c)
           b == Having("backend", nodes', roles')
           w == Having("web", nodes', roles')
           p == Having("proxy", nodes', roles')
<1>1. /\ worker # None /\ worker.op = "start" /\ worker.todo = None
      /\ worker' # None /\ worker'.op = "start" /\ worker'.todo # None
      /\ worker'.todo = <<Do("scalaris", None, nodes'), Do("create", "backend", b),
                          Do("code", None, nodes'), Do("create", "web", w),
                          Do("create", "proxy", p)>>
      /\ UNCHANGED <<state, current, daemons, routes, code, raced>>
      /\ count' = c /\ c \in Wanted /\ nodes' \subseteq Node /\ nodes' # {}
      /\ q \in Seq(SUBSET Role)
      /\ roles' \in [Node -> SUBSET Role]
      /\ misplaced' = (misplaced \/ \A i \in 1..Len(q) : "backend" \notin q[i])
  BY StartHookFacts DEF Always, on_start, Hook, agent
<1>2. PICK came \in (SUBSET (1..Len(q))) \ {{}} : \E f \in Placed(q, came) :
        /\ roles' = RolesPlaced(q, f)
        /\ nodes' = {f[i] : i \in came} /\ nodes' \subseteq Node \ up
        /\ failed' = (failed \/ came # 1..Len(q))
  BY StartHookFacts DEF Always
<1>3. PICK f \in Placed(q, came) :
        /\ roles' = RolesPlaced(q, f)
        /\ nodes' = {f[i] : i \in came} /\ nodes' \subseteq Node \ up
        /\ failed' = (failed \/ came # 1..Len(q))
  BY <1>2
<1>4. /\ came = 1..Len(q) /\ \E i \in 1..Len(q) : "backend" \in q[i]
      /\ state \in {"PROLOGUE", "ERROR"}
  BY <1>1, <1>3 DEF Sound, Always, WorkerFits, StateOf
<1>5. /\ \A i, j \in 1..Len(q) : f[i] = f[j] => i = j
      /\ \A i \in 1..Len(q) : roles'[f[i]] = q[i]
  <2>1. came \in SUBSET (1..Len(q)) /\ TypeOK
    BY <1>2 DEF Always
  <2>2. /\ \A i, j \in came : f[i] = f[j] => i = j
        /\ \A i \in came : RolesPlaced(q, f)[f[i]] = q[i]
    BY <1>1, <2>1, PlacedFacts
  <2> QED BY <1>3, <1>4, <2>2
<1>6. \A r : With(r)' = Placing(q, f, r)
  BY <1>3, <1>4, <1>5 DEF With, Having, Placing, Spots
<1>7. ~(c["proxy"] = 1 /\ (c["web"] = 0 \/ c["backend"] = 0)) => \A r \in Role : c[r] > 0
  <2>1. count \in Wanted
    BY DEF Always, TypeOK, Wanted
  <2>2. \/ \A r \in Role : c[r] > 0
        \/ count["proxy"] = 1 /\ (count["web"] = 0 \/ count["backend"] = 0) /\ c = count
    BY <2>1, StartingCountsFacts
  <2> QED BY <2>2
<1> HIDE DEF c, q
<1>8. /\ \A r \in Role : Placing(q, f, r) # {}
      /\ \A r \in {"web", "backend"} : \A a \in Placing(q, f, r) \cap Placing(q, f, "proxy") :
           Placing(q, f, r) = {a}
      /\ c["proxy"] = Cardinality(Placing(q, f, "proxy"))
      /\ \A r \in {"web", "backend"} :
           c[r] = Cardinality(Placing(q, f, r) \ Placing(q, f, "proxy"))
  <2>1. /\ c \in Wanted /\ q = StartingNodes(c)
        /\ \A i, j \in 1..Len(q) : f[i] = f[j] => i = j
        /\ \E i \in 1..Len(q) : "backend" \in q[i]
    BY <1>1, <1>4, <1>5 DEF q
  <2>2. WellPlaced(c, q, f)
    BY <1>7, <2>1, StartRoles
  <2> QED BY <2>2 DEF WellPlaced
<1>9. Provisioned' /\ Counted'
  BY <1>1, <1>6, <1>8 DEF Provisioned, Counted
<1>10. AtRest' /\ Shape' /\ CountsOK' /\ StoppingOK' /\ AlwaysServed' /\ ~Stopping'
  BY <1>1, <1>4, <1>9 DEF AtRest, Shape, CountsOK, StoppingOK, AlwaysServed, Stopping
<1>11. \A n : /\ Pend("create", "backend", n)' <=> n \in b
              /\ Pend("create", "web", n)' <=> n \in w
              /\ Pend("create", "proxy", n)' <=> n \in p
              /\ Pend("code", None, n)' <=> n \in nodes'
              /\ \A r : ~Pend("stop", r, n)' /\ ~Pend("update", r, n)'
  <2> HIDE DEF b, w, p
  <2>1. \A n : /\ PendIn(worker', "create", "backend", n) <=> n \in b
               /\ PendIn(worker', "create", "web", n) <=> n \in w
               /\ PendIn(worker', "create", "proxy", n) <=> n \in p
               /\ PendIn(worker', "code", None, n) <=> n \in nodes'
               /\ \A r : ~PendIn(worker', "stop", r, n) /\ ~PendIn(worker', "update", r, n)
    <3> DEFINE a == nodes'
    <3>1. /\ worker' # None /\ worker'.op = "start" /\ worker'.todo # None
          /\ worker'.todo = <<Do("scalaris", None, a), Do("create", "backend", b),
                              Do("code", None, a), Do("create", "web", w),
                              Do("create", "proxy", p)>>
      BY <1>1
    <3> HIDE DEF a
    <3>2. \A n : /\ PendIn(worker', "create", "backend", n) <=> n \in b
                 /\ PendIn(worker', "create", "web", n) <=> n \in w
                 /\ PendIn(worker', "create", "proxy", n) <=> n \in p
                 /\ PendIn(worker', "code", None, n) <=> n \in a
                 /\ \A r : ~PendIn(worker', "stop", r, n) /\ ~PendIn(worker', "update", r, n)
      BY <3>1, StartProgram, ZenonT(60)
    <3> QED BY <3>2 DEF a
  <2> QED BY <2>1, PendNext
<1>12. \A n \in nodes' : daemons'[n] = {}
  BY <1>1, <1>3 DEF Always, TypeOK, Outside
<1>13. DaemonsOK'
  <2>1. \A n \in nodes', r \in Role : Pend("create", r, n)' <=> r \in roles'[n]
    BY <1>11 DEF Role, Having
  <2> QED BY <1>11, <1>12, <2>1 DEF DaemonsOK
<1>14. CodeOK'
  BY <1>11 DEF CodeOK
<1>15. RoutesOK'
  <2>1. With("proxy")' \subseteq nodes'
    BY DEF With, Having
  <2>2. Serving("proxy")' \cap With("proxy")' = {}
    BY <1>12, <2>1 DEF Serving
  <2> QED BY <2>2 DEF RoutesOK
<1> QED BY <1>10, <1>13, <1>14, <1>15

\* An addition leaves the lists alive, and every daemon it will stop still runs.
LEMMA HealthyAddHook ==
    ASSUME Always, Always', Healthy, on_add_nodes
    PROVE  Healthy'
<1> SUFFICES ASSUME Sound'
             PROVE  /\ AtRest' /\ Shape' /\ CountsOK' /\ DaemonsOK' /\ StoppingOK' /\ CodeOK'
                    /\ RoutesOK' /\ AlwaysServed'
  BY HealthyParts
<1>1. /\ worker # None /\ worker.op = "add" /\ worker.todo = None
      /\ UNCHANGED <<state, count, current, daemons, routes, code, failed, raced, misplaced>>
  BY AddHookFacts DEF Always, on_add_nodes, Hook, agent, history
<1>2. Sound /\ ~HasProgram /\ TypeOK /\ Outside /\ state \in {"ADAPTING", "ERROR"}
  BY <1>1 DEF Sound, HasProgram, Always, WorkerFits, StateOf
<1>3. Quiet /\ AlwaysServed
  BY <1>2, QuietHealthy DEF Healthy
<1>4. Provisioned /\ Counted /\ nodes # {}
  BY <1>1, <1>3 DEF Quiet, Shape, Hook
\* The nodes that lose a role are there, whatever came.
<1>5. ~AddDies
  <2>1. \A r, b : r \in {"web", "backend"} => Unpacked(r, b) # {}
    <3> TAKE r, b
    <3>1. CASE b = {}
      BY <3>1 DEF Unpacked
    <3>2. CASE r \in {"web", "backend"}
      <4>1. With(r) # {}
        BY <3>2, <1>4 DEF Provisioned, Role
      <4> QED BY <4>1 DEF Unpacked
    <3> QED BY <3>1, <3>2
  <2> QED BY <2>1 DEF AddDies
<1>6. PICK new, b, w, p, killB, killW : AddGoesOn(new, b, w, p, killB, killW)
  BY <1>2, <1>5, AddHookFacts
<1> DEFINE told == IF w \cup b = {} THEN {} ELSE With("proxy")
<1>7. /\ worker' # None /\ worker'.op = "add" /\ worker'.todo # None
      /\ worker'.todo = <<Do("scalaris", None, new),
            Do("create", "backend", b), Do("code", None, new),
            Do("create", "web", w), Do("create", "proxy", p), Do("update", "proxy", told),
            Do("stop", "backend", killB), Do("stop", "web", killW)>>
  BY <1>6 DEF AddGoesOn, AddCalls
<1>8. /\ new \subseteq Node \ up /\ new = b \cup w \cup p
      /\ b \cap w = {} /\ b \cap p = {} /\ w \cap p = {}
      /\ killB \in Unpacked("backend", b) /\ killB \subseteq With("backend")
      /\ killW \in Unpacked("web", w) /\ killW \subseteq With("web")
      /\ up' = up \cup new /\ nodes' = nodes \cup new
      /\ roles' \in [Node -> SUBSET Role]
  BY <1>6 DEF AddGoesOn
<1>9. \A n \in Node :
         /\ "proxy" \in roles'[n] <=> (n \notin new /\ "proxy" \in roles[n]) \/ n \in p
         /\ "web" \in roles'[n] <=>
              (n \notin new /\ "web" \in roles[n] /\ n \notin killW) \/ n \in w
         /\ "backend" \in roles'[n] <=>
              (n \notin new /\ "backend" \in roles[n] /\ n \notin killB) \/ n \in b
  BY <1>6 DEF AddGoesOn
<1>10. /\ nodes \subseteq up /\ up \subseteq Node /\ new \cap nodes = {}
       /\ \A r : With(r) \subseteq nodes /\ \A n \in nodes : n \in With(r) <=> r \in roles[n]
  BY <1>2, <1>8 DEF TypeOK, With, Having
<1>11. \A n : /\ Pend("create", "backend", n)' <=> n \in b
              /\ Pend("create", "web", n)' <=> n \in w
              /\ Pend("create", "proxy", n)' <=> n \in p
              /\ Pend("code", None, n)' <=> n \in new
              /\ Pend("update", "proxy", n)' <=> n \in told
              /\ Pend("stop", "backend", n)' <=> n \in killB
              /\ Pend("stop", "web", n)' <=> n \in killW
              /\ ~Pend("update", "web", n)' /\ ~Pend("update", "backend", n)'
              /\ ~Pend("stop", "proxy", n)'
  <2> HIDE DEF told
  <2>1. \A n : /\ PendIn(worker', "create", "backend", n) <=> n \in b
               /\ PendIn(worker', "create", "web", n) <=> n \in w
               /\ PendIn(worker', "create", "proxy", n) <=> n \in p
               /\ PendIn(worker', "code", None, n) <=> n \in new
               /\ PendIn(worker', "update", "proxy", n) <=> n \in told
               /\ PendIn(worker', "stop", "backend", n) <=> n \in killB
               /\ PendIn(worker', "stop", "web", n) <=> n \in killW
               /\ ~PendIn(worker', "update", "web", n) /\ ~PendIn(worker', "update", "backend", n)
               /\ ~PendIn(worker', "stop", "proxy", n)
    BY <1>7, AddProgram
  <2> QED BY <2>1, PendNext
<1>12. /\ With("proxy")' = With("proxy") \cup p
       /\ With("web")' = (With("web") \ killW) \cup w
       /\ With("backend")' = (With("backend") \ killB) \cup b
  <2>1. \A r : With(r)' = {n \in nodes' : r \in roles'[n]}
    BY DEF With, Having
  <2> QED BY <1>8, <1>9, <1>10, <2>1
<1>13. Provisioned'
  <2>1. /\ (With("web") \ killW) \cup w # {}
        /\ \A a \in ((With("web") \ killW) \cup w) \cap (With("proxy") \cup p) :
             (With("web") \ killW) \cup w = {a}
    <3>1. w \in SUBSET (Node \ up) /\ p \in SUBSET (Node \ up) /\ p \cap w = {}
      BY <1>8
    <3> QED BY <1>2, <1>4, <1>8, <3>1, AddRole
  <2>2. /\ (With("backend") \ killB) \cup b # {}
        /\ \A a \in ((With("backend") \ killB) \cup b) \cap (With("proxy") \cup p) :
             (With("backend") \ killB) \cup b = {a}
    <3>1. b \in SUBSET (Node \ up) /\ p \in SUBSET (Node \ up) /\ p \cap b = {}
      BY <1>8
    <3> QED BY <1>2, <1>4, <1>8, <3>1, AddRole
  <2>3. With("proxy")' # {}
    BY <1>4, <1>12, RoleFacts DEF Provisioned
  <2>4. \A r \in Role : With(r)' # {}
    BY <1>12, <2>1, <2>2, <2>3 DEF Role
  <2>5. \A r \in {"web", "backend"} : \A a \in With(r)' \cap With("proxy")' : With(r)' = {a}
    BY <1>12, <2>1, <2>2
  <2> QED BY <2>4, <2>5 DEF Provisioned
<1>14. AtRest' /\ Shape' /\ CountsOK' /\ StoppingOK' /\ ~Stopping'
  BY <1>4, <1>7, <1>8, <1>13 DEF AtRest, Shape, CountsOK, StoppingOK, Stopping, HasProgram
<1>15. AlwaysServed'
  BY <1>1, <1>2, <1>3, <1>8 DEF AlwaysServed, Serving
<1>16. /\ \A n \in nodes : daemons'[n] = roles[n]
       /\ \A n \in new : daemons'[n] = {}
  BY <1>1, <1>2, <1>3, <1>8, <1>10 DEF Quiet, Outside
<1>17. DaemonsOK'
  <2> SUFFICES ASSUME NEW n \in nodes', NEW r \in Role
               PROVE  /\ r \in daemons'[n] <=> \/ r \in roles'[n] /\ ~Pend("create", r, n)'
                                               \/ Pend("stop", r, n)'
                      /\ Pend("create", r, n)' => r \in roles'[n]
                      /\ Pend("stop", r, n)' => r \notin roles'[n]
                      /\ Pend("update", r, n)' => r \in roles'[n] /\ ~Pend("create", r, n)'
    BY DEF DaemonsOK
  <2>1. n \in Node /\ (n \in nodes \/ n \in new)
    BY <1>8, <1>10
  <2>2. CASE r = "proxy"
    <3>1. told \subseteq With("proxy") /\ killB \subseteq nodes /\ killW \subseteq nodes
      BY <1>8, <1>10
    <3> HIDE DEF told
    <3> QED BY <1>8, <1>9, <1>10, <1>11, <1>16, <2>1, <2>2, <3>1
  <2>3. CASE r = "web"
    BY <1>8, <1>9, <1>10, <1>11, <1>16, <2>1, <2>3
  <2>4. CASE r = "backend"
    BY <1>8, <1>9, <1>10, <1>11, <1>16, <2>1, <2>4
  <2> QED BY <2>2, <2>3, <2>4 DEF Role
<1>18. CodeOK'
  <2>1. \A n \in nodes : code'[n] = current'
    BY <1>1, <1>3 DEF Quiet
  <2> QED BY <1>8, <1>11, <2>1 DEF CodeOK
<1>19. RoutesOK'
  <2> SUFFICES ASSUME ~raced, NEW n \in Serving("proxy")' \cap With("proxy")'
               PROVE  \/ /\ routes'[n] = TuplesNow'
                         /\ \A r \in {"web", "backend"}, m \in nodes' : ~Pend("create", r, m)'
                      \/ Pend("update", "proxy", n)' /\ Alive(routes[n])'
    BY <1>1 DEF RoutesOK
  <2>1. n \in With("proxy") /\ routes'[n] = TuplesNow
    <3>1. "proxy" \in daemons'[n] /\ n \in nodes'
      BY DEF Serving, With, Having
    <3>2. n \in nodes /\ "proxy" \in roles[n]
      BY <1>8, <1>16, <3>1
    <3> QED BY <1>1, <1>3, <1>10, <3>2 DEF Quiet
  <2>2. CASE w \cup b = {}
    <3>1. killW = {} /\ killB = {}
      BY <1>8, <2>2 DEF Unpacked
    <3>2. With("web")' = With("web") /\ With("backend")' = With("backend")
      BY <1>12, <2>2, <3>1
    <3>3. TuplesNow' = TuplesNow
      BY <3>2 DEF TuplesNow
    <3> QED BY <1>11, <2>1, <2>2, <3>3
  <2>3. CASE w \cup b # {}
    <3>1. Pend("update", "proxy", n)'
      BY <1>11, <2>1, <2>3
    <3>2. \A r \in Role : With(r) \subseteq Serving(r)'
      BY <1>2, <1>8, <1>10, <1>16 DEF Serving
    <3>3. routes'[n].web = With("web") /\ routes'[n].backend = With("backend")
      BY <2>1 DEF TuplesNow
    <3>4. Alive(routes[n])'
      BY <1>4, <3>2, <3>3, RoleFacts DEF Alive, Provisioned
    <3> QED BY <3>1, <3>4
  <2> QED BY <2>2, <2>3
<1> QED BY <1>14, <1>15, <1>17, <1>18, <1>19

\* A removal leaves the lists alive, and every daemon it will stop still runs.
LEMMA HealthyRemoveHook ==
    ASSUME Always, Always', Healthy, on_remove_nodes
    PROVE  Healthy'
<1> SUFFICES ASSUME Sound'
             PROVE  /\ AtRest' /\ Shape' /\ CountsOK' /\ DaemonsOK' /\ StoppingOK' /\ CodeOK'
                    /\ RoutesOK' /\ AlwaysServed'
  BY HealthyParts
<1>1. /\ worker # None /\ worker.op = "remove" /\ worker.todo = None
      /\ UNCHANGED <<state, count, nodes, up, current, daemons, routes, code, failed, raced,
                     misplaced>>
  BY RemoveHookFacts DEF Always, on_remove_nodes, Hook, agent, history
<1>2. Sound /\ ~HasProgram /\ TypeOK /\ Outside /\ state \in {"ADAPTING", "ERROR"}
  BY <1>1 DEF Sound, HasProgram, Always, WorkerFits, StateOf
<1>3. Quiet /\ AlwaysServed
  BY <1>2, QuietHealthy DEF Healthy
<1>4. Provisioned /\ Counted /\ nodes # {}
  BY <1>1, <1>3 DEF Quiet, Shape, Hook
<1>5. PICK killW, killB, killP, pack, packW, packB :
         RemoveGoesOn(killW, killB, killP, pack, packW, packB)
  BY <1>2, RemoveHookFacts
<1> DEFINE kp == worker.want["proxy"]  kw == worker.want["web"]  kb == worker.want["backend"]
           left == Having("proxy", nodes, roles')
           told == IF killW \cup killB = {} THEN {} ELSE left
<1>6. /\ killW \in LastOf("web", kw) /\ killW \subseteq With("web")
      /\ killB \in LastOf("backend", kb) /\ killB \subseteq With("backend")
      /\ killP \in LastOf("proxy", kp) /\ killP \subseteq With("proxy")
      /\ pack \in With("proxy") /\ (killP # With("proxy") => pack \notin killP)
      /\ packW = IF kw > 0 /\ count["web"] = kw THEN {pack} ELSE {}
      /\ packB = IF kb > 0 /\ count["backend"] = kb THEN {pack} ELSE {}
      /\ kp \in Nat /\ kw \in Nat /\ kb \in Nat
  BY <1>5, RoleFacts DEF RemoveGoesOn, Wanted
<1>7. /\ worker' # None /\ worker'.op = "remove" /\ worker'.todo # None
      /\ worker'.todo = <<Do("create", "backend", packB), Do("code", None, packB),
                          Do("create", "web", packW), Do("update", "proxy", told),
                          Do("stop", "backend", killB), Do("stop", "web", killW),
                          Do("stop", "proxy", killP)>>
  BY <1>5 DEF RemoveGoesOn, RemoveCalls
<1>8. /\ roles' \in [Node -> SUBSET Role]
      /\ \A n \in Node :
           /\ "proxy" \in roles'[n] <=> "proxy" \in roles[n] /\ n \notin killP
           /\ "web" \in roles'[n] <=> ("web" \in roles[n] /\ n \notin killW) \/ n \in packW
           /\ "backend" \in roles'[n] <=>
                ("backend" \in roles[n] /\ n \notin killB) \/ n \in packB
  BY <1>5 DEF RemoveGoesOn
<1>9. /\ nodes \subseteq up /\ up \subseteq Node
      /\ \A r : With(r) \subseteq nodes /\ \A n \in nodes : n \in With(r) <=> r \in roles[n]
  BY <1>2 DEF TypeOK, With, Having
\* The request left a proxy, and no fewer nodes than it takes.
<1>10. kp < count["proxy"] /\ kw <= count["web"] /\ kb <= count["backend"]
  <2>1. Enough(worker.want)
    BY <1>1 DEF Always, WorkerFits, Hook
  <2>2. count["proxy"] \in Nat /\ count["web"] \in Nat /\ count["backend"] \in Nat
    BY <1>2, RoleFacts DEF TypeOK
  <2> QED BY <1>6, <2>1, <2>2 DEF Enough
<1>11. pack \notin killP
  <2>1. count["proxy"] = Cardinality(With("proxy"))
    BY <1>4 DEF Counted
  <2>2. killP # With("proxy")
    BY <1>2, <1>6, <1>10, <2>1, LastOfFacts
  <2> QED BY <1>6, <2>2
<1> HIDE DEF kp, kw, kb
<1>12. /\ packW \cap With("web") = {}
       /\ (With("web") \ killW) \cup packW # {}
       /\ killW = {} => packW = {}
       /\ \A a \in ((With("web") \ killW) \cup packW) \cap (With("proxy") \ killP) :
            (With("web") \ killW) \cup packW = {a}
  <2>1. /\ "web" \in {"web", "backend"} /\ kw \in Nat /\ kw <= count["web"]
        /\ killW \in LastOf("web", kw) /\ pack \in With("proxy")
        /\ packW = IF kw > 0 /\ count["web"] = kw THEN {pack} ELSE {}
    BY <1>6, <1>10
  <2>2. WellRemoved("web", killW, packW)
    BY <1>2, <1>4, <2>1, RemoveRole
  <2> QED BY <2>2 DEF WellRemoved
<1>13. /\ packB \cap With("backend") = {}
       /\ (With("backend") \ killB) \cup packB # {}
       /\ killB = {} => packB = {}
       /\ \A a \in ((With("backend") \ killB) \cup packB) \cap (With("proxy") \ killP) :
            (With("backend") \ killB) \cup packB = {a}
  <2>1. /\ "backend" \in {"web", "backend"} /\ kb \in Nat /\ kb <= count["backend"]
        /\ killB \in LastOf("backend", kb) /\ pack \in With("proxy")
        /\ packB = IF kb > 0 /\ count["backend"] = kb THEN {pack} ELSE {}
    BY <1>6, <1>10
  <2>2. WellRemoved("backend", killB, packB)
    BY <1>2, <1>4, <2>1, RemoveRole
  <2> QED BY <2>2 DEF WellRemoved
<1>14. packW \subseteq {pack} /\ packB \subseteq {pack} /\ pack \in nodes
  BY <1>6, <1>9
<1>15. /\ With("proxy")' = With("proxy") \ killP
       /\ With("web")' = (With("web") \ killW) \cup packW
       /\ With("backend")' = (With("backend") \ killB) \cup packB
       /\ left = With("proxy")'
  <2>1. \A r : With(r)' = {n \in nodes : r \in roles'[n]}
    BY <1>1 DEF With, Having
  <2>2. left = {n \in nodes : "proxy" \in roles'[n]}
    BY DEF Having
  <2> HIDE DEF left, told
  <2> QED BY <1>8, <1>9, <1>14, <2>1, <2>2
<1> HIDE DEF left
<1>16. \A n : /\ Pend("create", "backend", n)' <=> n \in packB
              /\ Pend("create", "web", n)' <=> n \in packW
              /\ ~Pend("create", "proxy", n)'
              /\ Pend("code", None, n)' <=> n \in packB
              /\ Pend("update", "proxy", n)' <=> n \in told
              /\ Pend("stop", "backend", n)' <=> n \in killB
              /\ Pend("stop", "web", n)' <=> n \in killW
              /\ Pend("stop", "proxy", n)' <=> n \in killP
              /\ ~Pend("update", "web", n)' /\ ~Pend("update", "backend", n)'
  <2> HIDE DEF told
  <2>1. \A n : /\ PendIn(worker', "create", "backend", n) <=> n \in packB
               /\ PendIn(worker', "create", "web", n) <=> n \in packW
               /\ ~PendIn(worker', "create", "proxy", n)
               /\ PendIn(worker', "code", None, n) <=> n \in packB
               /\ PendIn(worker', "update", "proxy", n) <=> n \in told
               /\ PendIn(worker', "stop", "backend", n) <=> n \in killB
               /\ PendIn(worker', "stop", "web", n) <=> n \in killW
               /\ PendIn(worker', "stop", "proxy", n) <=> n \in killP
               /\ ~PendIn(worker', "update", "web", n) /\ ~PendIn(worker', "update", "backend", n)
    BY <1>7, RemoveProgram, SMTT(30)
  <2> QED BY <2>1, PendNext
<1>17. Provisioned'
  <2>1. With("proxy")' # {}
    BY <1>6, <1>11, <1>15
  <2>2. \A r \in Role : With(r)' # {}
    BY <1>12, <1>13, <1>15, <2>1 DEF Role
  <2>3. \A r \in {"web", "backend"} : \A a \in With(r)' \cap With("proxy")' : With(r)' = {a}
    BY <1>12, <1>13, <1>15
  <2> QED BY <2>2, <2>3 DEF Provisioned
<1>18. AtRest' /\ Shape' /\ CountsOK' /\ StoppingOK' /\ ~Stopping'
  BY <1>1, <1>4, <1>7, <1>17 DEF AtRest, Shape, CountsOK, StoppingOK, Stopping, HasProgram
<1>19. AlwaysServed'
  BY <1>1, <1>2, <1>3 DEF AlwaysServed, Serving
<1>20. \A n \in nodes : daemons'[n] = roles[n]
  BY <1>1, <1>3 DEF Quiet
<1>21. DaemonsOK'
  <2> SUFFICES ASSUME NEW n \in nodes, NEW r \in Role
               PROVE  /\ r \in daemons'[n] <=> \/ r \in roles'[n] /\ ~Pend("create", r, n)'
                                               \/ Pend("stop", r, n)'
                      /\ Pend("create", r, n)' => r \in roles'[n]
                      /\ Pend("stop", r, n)' => r \notin roles'[n]
                      /\ Pend("update", r, n)' => r \in roles'[n] /\ ~Pend("create", r, n)'
    BY <1>1 DEF DaemonsOK
  <2>1. n \in Node
    BY <1>9
  <2>2. CASE r = "proxy"
    <3>1. told \subseteq With("proxy")'
      BY <1>15
    <3> HIDE DEF told
    <3> QED BY <1>6, <1>8, <1>9, <1>15, <1>16, <1>20, <2>1, <2>2, <3>1
  <2>3. CASE r = "web"
    BY <1>6, <1>8, <1>9, <1>12, <1>16, <1>20, <2>1, <2>3
  <2>4. CASE r = "backend"
    BY <1>6, <1>8, <1>9, <1>13, <1>16, <1>20, <2>1, <2>4
  <2> QED BY <2>2, <2>3, <2>4 DEF Role
<1>22. CodeOK'
  BY <1>1, <1>3 DEF Quiet, CodeOK
<1>23. RoutesOK'
  <2> SUFFICES ASSUME ~raced, NEW n \in Serving("proxy")' \cap With("proxy")'
               PROVE  \/ /\ routes'[n] = TuplesNow'
                         /\ \A r \in {"web", "backend"}, m \in nodes' : ~Pend("create", r, m)'
                      \/ Pend("update", "proxy", n)' /\ Alive(routes[n])'
    BY <1>1 DEF RoutesOK
  <2>1. n \in With("proxy") /\ routes'[n] = TuplesNow
    BY <1>1, <1>3, <1>15 DEF Quiet
  <2>2. CASE killW \cup killB = {}
    <3>1. killW = {} /\ killB = {} /\ packW = {} /\ packB = {}
      BY <2>2, <1>12, <1>13
    <3>2. With("web")' = With("web") /\ With("backend")' = With("backend")
      BY <1>15, <3>1
    <3>3. TuplesNow' = TuplesNow
      BY <3>2 DEF TuplesNow
    <3> QED BY <1>16, <2>1, <3>1, <3>3
  <2>3. CASE killW \cup killB # {}
    <3>1. Pend("update", "proxy", n)'
      BY <1>15, <1>16, <2>3
    <3>2. \A r \in Role : With(r) \subseteq Serving(r)'
      BY <1>1, <1>9, <1>20 DEF Serving
    <3>3. routes'[n].web = With("web") /\ routes'[n].backend = With("backend")
      BY <2>1 DEF TuplesNow
    <3>4. Alive(routes[n])'
      BY <1>4, <3>2, <3>3, RoleFacts DEF Alive, Provisioned
    <3> QED BY <3>1, <3>4
  <2> QED BY <2>2, <2>3
<1> QED BY <1>18, <1>19, <1>21, <1>22, <1>23


-----------------------------------------------------------------------------
(* Calls that are refused. *)

\* The agent of a healthy service takes every call of the program.
LEMMA Refused == Always /\ Healthy => NothingRefused
<1> SUFFICES ASSUME Always, Healthy, Sound, HasProgram,
                    NEW i \in DOMAIN worker.todo, NEW n \in worker.todo[i].on
             PROVE  Takes(n, worker.todo[i])
  BY DEF NothingRefused
<1> DEFINE c == worker.todo[i]
<1>1. /\ n \in nodes
      /\ c.do \in {"create", "update", "stop"} => c.role \in Role
      /\ worker.op = "stop" => c.do = "stop"
  BY TurnFacts DEF Always, ProgramOK, Ordered, Call, Role
<1>2. Pend(c.do, c.role, n)
  BY DEF Pend, PendIn, HasProgram
<1>3. DaemonsOK /\ StoppingOK /\ Shape
  BY DEF Healthy
<1>4. With("web") # {}
  BY <1>1, <1>3, RoleFacts DEF Shape, Provisioned
<1> HIDE DEF c
<1>5. CASE worker.op = "stop"
  <2>1. Stopping /\ c.do = "stop"
    BY <1>1, <1>5 DEF Stopping
  <2>2. c.role \in daemons[n]
    BY <1>1, <1>2, <1>3, <2>1 DEF StoppingOK
  <2>3. Takes(n, c)
    BY <2>1, <2>2 DEF Takes
  <2> QED BY <2>3 DEF c
<1>6. CASE worker.op # "stop"
  <2>1. ~Stopping
    BY <1>6 DEF Stopping
  <2>2. c.do \in {"create", "update", "stop"} =>
          /\ c.role \in daemons[n] <=> \/ c.role \in roles[n] /\ ~Pend("create", c.role, n)
                                       \/ Pend("stop", c.role, n)
          /\ Pend("create", c.role, n) => c.role \in roles[n]
          /\ Pend("stop", c.role, n) => c.role \notin roles[n]
          /\ Pend("update", c.role, n) => c.role \in roles[n] /\ ~Pend("create", c.role, n)
    BY <1>1, <1>3, <2>1 DEF DaemonsOK
  <2>3. Takes(n, c)
    BY <1>2, <1>4, <2>2 DEF Takes
  <2> QED BY <2>3 DEF c
<1> QED BY <1>5, <1>6

\* A call that fails is one that the agent would have taken.
LEMMA HealthyCallFails ==
    ASSUME Always, Healthy, CallFails
    PROVE  Healthy'
<1> SUFFICES ASSUME Sound' PROVE FALSE
  BY DEF Healthy
<1>1. /\ HasProgram /\ misplaced' = misplaced
      /\ \E i \in DOMAIN worker.todo :
           /\ Turn(i)
           /\ failed' = (failed \/ \E n \in worker.todo[i].on : Takes(n, worker.todo[i]))
  BY CallFailsFacts DEF Always
<1>2. PICK i \in DOMAIN worker.todo :
           /\ Turn(i)
           /\ failed' = (failed \/ \E n \in worker.todo[i].on : Takes(n, worker.todo[i]))
  BY <1>1
<1>3. Sound /\ ~failed'
  BY <1>1, <1>2 DEF Sound
<1>4. \A n \in worker.todo[i].on : Takes(n, worker.todo[i])
  BY <1>1, <1>2, <1>3, Refused DEF NothingRefused
<1>5. worker.todo[i].on # {}
  BY <1>2 DEF Turn
<1> QED BY <1>2, <1>3, <1>4, <1>5

\* A start or an addition without nodes is a failure.
LEMMA HealthyNodesFailed == NodesFailed => Healthy'
  BY DEF NodesFailed, Healthy, Sound

-----------------------------------------------------------------------------
(* Calls that are made. *)

\* A call does to daemons, lists and code what was pending.
LEMMA HealthyAgentCall ==
    ASSUME Always, Always', Healthy, AgentCall
    PROVE  Healthy'
<1> SUFFICES ASSUME Sound'
             PROVE  /\ AtRest' /\ Shape' /\ CountsOK' /\ DaemonsOK' /\ StoppingOK' /\ CodeOK'
                    /\ RoutesOK' /\ AlwaysServed'
  BY HealthyParts
<1>1. PICK i, n, c : CallMade(i, n, c)
  BY AgentCallFacts DEF Always
<1>2. /\ worker # None /\ worker.todo # None /\ worker' # None /\ worker'.todo # None
      /\ worker'.op = worker.op
      /\ UNCHANGED <<state, count, roles, nodes, up, current, failed, raced, misplaced>>
      /\ n \in Node /\ Takes(n, c)
  BY <1>1 DEF CallMade, HasProgram, config, history
<1>3. Sound /\ TypeOK /\ ProgramOK /\ Outside /\ HasProgram
      /\ state \in {StateOf(worker.op), "ERROR"}
  BY <1>2 DEF Always, Sound, HasProgram, WorkerFits
<1>4. Shape /\ CountsOK /\ DaemonsOK /\ StoppingOK /\ CodeOK /\ RoutesOK /\ AlwaysServed
  BY <1>3 DEF Healthy
<1>5. /\ n \in nodes
      /\ c.do \in {"create", "update", "stop"} => c.role \in Role
      /\ c.do \in {"scalaris", "code"} => c.role = None
      /\ c.do \in {"scalaris", "create", "update", "stop", "code"}
      /\ worker.op = "stop" => c.do = "stop"
      /\ Pend(c.do, c.role, n)
      /\ c.do \in {"create", "update"} /\ c.role = "proxy" =>
           \A m : ~Pend("create", "web", m) /\ ~Pend("create", "backend", m)
      /\ worker.op # "stop" /\ c.do = "stop" =>
           \A m : ~Pend("update", "proxy", m) /\ \A r : ~Pend("create", r, m)
      /\ worker.op = "stop" /\ c.role # "proxy" => \A m : ~Pend("stop", "proxy", m)
  BY <1>1, <1>3, CallFacts
<1>6. \A do, r, m : Pend(do, r, m)' <=>
                      Pend(do, r, m) /\ ~(do = c.do /\ r = c.role /\ m = n)
  <2>1. \A do, r, m : PendIn(worker', do, r, m) <=>
                        Pend(do, r, m) /\ ~(do = c.do /\ r = c.role /\ m = n)
    BY <1>1, <1>3, CallFacts
  <2> QED BY <2>1, PendNext
<1>7. /\ \A m \in Node \ {n} : /\ daemons'[m] = daemons[m] /\ routes'[m] = routes[m]
                               /\ code'[m] = code[m]
      /\ routes'[n] = IF c.role # "proxy" THEN routes[n]
                      ELSE IF c.do = "stop" THEN NoRoute ELSE TuplesNow
      /\ code'[n] = IF c.do = "code" THEN current ELSE code[n]
  BY <1>1 DEF CallMade
<1>8. \A m \in Node : \A r :
        r \in daemons'[m] <=>
          \/ m = n /\ c.do = "create" /\ r = c.role
          \/ r \in daemons[m] /\ ~(m = n /\ c.do = "stop" /\ r = c.role)
  <2>1. daemons'[n] = CASE c.do = "create" -> daemons[n] \cup {c.role}
                        [] c.do = "stop" -> daemons[n] \ {c.role}
                        [] OTHER -> daemons[n]
    BY <1>1 DEF CallMade
  <2> QED BY <1>7, <2>1
<1>9. /\ nodes \subseteq up /\ up \subseteq Node
      /\ \A r : /\ With(r) \subseteq nodes /\ With(r)' = With(r)
                /\ \A m \in nodes : m \in With(r) <=> r \in roles[m]
                /\ \A m \in nodes : /\ m \in Serving(r) <=> r \in daemons[m]
                                    /\ m \in Serving(r)' <=> r \in daemons'[m]
      /\ TuplesNow' = TuplesNow
  BY <1>2, <1>3 DEF TypeOK, With, Having, Serving, TuplesNow
<1>10. Stopping <=> worker.op = "stop"
  BY <1>3 DEF Stopping
<1>11. Stopping' <=> worker.op = "stop"
  BY <1>2 DEF Stopping, HasProgram
<1>12. AtRest' /\ Shape' /\ CountsOK'
  <2>1. Provisioned' <=> Provisioned
    BY <1>9 DEF Provisioned
  <2>2. Counted' <=> Counted
    BY <1>2, <1>9 DEF Counted
  <2> QED BY <1>2, <1>3, <1>4, <1>5, <2>1, <2>2 DEF AtRest, Shape, Hook, CountsOK, HasProgram
<1>13. DaemonsOK'
  <2> SUFFICES ASSUME worker.op # "stop", NEW m \in nodes, NEW r \in Role
               PROVE  /\ r \in daemons'[m] <=> \/ r \in roles[m] /\ ~Pend("create", r, m)'
                                               \/ Pend("stop", r, m)'
                      /\ Pend("create", r, m)' => r \in roles[m]
                      /\ Pend("stop", r, m)' => r \notin roles[m]
                      /\ Pend("update", r, m)' => r \in roles[m] /\ ~Pend("create", r, m)'
    BY <1>2, <1>11 DEF DaemonsOK
  <2>1. /\ r \in daemons[m] <=> \/ r \in roles[m] /\ ~Pend("create", r, m)
                                \/ Pend("stop", r, m)
        /\ Pend("create", r, m) => r \in roles[m]
        /\ Pend("stop", r, m) => r \notin roles[m]
        /\ Pend("update", r, m) => r \in roles[m] /\ ~Pend("create", r, m)
    BY <1>4, <1>10 DEF DaemonsOK
  <2>2. /\ r \in daemons'[m] <=>
             \/ m = n /\ c.do = "create" /\ r = c.role
             \/ r \in daemons[m] /\ ~(m = n /\ c.do = "stop" /\ r = c.role)
        /\ \A do \in {"create", "update", "stop"} :
             Pend(do, r, m)' <=> Pend(do, r, m) /\ ~(do = c.do /\ r = c.role /\ m = n)
    BY <1>6, <1>8, <1>9
  <2>3. CASE m = n /\ r = c.role
    <3>1. r # None
      BY RoleFacts
    <3>2. c.do \in {"create", "update", "stop"} /\ Pend(c.do, r, m)
      BY <1>5, <2>3, <3>1
    <3> QED BY <2>1, <2>2, <2>3, <3>2
  <2>4. CASE ~(m = n /\ r = c.role)
    BY <2>1, <2>2, <2>4
  <2> QED BY <2>3, <2>4
<1>14. StoppingOK'
  <2> SUFFICES ASSUME worker.op = "stop"
               PROVE  /\ \A m \in nodes, r \in Role :
                           /\ r \in daemons'[m] <=> Pend("stop", r, m)'
                           /\ Pend("stop", r, m)' => r \in roles[m]
                      /\ (\E m \in nodes : Pend("stop", "proxy", m)') =>
                           \A m \in nodes, r \in {"web", "backend"} :
                             r \in roles[m] => Pend("stop", r, m)'
    BY <1>2, <1>11 DEF StoppingOK
  <2>1. /\ \A m \in nodes, r \in Role :
             /\ r \in daemons[m] <=> Pend("stop", r, m)
             /\ Pend("stop", r, m) => r \in roles[m]
        /\ (\E m \in nodes : Pend("stop", "proxy", m)) =>
             \A m \in nodes, r \in {"web", "backend"} : r \in roles[m] => Pend("stop", r, m)
    BY <1>4, <1>10 DEF StoppingOK
  <2>2. c.do = "stop"
    BY <1>5
  <2>3. \A m \in nodes, r \in Role : /\ r \in daemons'[m] <=> Pend("stop", r, m)'
                                     /\ Pend("stop", r, m)' => r \in roles[m]
    BY <1>6, <1>8, <1>9, <2>1, <2>2
  <2>4. ASSUME NEW k \in nodes, Pend("stop", "proxy", k)',
               NEW m \in nodes, NEW r \in {"web", "backend"}, r \in roles[m]
        PROVE  Pend("stop", r, m)'
    <3>1. Pend("stop", "proxy", k)
      BY <1>6, <2>4
    <3>2. c.role = "proxy"
      BY <1>5, <3>1
    <3>3. Pend("stop", r, m)
      BY <2>1, <2>4, <3>1
    <3> QED BY <1>6, <3>2, <3>3
  <2> QED BY <2>3, <2>4
<1>15. CodeOK'
  <2> SUFFICES ASSUME worker.op # "stop", NEW m \in nodes
               PROVE  code'[m] = current \/ Pend("code", None, m)'
    BY <1>2, <1>11 DEF CodeOK
  <2>1. m \in Node /\ (code[m] = current \/ Pend("code", None, m))
    BY <1>4, <1>9, <1>10 DEF CodeOK
  <2> QED BY <1>6, <1>7, <2>1
<1>16. RoutesOK'
  <2> SUFFICES ASSUME ~raced, NEW p \in nodes, p \in With("proxy"), "proxy" \in daemons'[p]
               PROVE  \/ /\ routes'[p] = TuplesNow
                         /\ \A r \in {"web", "backend"}, m \in nodes : ~Pend("create", r, m)'
                      \/ Pend("update", "proxy", p)' /\ Alive(routes[p])'
    BY <1>2, <1>9 DEF RoutesOK
  <2>1. "proxy" \in daemons[p] =>
          \/ /\ routes[p] = TuplesNow
             /\ \A r \in {"web", "backend"}, m \in nodes : ~Pend("create", r, m)
          \/ Pend("update", "proxy", p) /\ Alive(routes[p])
    BY <1>4, <1>9 DEF RoutesOK
  <2>2. p \in Node
    BY <1>9
  \* A call that stops neither web nor backend leaves the lists alive.
  <2>3. ASSUME routes'[p] = routes[p], Alive(routes[p]), c.do # "stop" \/ c.role = "proxy"
        PROVE  Alive(routes[p])'
    <3>1. /\ Serving("web") \subseteq Serving("web")'
          /\ Serving("backend") \subseteq Serving("backend")'
      BY <1>2, <1>8, <1>9, <2>3 DEF Serving
    <3> QED BY <2>3, <3>1 DEF Alive
  <2>4. CASE worker.op = "stop"
    <3>1. c.do = "stop" /\ "proxy" \in daemons[p]
      BY <1>5, <1>8, <2>2, <2>4
    <3>2. Pend("stop", "proxy", p)
      BY <1>4, <1>10, <2>4, <3>1, RoleFacts DEF StoppingOK
    <3>3. c.role = "proxy" /\ p # n
      BY <1>5, <1>8, <2>2, <2>4, <3>1, <3>2
    <3>4. routes'[p] = routes[p]
      BY <1>7, <2>2, <3>3
    <3> QED BY <1>6, <2>1, <2>3, <3>1, <3>3, <3>4
  <2>5. CASE worker.op # "stop" /\ c.do = "stop"
    <3>1. "proxy" \in daemons[p] /\ ~(p = n /\ c.role = "proxy")
      BY <1>8, <2>2, <2>5
    <3>2. routes'[p] = routes[p]
      BY <1>7, <2>2, <3>1
    <3>3. ~Pend("update", "proxy", p) /\ \A r, m : ~Pend("create", r, m)
      BY <1>5, <2>5
    <3> QED BY <1>6, <2>1, <3>1, <3>2, <3>3
  <2>6. CASE c.do \in {"create", "update"} /\ c.role = "proxy"
    <3>1. \A m : ~Pend("create", "web", m)' /\ ~Pend("create", "backend", m)'
      BY <1>5, <1>6, <2>6
    <3>2. CASE p = n
      BY <1>7, <2>6, <3>1, <3>2
    <3>3. CASE p # n
      <4>1. "proxy" \in daemons[p] /\ routes'[p] = routes[p]
        BY <1>7, <1>8, <2>2, <3>3
      <4> QED BY <1>6, <2>1, <2>3, <2>6, <3>1, <3>3, <4>1
    <3> QED BY <3>2, <3>3
  <2>7. CASE c.do # "stop" /\ ~(c.do \in {"create", "update"} /\ c.role = "proxy")
    <3>1. c.role # "proxy"
      BY <1>5, <2>7, RoleFacts
    <3>2. "proxy" \in daemons[p] /\ routes'[p] = routes[p]
      BY <1>7, <1>8, <2>2, <3>1
    <3>3. Pend("update", "proxy", p)' <=> Pend("update", "proxy", p)
      BY <1>6, <3>1
    <3>4. \A r, m : Pend("create", r, m)' => Pend("create", r, m)
      BY <1>6
    <3> QED BY <2>1, <2>3, <2>7, <3>2, <3>3, <3>4
  <2> QED BY <2>4, <2>5, <2>6, <2>7
<1>17. AlwaysServed'
  <2> SUFFICES ASSUME state \in {"RUNNING", "ADAPTING"}, NEW r \in Role
               PROVE  Serving(r)' # {}
    BY <1>2 DEF AlwaysServed
  <2>1. worker.op # "stop" /\ ~Stopping
    BY <1>3, <1>10 DEF StateOf
  <2>2. CASE c.do # "stop"
    <3>1. PICK m : m \in Serving(r)
      BY <1>3, <1>4 DEF AlwaysServed
    <3>2. m \in up /\ m \in Node /\ r \in daemons[m]
      BY <1>9, <3>1 DEF Serving
    <3>3. r \in daemons'[m]
      BY <1>8, <2>2, <3>2
    <3> QED BY <1>2, <3>2, <3>3 DEF Serving
  <2>3. CASE c.do = "stop"
    <3>1. PICK m : m \in With(r)
      BY <1>4, <1>5 DEF Shape, Provisioned
    <3>2. m \in nodes /\ m \in Node /\ r \in roles[m]
      BY <1>9, <3>1
    <3>3. ~Pend("create", r, m)
      BY <1>5, <2>1, <2>3
    <3>4. r \in daemons[m] /\ (Pend("stop", r, m) => r \notin roles[m])
      BY <1>4, <2>1, <3>2, <3>3 DEF DaemonsOK
    <3>5. ~(m = n /\ r = c.role)
      BY <1>5, <2>3, <3>2, <3>4
    <3>6. r \in daemons'[m]
      BY <1>8, <3>2, <3>4, <3>5
    <3> QED BY <1>9, <3>2, <3>6
  <2> QED BY <2>2, <2>3
<1> QED BY <1>12, <1>13, <1>14, <1>15, <1>16, <1>17

-----------------------------------------------------------------------------
(* The end of a worker. *)

\* When all calls are made and the service does not stop, its nodes are what
\* their roles say.
LEMMA AllDone ==
    ASSUME TypeOK, Outside, DaemonsOK, CodeOK, RoutesOK, Shape,
           HasProgram, worker.op # "stop",
           \A i \in DOMAIN worker.todo : worker.todo[i].on = {}
    PROVE  /\ Provisioned /\ nodes # {}
           /\ \A n \in nodes : daemons[n] = roles[n] /\ code[n] = current
           /\ ~raced => \A n \in With("proxy") : routes[n] = TuplesNow
<1>1. \A do, r, n : ~Pend(do, r, n)
  BY NothingPending DEF Pend
<1>2. ~Stopping
  BY DEF Stopping
<1>3. Provisioned /\ nodes # {}
  BY <1>2 DEF Shape, Hook, HasProgram
<1>4. \A n \in nodes : \A r \in Role : r \in daemons[n] <=> r \in roles[n]
  BY <1>1, <1>2 DEF DaemonsOK
<1>5. \A n \in nodes : daemons[n] \subseteq Role /\ roles[n] \subseteq Role
  BY DEF TypeOK
<1>6. \A n \in nodes : daemons[n] = roles[n]
  BY <1>4, <1>5
<1>7. \A n \in nodes : code[n] = current
  BY <1>1, <1>2 DEF CodeOK
<1>8. \A n \in With("proxy") : n \in Serving("proxy")
  BY <1>6, ServingFacts
<1>9. ~raced => \A n \in With("proxy") : routes[n] = TuplesNow
  BY <1>1, <1>8 DEF RoutesOK
<1> QED BY <1>3, <1>6, <1>7, <1>9

\* The counts made anew are those of the stand-alone nodes.
LEMMA RecountCounts ==
    ASSUME TypeOK, Provisioned, NEW c, c = Recount(nodes, roles)
    PROVE  /\ c["proxy"] = Cardinality(With("proxy"))
           /\ \A r \in {"web", "backend"} : c[r] = Cardinality(With(r) \ With("proxy"))
<1>1. \A r \in Role :
        c[r] = IF r # "proxy" /\ Cardinality(With(r)) = 1 /\ With(r) \subseteq With("proxy")
               THEN 0 ELSE Cardinality(With(r))
  BY DEF Recount, With
<1>2. c["proxy"] = Cardinality(With("proxy"))
  BY <1>1, RoleFacts
<1>3. ASSUME NEW r \in {"web", "backend"} PROVE c[r] = Cardinality(With(r) \ With("proxy"))
  <2>1. r \in Role /\ r # "proxy" /\ With(r) # {}
    BY RoleFacts DEF Provisioned
  <2>2. CASE With(r) \cap With("proxy") = {}
    <3>1. With(r) \ With("proxy") = With(r) /\ ~(With(r) \subseteq With("proxy"))
      BY <2>1, <2>2
    <3> QED BY <1>1, <2>1, <3>1
  <2>3. CASE With(r) \cap With("proxy") # {}
    <3>1. PICK a : With(r) = {a} /\ a \in With("proxy")
      BY <2>3 DEF Provisioned
    <3>2. Cardinality(With(r)) = 1
      BY <3>1, FS_Singleton
    <3>3. With(r) \ With("proxy") = {} /\ With(r) \subseteq With("proxy")
      BY <3>1
    <3>4. Cardinality(With(r) \ With("proxy")) = 0
      BY <3>3, FS_EmptySet
    <3> QED BY <1>1, <2>1, <3>2, <3>3, <3>4
  <2> QED BY <2>2, <2>3
<1> QED BY <1>2, <1>3

\* All calls are made: a service that goes on is quiet, a stopped one is empty.
LEMMA HealthyFinish ==
    ASSUME Always, Always', Healthy, Finish
    PROVE  Healthy'
<1>1. /\ HasProgram /\ \A i \in DOMAIN worker.todo : worker.todo[i].on = {}
      /\ worker' = None
      /\ Gone \subseteq nodes /\ nodes' = nodes \ Gone
      /\ roles' = [n \in Node |-> IF n \in Gone THEN {} ELSE roles[n]]
      /\ daemons' = [n \in Node |-> IF n \in Gone THEN {} ELSE daemons[n]]
      /\ routes' = [n \in Node |-> IF n \in Gone THEN NoRoute ELSE routes[n]]
      /\ code' = [n \in Node |-> IF n \in Gone THEN None ELSE code[n]]
      /\ count' = IF worker.op \in {"add", "remove"} THEN Recount(nodes', roles) ELSE count
      /\ state' = IF worker.op = "stop" THEN "STOPPED" ELSE "RUNNING"
      /\ failed' = (failed /\ worker.op # "stop")
      /\ UNCHANGED <<current, raced, misplaced>>
  BY FinishFacts DEF Always
<1>2. TypeOK /\ Outside /\ TypeOK' /\ Outside' /\ ~HasProgram'
  BY <1>1 DEF Always, HasProgram
<1>3. SUFFICES ASSUME Sound' PROVE Quiet'
  BY <1>2, QuietHealthyNext
<1>4. CASE worker.op = "stop"
  <2>1. nodes' = {} /\ state' = "STOPPED"
    BY <1>1, <1>4 DEF Gone
  <2> QED BY <1>1, <1>2, <2>1 DEF Quiet, AtRest, Shape, With, Having
<1>5. CASE worker.op # "stop"
  <2>1. Sound
    <3>1. failed' = failed /\ misplaced' = misplaced
      BY <1>1, <1>2, <1>5 DEF TypeOK
    <3> QED BY <1>3, <3>1 DEF Sound
  <2>2. Shape /\ CountsOK /\ DaemonsOK /\ CodeOK /\ RoutesOK
    BY <2>1 DEF Healthy
  <2>3. /\ Provisioned /\ nodes # {}
        /\ \A n \in nodes : daemons[n] = roles[n] /\ code[n] = current
        /\ ~raced => \A n \in With("proxy") : routes[n] = TuplesNow
    BY <1>1, <1>2, <1>5, <2>2, AllDone
  \* The nodes that go have no role.
  <2>4. /\ nodes \subseteq Node
        /\ \A n \in nodes' : n \in nodes /\ n \notin Gone
        /\ \A n \in nodes : n \notin nodes' => roles[n] = {}
    BY <1>1, <1>2, <1>5 DEF Gone, TypeOK
  <2>5. \A n \in nodes' : /\ roles'[n] = roles[n] /\ daemons'[n] = daemons[n]
                          /\ routes'[n] = routes[n] /\ code'[n] = code[n]
    BY <1>1, <2>4
  <2>6. \A r : With(r)' = With(r) /\ Having(r, nodes', roles) = With(r)
    BY <2>4, <2>5 DEF With, Having
  <2>7. TuplesNow' = TuplesNow
    BY <2>6 DEF TuplesNow
  <2>8. With("proxy") # {} /\ \A n \in With("proxy") : n \in nodes'
    BY <2>3, <2>6, RoleFacts DEF Provisioned, With, Having
  <2>9. AtRest' /\ Shape'
    <3>1. Provisioned'
      BY <2>3, <2>6 DEF Provisioned
    <3> QED BY <1>1, <1>5, <2>8, <3>1 DEF AtRest, Shape
  <2>10. Counted'
    <3>1. CASE worker.op \in {"add", "remove"}
      <4>1. Recount(nodes', roles) = Recount(nodes, roles)
        BY <2>6 DEF Recount, With
      <4>2. count' = Recount(nodes, roles)
        BY <1>1, <3>1, <4>1
      <4>3. /\ count'["proxy"] = Cardinality(With("proxy"))
            /\ \A r \in {"web", "backend"} : count'[r] = Cardinality(With(r) \ With("proxy"))
        BY <1>2, <2>3, <4>2, RecountCounts
      <4> QED BY <2>6, <4>3 DEF Counted
    <3>2. CASE worker.op \notin {"add", "remove"}
      <4>1. Counted /\ count' = count
        BY <1>1, <2>2, <2>3, <3>2 DEF CountsOK
      <4> QED BY <2>6, <4>1 DEF Counted
    <3> QED BY <3>1, <3>2
  <2>11. \A n \in nodes' : daemons'[n] = roles'[n] /\ code'[n] = current'
    BY <1>1, <2>3, <2>4, <2>5
  <2>12. ~raced' => \A n \in With("proxy")' : routes'[n] = TuplesNow'
    BY <1>1, <2>3, <2>5, <2>6, <2>7, <2>8
  <2> QED BY <2>9, <2>10, <2>11, <2>12 DEF Quiet
<1> QED BY <1>4, <1>5

-----------------------------------------------------------------------------
(* The theorems. *)

\* The hooks, the calls and the end of a worker keep the health.
LEMMA HealthyWork == Always /\ Always' /\ Healthy /\ Work => Healthy'
  BY HealthyNodesFailed, HealthyStartHook, HealthyAddHook, HealthyRemoveHook, HealthyStopHook,
     HealthyConfigureHook, HealthyAgentCall, HealthyCallFails, HealthyFinish DEF Work

\* Types and programs, whatever fails, and the health of a service that has not
\* failed are kept by every handler, hook and call.
THEOREM Inductive == Spec => []IInv
<1>1. Init => IInv
  BY AlwaysInit, HealthyInit DEF IInv
<1>2. IInv /\ [Next]_vars => IInv'
  <2> SUFFICES ASSUME Always, Healthy, [Next]_vars PROVE Always' /\ Healthy'
    BY DEF IInv
  <2>1. Always'
    BY AlwaysStep
  <2>2. CASE UNCHANGED vars
    <3>1. UNCHANGED <<state, count, roles, nodes, up, current, daemons, routes, code, worker,
                      failed, raced, misplaced>>
      BY <2>2 DEF vars, config, agent, history
    <3>2. RoutesOK => RoutesOK'
      BY <3>1 DEF RoutesOK, Serving, With, Having, TuplesNow, Pend, Alive
    <3> QED BY <2>1, <3>1, <3>2, HealthyFrame
  <2> QED BY <2>1, <2>2, HealthyHandle, HealthyWork DEF Next
<1> QED BY <1>1, <1>2, PTL DEF Spec

\* The handlers, the hooks of the manager and the calls to the agents keep every
\* variable in its type.
THEOREM TypeCorrect == Spec => []TypeOK
<1>1. IInv => TypeOK
  BY DEF IInv, Always
<1> QED BY <1>1, Inductive, PTL

\* on_add_nodes, on_remove_nodes and do_update_configuration make before they
\* break: a service in S_RUNNING or S_ADAPTING never lacks a daemon of any role.
THEOREM AlwaysServedAlways == Spec => []AlwaysServed
<1>1. IInv => AlwaysServed
  BY DEF IInv, Healthy, AlwaysServed
<1> QED BY <1>1, Inductive, PTL

\* No proxy routes to a web or backend daemon that does not run: _update_proxy
\* comes between the creation and the end of the daemons it is about.
THEOREM RoutesAliveAlways == Spec => []RoutesAlive
<1>1. IInv => RoutesAlive
  <2> SUFFICES ASSUME Always, Healthy, Sound, ~raced,
                      NEW n \in Serving("proxy") \cap With("proxy")
               PROVE  Alive(routes[n])
    BY DEF IInv, RoutesAlive, Alive
  <2>1. TypeOK /\ Outside /\ Shape /\ DaemonsOK /\ StoppingOK /\ RoutesOK
    BY DEF Always, Healthy
  <2>2. /\ n \in nodes /\ "proxy" \in daemons[n]
        /\ \A r : /\ With(r) \subseteq nodes
                  /\ \A m \in nodes : /\ m \in Serving(r) <=> r \in daemons[m]
                                      /\ m \in With(r) <=> r \in roles[m]
    BY <2>1, ServingFacts
  <2>3. With("web") # {}
    BY <2>1, <2>2, RoleFacts DEF Shape, Provisioned
  <2>4. ASSUME \A r \in {"web", "backend"}, m \in nodes : ~Pend("create", r, m)
        PROVE  With("web") \subseteq Serving("web") /\ With("backend") \subseteq Serving("backend")
    <3> SUFFICES ASSUME NEW r \in {"web", "backend"}, NEW m \in With(r)
                 PROVE  r \in daemons[m]
      BY <2>2
    <3>1. m \in nodes /\ r \in roles[m] /\ r \in Role
      BY <2>2, RoleFacts
    <3>2. CASE ~Stopping
      BY <2>1, <2>4, <3>1, <3>2 DEF DaemonsOK
    <3>3. CASE Stopping
      <4>1. Pend("stop", "proxy", n)
        BY <2>1, <2>2, <3>3, RoleFacts DEF StoppingOK
      <4>2. Pend("stop", r, m)
        BY <2>1, <2>2, <3>1, <3>3, <4>1 DEF StoppingOK
      <4> QED BY <2>1, <3>1, <3>3, <4>2 DEF StoppingOK
    <3> QED BY <3>2, <3>3
  <2>5. CASE /\ routes[n] = TuplesNow
             /\ \A r \in {"web", "backend"}, m \in nodes : ~Pend("create", r, m)
    BY <2>3, <2>4, <2>5 DEF Alive, TuplesNow
  <2> QED BY <2>1, <2>5 DEF RoutesOK
<1> QED BY <1>1, Inductive, PTL

\* When the hooks are done and the service is S_RUNNING, proxy_count, web_count
\* and backend_count are the numbers of stand-alone nodes, and every agent runs
\* the daemons, the code and the lists that the configuration says.
THEOREM SettledAlways == Spec => []Settled
<1>1. IInv => Settled
  <2> SUFFICES ASSUME Always, Healthy, Sound, state = "RUNNING" PROVE Settled
    BY DEF IInv, Settled
  <2>1. TypeOK /\ Outside /\ ~HasProgram
    BY DEF Always, WorkerFits, StateOf, HasProgram
  <2>2. Quiet
    BY <2>1, QuietHealthy
  <2>3. Counted
    BY <2>2 DEF Quiet, Shape
  <2>4. Serving("proxy") \subseteq With("proxy")
    BY <2>1, <2>2, ServingFacts DEF Quiet
  <2> QED BY <2>2, <2>3, <2>4 DEF Quiet, Settled, Counted
<1> QED BY <1>1, Inductive, PTL

\* No call of a worker is one that the agent refuses: _create finds no daemon of
\* the kind, _update and _stop find one, and a proxy has web nodes.
THEOREM NothingRefusedAlways == Spec => []NothingRefused
<1>1. IInv => NothingRefused
  BY Refused DEF IInv
<1> QED BY <1>1, Inductive, PTL
=================================================================================
