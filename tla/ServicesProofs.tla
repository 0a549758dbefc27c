---------------------------- MODULE ServicesProofs ----------------------------
(***************************************************************************)
(* Proofs about Services, for every number of requests, of starts of the   *)
(* application and of services: types, Listed and NoGhost.                 *)
(***************************************************************************)
EXTENDS Services, TLAPS

\* The service a request is about.
About(j) == Of(job[j].mgr, job[j].sid)

\* A request that knows the number of a service.
Mentions(j) == At(j, "add", "answer") \/ At(j, "remove", "call") \/ At(j, "remove", "answer")

\* What is always true of a request, by its kind and its place.
JobsOK ==
    \A j \in Job : job[j] # None =>
      /\ job[j].kind \in {"add", "remove"} =>
           /\ job[j].pc \in {"call", "answer"}
           /\ job[j].mgr \in 1..started
           /\ job[j].kind = "remove" \/ job[j].pc = "answer" => job[j].sid \in Sid
      /\ job[j].kind = "stop" =>
           /\ manager = None
           /\ job[j].pc = "drop" => \A r \in rows \ job[j].read : r.sid \in late

\* The manager of the application is the last one started; those that have not
\* been started know nothing.
Managers ==
    /\ manager # None => manager = started /\ status = "RUNNING"
    /\ \A r \in rows : r.mgr <= started
    /\ \A r \in removing : r.mgr \in alive
    /\ \A m \in Manager : m > started => service_id[m] = 0
    /\ \A m \in Manager : instances[m] \subseteq 1..service_id[m]

\* Rows of an earlier manager: those entered when it was gone, no others.
Stale ==
    /\ manager # None => \A r \in rows : r.sid \in late \/ r.mgr = manager
    /\ status # "RUNNING" => \A r \in rows : r.sid \in late

\* Whatever is said of the services of the manager, late numbers apart, is about
\* services that it has counted.
Counted ==
    manager # None =>
      /\ \A r \in rows \cup removing :
           r.mgr = manager /\ r.sid \notin late => r.sid <= service_id[manager]
      /\ \A j \in Job :
           Mentions(j) /\ job[j].mgr = manager /\ job[j].sid \notin late =>
             job[j].sid <= service_id[manager]

\* A service whose row has yet to be entered: nobody can have asked to remove it.
Pending(j) == At(j, "add", "answer") /\ job[j].mgr = manager /\ job[j].sid \notin late

Fresh(j) ==
    /\ job[j].sid \in instances[manager]
    /\ About(j) \notin rows \cup removing
    /\ \A i \in Job \ {j} : Mentions(i) => About(i) # About(j)

Entering == \A j \in Job : Pending(j) => Fresh(j)

\* A service that a worker removes has no row, or its row is about to go; and
\* one whose row is about to go is being removed.
Leaving ==
    /\ \A r \in removing :
         r.mgr = manager /\ r.sid \notin late /\ r \notin failed /\ r \in rows =>
           Answering("remove", r)
    /\ \A j \in Job :
         /\ At(j, "remove", "answer") /\ job[j].mgr = manager /\ job[j].sid \notin late
         /\ job[j].sid \in instances[manager]
         => About(j) \in removing \cup failed

IInv ==
    /\ TypeOK /\ Listed /\ NoGhost
    /\ JobsOK /\ Managers /\ Stale /\ Counted /\ Entering /\ Leaving

-----------------------------------------------------------------------------
(* What becomes of the requests under way. *)

\* A new request takes a free slot.
LEMMA BeginJob ==
    ASSUME job \in [Job -> Request \cup {None}], NEW j \in Job,
           NEW kind \in {"add", "remove", "stop"}, NEW pc \in {"call", "read"},
           NEW m \in Manager \cup {None}, NEW s \in Sid \cup {None},
           Begin(j, kind, pc, m, s)
    PROVE  /\ job[j] = None /\ job' \in [Job -> Request \cup {None}]
           /\ job'[j] = [kind |-> kind, pc |-> pc, mgr |-> m, sid |-> s, read |-> {}]
           /\ job'[j] # None
           /\ \A i \in Job : i # j => job'[i] = job[i]
BY NoneAssumption DEF Begin, Request

\* A request that ends leaves its slot.
LEMMA EndJob ==
    ASSUME job \in [Job -> Request \cup {None}], NEW j \in Job, job[j] # None, End(j)
    PROVE  /\ job[j] \in Request /\ job' \in [Job -> Request \cup {None}]
           /\ job'[j] = None
           /\ \A i \in Job : i # j => job'[i] = job[i]
BY DEF End

\* A manager that has answered, or whose answer is lost.
LEMMA AnswerJob ==
    ASSUME job \in [Job -> Request \cup {None}], NEW j \in Job, job[j] # None,
           NEW m \in Manager, NEW s \in Sid, Answer(j, m, s)
    PROVE  /\ job[j] \in Request /\ job' \in [Job -> Request \cup {None}]
           /\ \A i \in Job : i # j => job'[i] = job[i]
           /\ \/ /\ job'[j] # None /\ job'[j].kind = job[j].kind /\ job'[j].pc = "answer"
                 /\ job'[j].mgr = job[j].mgr /\ job'[j].sid = s /\ failed' = failed
              \/ job'[j] = None /\ failed' = failed \cup {Of(m, s)}
<1>1. CASE job' = [job EXCEPT ![j].pc = "answer", ![j].sid = s] /\ failed' = failed
  <2>1. job'[j] = [job[j] EXCEPT !.pc = "answer", !.sid = s] /\ job[j] \in Request
    BY <1>1
  <2>2. job'[j] \in Request
    BY <2>1 DEF Request
  <2> QED
    BY <1>1, <2>1, <2>2, NoneAssumption DEF Request
<1>2. CASE End(j) /\ failed' = failed \cup {Of(m, s)}
  BY <1>2, EndJob
<1> QED
  BY <1>1, <1>2 DEF Answer

\* A service is its manager and its number.
LEMMA OfFacts ==
    /\ \A m, s : Of(m, s).mgr = m /\ Of(m, s).sid = s
    /\ \A r \in Service : r = Of(r.mgr, r.sid) /\ r.mgr \in Manager /\ r.sid \in Sid
    /\ \A m \in Manager, s \in Sid : Of(m, s) \in Service
BY DEF Of, Service

\* The manager that has a row, and those that run, have been started.
LEMMA ManagerFacts ==
    ASSUME TypeOK
    PROVE  /\ started \in Nat /\ started <= MaxManager
           /\ manager = None \/ manager \in 1..started
           /\ alive \subseteq Manager /\ manager \in Manager \cup {None}
           /\ None \notin Manager /\ 1..started \subseteq Manager
BY ServicesAssumption, NoneAssumption DEF TypeOK, Manager

\* A request that knows a number knows a manager that has been started.
LEMMA MentionFacts ==
    ASSUME TypeOK, JobsOK, NEW j \in Job, Mentions(j)
    PROVE  /\ job[j] # None /\ job[j].kind # "stop"
           /\ job[j].mgr \in 1..started /\ job[j].mgr \in Manager /\ job[j].sid \in Sid
           /\ About(j).mgr = job[j].mgr /\ About(j).sid = job[j].sid
<1>1. /\ job[j] # None /\ job[j].kind # "stop"
      /\ job[j].mgr \in 1..started /\ job[j].sid \in Sid
  BY DEF Mentions, At, JobsOK
<1> QED
  BY <1>1, ManagerFacts, OfFacts DEF About, Manager

-----------------------------------------------------------------------------
(* One lemma per action. *)

\* A new manager has no services, and what is listed is late.
LEMMA startappStep ==
    ASSUME IInv, startapp
    PROVE  IInv'
<1> USE NoneAssumption DEF IInv, managers
<1>p. \A r : Answering("add", r)' <=> Answering("add", r)
  BY DEF startapp, Answering, At
<1>q. \A r : Answering("remove", r)' <=> Answering("remove", r)
  BY DEF startapp, Answering, At
<1>1. TypeOK'
  <2>1. started' \in 0..MaxManager /\ alive' \subseteq 1..started'
       /\ manager' \in alive' \cup {None}
    BY ServicesAssumption DEF startapp, TypeOK
  <2> QED
    BY <2>1 DEF startapp, TypeOK, managers
<1>2. Listed'
  <2>1. started + 1 \in Manager /\ started + 1 > started
    BY ServicesAssumption, ManagerFacts DEF startapp, Manager
  <2>2. instances[started + 1] \subseteq 1..0
    BY <2>1 DEF Managers
  <2> QED
    BY <2>2 DEF startapp, Listed
<1>3. NoGhost'
  BY DEF startapp, NoGhost, Stale
<1>4. JobsOK'
  BY DEF startapp, TypeOK, JobsOK, Stopping
<1>5. Managers'
  BY DEF startapp, TypeOK, Manager, Service, Managers
<1>6. Stale'
  BY DEF startapp, Stale
<1>7. Counted'
  BY DEF startapp, TypeOK, JobsOK, Managers, Counted, At, Mentions
<1>8. Entering'
  BY DEF startapp, TypeOK, JobsOK, Entering, Pending, At
<1>9. Leaving'
  BY DEF startapp, TypeOK, JobsOK, Stale, Leaving, At
<1> QED
  BY <1>1, <1>2, <1>3, <1>4, <1>5, <1>6, <1>7, <1>8, <1>9

\* A stop takes the manager away.
LEMMA stopappStep ==
    ASSUME NEW j \in Job, IInv, stopapp(j)
    PROVE  IInv'
<1> USE NoneAssumption DEF IInv, managers
<1>a. /\ job[j] = None /\ job' \in [Job -> Request \cup {None}]
      /\ job'[j] = [kind |-> "stop", pc |-> "read", mgr |-> None, sid |-> None, read |-> {}]
      /\ job'[j] # None /\ \A i \in Job : i # j => job'[i] = job[i]
  BY BeginJob, ManagerFacts DEF stopapp, TypeOK
<1>p. \A r : Answering("add", r)' <=> Answering("add", r)
  BY <1>a DEF stopapp, Answering, At
<1>q. \A r : Answering("remove", r)' <=> Answering("remove", r)
  BY <1>a DEF stopapp, Answering, At
<1>1. TypeOK'
  BY <1>a DEF stopapp, TypeOK
<1>2. Listed'
  BY DEF stopapp, Listed
<1>3. NoGhost'
  BY DEF stopapp, NoGhost
<1>4. JobsOK'
  BY <1>a DEF stopapp, JobsOK
<1>5. Managers'
  BY DEF stopapp, Managers
<1>6. Stale'
  BY DEF stopapp, Stale
<1>7. Counted'
  BY DEF stopapp, Counted
<1>8. Entering'
  <2> SUFFICES ASSUME NEW k \in Job, Pending(k)' PROVE FALSE
    BY DEF Entering
  <2>1. k # j /\ Mentions(k) /\ manager' = None /\ job[k].mgr = None
    BY <1>a DEF stopapp, Pending, Mentions, At, JobsOK
  <2> QED
    BY <2>1, MentionFacts, ManagerFacts
<1>9. Leaving'
  BY <1>a, ManagerFacts DEF stopapp, JobsOK, Managers, Leaving, At
<1> QED
  BY <1>1, <1>2, <1>3, <1>4, <1>5, <1>6, <1>7, <1>8, <1>9

\* Rows that are entered once a stop has read the table are late.
LEMMA ReadServicesStep ==
    ASSUME NEW j \in Job, IInv, ReadServices(j)
    PROVE  IInv'
<1> USE NoneAssumption DEF IInv, managers
<1>a. /\ job[j] # None /\ job[j].kind = "stop" /\ job' \in [Job -> Request \cup {None}]
      /\ job'[j] # None /\ job'[j].kind = "stop" /\ job'[j].pc = "drop"
      /\ job'[j].read = rows
      /\ \A i \in Job : i # j => job'[i] = job[i]
  <2>1. job'[j] = [job[j] EXCEPT !.pc = "drop", !.read = rows] /\ job[j] \in Request
    BY DEF ReadServices, At, TypeOK
  <2>2. job'[j] \in Request
    BY <2>1 DEF Request, TypeOK
  <2> QED
    BY <2>1, <2>2 DEF ReadServices, At, TypeOK, Request
<1>p. \A r : Answering("add", r)' <=> Answering("add", r)
  BY <1>a DEF ReadServices, Answering, At
<1>q. \A r : Answering("remove", r)' <=> Answering("remove", r)
  BY <1>a DEF ReadServices, Answering, At
<1>1. TypeOK'
  BY <1>a DEF ReadServices, TypeOK
<1>2. Listed'
  BY <1>p DEF ReadServices, Listed
<1>3. NoGhost'
  BY DEF ReadServices, NoGhost, JobsOK, Stale, At
<1>4. JobsOK'
  BY DEF ReadServices, TypeOK, JobsOK, At
<1>5. Managers'
  BY DEF ReadServices, Managers
<1>6. Stale'
  BY DEF ReadServices, Stale
<1>7. Counted'
  BY DEF ReadServices, TypeOK, Counted, At, Mentions
<1>8. Entering'
  <2> SUFFICES ASSUME NEW k \in Job, Pending(k)' PROVE FALSE
    BY DEF Entering
  <2>1. k # j /\ Mentions(k) /\ manager' = None /\ job[k].mgr = None
    BY <1>a DEF ReadServices, Pending, Mentions, At, JobsOK
  <2> QED
    BY <2>1, MentionFacts, ManagerFacts
<1>9. Leaving'
  BY DEF ReadServices, TypeOK, JobsOK, Managers, Leaving, At
<1> QED
  BY <1>1, <1>2, <1>3, <1>4, <1>5, <1>6, <1>7, <1>8, <1>9

\* A stop that succeeds leaves no rows but late ones.
LEMMA DropServicesStep ==
    ASSUME NEW j \in Job, IInv, DropServices(j)
    PROVE  IInv'
<1> USE NoneAssumption DEF IInv, managers
<1>a. /\ job[j] # None /\ job[j] \in Request /\ job' \in [Job -> Request \cup {None}]
      /\ job'[j] = None /\ \A i \in Job : i # j => job'[i] = job[i]
  BY EndJob DEF DropServices, TypeOK, At
<1>p. \A r : Answering("add", r)' <=> Answering("add", r)
  BY <1>a DEF DropServices, Answering, At
<1>q. \A r : Answering("remove", r)' <=> Answering("remove", r)
  BY <1>a DEF DropServices, Answering, At
<1>1. TypeOK'
  BY <1>a DEF DropServices, TypeOK
<1>2. Listed'
  BY DEF DropServices, Listed, JobsOK, At
<1>3. NoGhost'
  BY DEF DropServices, NoGhost, JobsOK, Stale, At
<1>4. JobsOK'
  BY <1>a DEF DropServices, JobsOK
<1>5. Managers'
  BY DEF DropServices, JobsOK, Managers, At
<1>6. Stale'
  BY DEF DropServices, JobsOK, Stale, At
<1>7. Counted'
  BY DEF DropServices, JobsOK, Counted, At
<1>8. Entering'
  <2> SUFFICES ASSUME NEW k \in Job, Pending(k)' PROVE FALSE
    BY DEF Entering
  <2>1. k # j /\ Mentions(k) /\ manager' = None /\ job[k].mgr = None
    BY <1>a DEF DropServices, Pending, Mentions, At, JobsOK
  <2> QED
    BY <2>1, MentionFacts, ManagerFacts
<1>9. Leaving'
  BY <1>a, <1>q DEF DropServices, Leaving, About, At
<1> QED
  BY <1>1, <1>2, <1>3, <1>4, <1>5, <1>6, <1>7, <1>8, <1>9

\* The manager that is killed is not the one of the application.
LEMMA KillStep ==
    ASSUME NEW m \in Manager, IInv, Kill(m)
    PROVE  IInv'
<1> USE NoneAssumption DEF IInv, managers
<1>p. \A r : Answering("add", r)' <=> Answering("add", r)
  BY DEF Kill, Answering, At
<1>q. \A r : Answering("remove", r)' <=> Answering("remove", r)
  BY DEF Kill, Answering, At
<1>1. TypeOK'
  <2>1. service_id' \in [Manager -> 0..MaxSid]
    BY ServicesAssumption DEF Kill, TypeOK
  <2>2. instances' \in [Manager -> SUBSET Sid]
    BY DEF Kill, TypeOK
  <2> QED
    BY <2>1, <2>2 DEF Kill, TypeOK, managers
<1>2. Listed'
  BY <1>p, OfFacts DEF Kill, Listed
<1>3. NoGhost'
  BY <1>q DEF Kill, NoGhost, Stopping
<1>4. JobsOK'
  BY DEF Kill, JobsOK
<1>5. Managers'
  BY DEF Kill, TypeOK, Managers
<1>6. Stale'
  BY DEF Kill, Stale
<1>7. Counted'
  BY DEF Kill, Counted, At, Mentions
<1>8. Entering'
  <2> SUFFICES ASSUME NEW k \in Job, Pending(k)' PROVE Fresh(k)'
    BY DEF Entering
  <2>1. job'[k] = job[k] /\ About(k)' = About(k) /\ Pending(k) /\ Fresh(k)
    BY DEF Kill, Entering, Pending, At, About, Late
  <2>2. (job[k].sid \in instances[manager])'
    BY <2>1, MentionFacts DEF Fresh, Pending, Kill, TypeOK, Mentions
  <2>3. (About(k) \notin rows \cup removing)'
    BY <2>1 DEF Fresh, Kill
  <2>4. ASSUME NEW i \in Job \ {k}, Mentions(i)' PROVE About(i)' # About(k)'
    BY <2>1, <2>4 DEF Fresh, Mentions, At, About, Kill
  <2> QED
    BY <2>2, <2>3, <2>4 DEF Fresh
<1>9. Leaving'
  BY <1>q, OfFacts DEF Kill, Leaving, About, At
<1> QED
  BY <1>1, <1>2, <1>3, <1>4, <1>5, <1>6, <1>7, <1>8, <1>9

\* A request to add a service has no number yet.
LEMMA addStep ==
    ASSUME NEW j \in Job, IInv, _add(j)
    PROVE  IInv'
<1> USE NoneAssumption DEF IInv, managers
<1>a. /\ job[j] = None /\ job' \in [Job -> Request \cup {None}]
      /\ job'[j] = [kind |-> "add", pc |-> "call", mgr |-> manager, sid |-> None, read |-> {}]
      /\ job'[j] # None /\ \A i \in Job : i # j => job'[i] = job[i]
  BY BeginJob, ManagerFacts DEF _add, TypeOK
<1>p. \A r : Answering("add", r)' <=> Answering("add", r)
  BY <1>a DEF _add, Answering, At
<1>q. \A r : Answering("remove", r)' <=> Answering("remove", r)
  BY <1>a DEF _add, Answering, At
<1>1. TypeOK'
  BY <1>a DEF _add, TypeOK
<1>2. Listed'
  BY <1>p DEF _add, Listed
<1>3. NoGhost'
  BY <1>q DEF _add, NoGhost, Managers
<1>4. JobsOK'
  BY <1>a DEF _add, TypeOK, JobsOK
<1>5. Managers'
  BY DEF _add, Managers
<1>6. Stale'
  BY DEF _add, Stale
<1>7. Counted'
  <2>1. ASSUME (manager # None)', NEW r \in rows' \cup removing', r.mgr = manager', r.sid \notin late'
        PROVE  (r.sid <= service_id[manager])'
    BY <2>1 DEF _add, Counted
  <2>2. ASSUME (manager # None)', NEW i \in Job, Mentions(i)', (job[i].mgr = manager)',
               (job[i].sid \notin late)'
        PROVE  (job[i].sid <= service_id[manager])'
    BY <1>a, <2>2 DEF _add, Counted, Mentions, At
  <2> QED
    BY <2>1, <2>2 DEF Counted
<1>8. Entering'
  <2> SUFFICES ASSUME NEW k \in Job, Pending(k)' PROVE Fresh(k)'
    BY DEF Entering
  <2>1. job'[k] = job[k] /\ About(k)' = About(k) /\ Pending(k) /\ Fresh(k)
    BY <1>a DEF _add, Entering, Pending, At, About, Late
  <2>2. (job[k].sid \in instances[manager])'
    BY <2>1 DEF Fresh, _add, managers
  <2>3. (About(k) \notin rows \cup removing)'
    BY <2>1 DEF Fresh, _add
  <2>4. ASSUME NEW i \in Job \ {k}, Mentions(i)' PROVE About(i)' # About(k)'
    BY <2>1, <1>a, <2>4 DEF Fresh, Mentions, At, About, _add
  <2> QED
    BY <2>2, <2>3, <2>4 DEF Fresh
<1>9. Leaving'
  BY <1>a, <1>q DEF _add, Leaving, About, At
<1> QED
  BY <1>1, <1>2, <1>3, <1>4, <1>5, <1>6, <1>7, <1>8, <1>9

\* The number that a user asks to remove is that of a service whose row has been
\* entered, or it is late.
LEMMA removeStep ==
    ASSUME NEW j \in Job, NEW s \in Sid, IInv, _remove(j, s)
    PROVE  IInv'
<1> USE NoneAssumption DEF IInv, managers
<1>a. /\ job[j] = None /\ job' \in [Job -> Request \cup {None}]
      /\ job'[j] = [kind |-> "remove", pc |-> "call", mgr |-> manager, sid |-> s, read |-> {}]
      /\ job'[j] # None /\ \A i \in Job : i # j => job'[i] = job[i]
  BY BeginJob, ManagerFacts DEF _remove, TypeOK
<1>p. \A r : Answering("add", r)' <=> Answering("add", r)
  BY <1>a DEF _remove, Answering, At
<1>q. \A r : Answering("remove", r)' <=> Answering("remove", r)
  BY <1>a DEF _remove, Answering, At
<1>1. TypeOK'
  BY <1>a DEF _remove, TypeOK
<1>2. Listed'
  BY <1>p DEF _remove, Listed
<1>3. NoGhost'
  BY <1>q DEF _remove, NoGhost, Managers
<1>4. JobsOK'
  BY <1>a DEF _remove, TypeOK, JobsOK
<1>5. Managers'
  BY DEF _remove, Managers
<1>6. Stale'
  BY DEF _remove, Stale
<1>7. Counted'
  <2>1. ASSUME (manager # None)', NEW r \in rows' \cup removing', r.mgr = manager', r.sid \notin late'
        PROVE  (r.sid <= service_id[manager])'
    BY <2>1 DEF _remove, Counted
  <2>2. ASSUME (manager # None)', NEW i \in Job, Mentions(i)', (job[i].mgr = manager)',
               (job[i].sid \notin late)'
        PROVE  (job[i].sid <= service_id[manager])'
    <3>1. CASE i # j
      BY <1>a, <2>2, <3>1 DEF _remove, Counted, Mentions, At
    <3>2. CASE i = j
      <4>1. job'[i].sid = s /\ s \notin late /\ manager # None
        BY <1>a, <2>2, <3>2 DEF _remove
      <4>2. PICK r \in rows : r.sid = s
        BY DEF _remove
      <4>3. r.mgr = manager
        BY <4>1, <4>2 DEF Stale
      <4> QED
        BY <4>1, <4>2, <4>3 DEF _remove, Counted
    <3> QED BY <3>1, <3>2
  <2> QED
    BY <2>1, <2>2 DEF Counted
<1>8. Entering'
  <2> SUFFICES ASSUME NEW k \in Job, Pending(k)' PROVE Fresh(k)'
    BY DEF Entering
  <2>1. job'[k] = job[k] /\ About(k)' = About(k) /\ Pending(k) /\ Fresh(k)
    BY <1>a DEF _remove, Entering, Pending, At, About, Late
  <2>2. (job[k].sid \in instances[manager])'
    BY <2>1 DEF Fresh, _remove
  <2>3. (About(k) \notin rows \cup removing)'
    BY <2>1 DEF Fresh, _remove
  <2>5. ASSUME NEW i \in Job \ {k}, i # j, Mentions(i)' PROVE About(i)' # About(k)'
    BY <1>a, <2>1, <2>5 DEF Fresh, Mentions, At, About
  <2>6. About(j)' # About(k)
    <3>1. About(j)' = Of(manager, s)
      BY <1>a DEF About
    <3>2. PICK r \in rows : r.sid = s
      BY DEF _remove
    <3>3. SUFFICES ASSUME Of(manager, s) = About(k) PROVE FALSE
      BY <3>1
    <3>4. s \notin late /\ manager # None
      BY <2>1, <3>3, OfFacts DEF Pending, About, _remove
    <3>5. r = Of(manager, s)
      BY <3>2, <3>4, OfFacts DEF Stale, TypeOK
    <3> QED
      BY <2>1, <3>2, <3>3, <3>5 DEF Fresh
  <2>4. ASSUME NEW i \in Job \ {k}, Mentions(i)' PROVE About(i)' # About(k)'
    BY <2>1, <2>4, <2>5, <2>6
  <2> QED
    BY <2>2, <2>3, <2>4 DEF Fresh
<1>9. Leaving'
  BY <1>a, <1>q DEF _remove, Leaving, About, At
<1> QED
  BY <1>1, <1>2, <1>3, <1>4, <1>5, <1>6, <1>7, <1>8, <1>9

\* The row that is entered is that of a service which the manager has, or it is
\* late.
LEMMA InsertRowStep ==
    ASSUME NEW j \in Job, IInv, InsertRow(j)
    PROVE  IInv'
<1> USE NoneAssumption DEF IInv, managers
<1>a. /\ job[j] # None /\ job[j] \in Request /\ job' \in [Job -> Request \cup {None}]
      /\ job'[j] = None /\ \A i \in Job : i # j => job'[i] = job[i]
  BY EndJob DEF InsertRow, TypeOK, At
<1>p. \A r : Answering("add", r) => Answering("add", r)' \/ r = About(j)
  BY <1>a DEF InsertRow, Answering, At, About
<1>q. \A r : Answering("remove", r)' <=> Answering("remove", r)
  BY <1>a DEF InsertRow, Answering, At
<1>1. TypeOK'
  <2>1. job[j].mgr \in Manager /\ job[j].sid \in Sid
    BY <1>a, ManagerFacts DEF InsertRow, JobsOK, At
  <2>2. rows' \subseteq Service
    BY <2>1, OfFacts DEF InsertRow, TypeOK
  <2>3. late' \subseteq Sid
    BY <2>1 DEF InsertRow, Late, TypeOK
  <2> QED
    BY <1>a, <2>1, <2>2, <2>3 DEF InsertRow, TypeOK, managers
<1>2. Listed'
  BY <1>p DEF InsertRow, Listed, About, Late
<1>3. NoGhost'
  BY <1>q, OfFacts DEF InsertRow, NoGhost, JobsOK, Managers, Stale, Entering,
     Pending, Fresh, At, Late
<1>4. JobsOK'
  BY <1>a, OfFacts DEF InsertRow, JobsOK, At, Late
<1>5. Managers'
  BY OfFacts DEF InsertRow, JobsOK, Managers, At
<1>6. Stale'
  BY OfFacts DEF InsertRow, JobsOK, Managers, Stale, At, Late
<1>7. Counted'
  <2>1. ASSUME (manager # None)', NEW r \in rows' \cup removing', r.mgr = manager', r.sid \notin late'
        PROVE  (r.sid <= service_id[manager])'
    <3>1. CASE r \in rows \cup removing
      BY <2>1, <3>1 DEF InsertRow, Counted, Late
    <3>2. CASE r = About(j)
      <4>1. Mentions(j) /\ manager # None
        BY <2>1 DEF InsertRow, Mentions
      <4>2. r.mgr = job[j].mgr /\ r.sid = job[j].sid
        BY <3>2, OfFacts DEF About
      <4> QED
        BY <2>1, <4>1, <4>2 DEF InsertRow, Counted, Late
    <3> QED
      BY <2>1, <3>1, <3>2 DEF InsertRow, About
  <2>2. ASSUME (manager # None)', NEW i \in Job, Mentions(i)', (job[i].mgr = manager)',
               (job[i].sid \notin late)'
        PROVE  (job[i].sid <= service_id[manager])'
    BY <1>a, <2>2 DEF InsertRow, Counted, Mentions, At, Late
  <2> QED
    BY <2>1, <2>2 DEF Counted
<1>8. Entering'
  <2> SUFFICES ASSUME NEW k \in Job, Pending(k)' PROVE Fresh(k)'
    BY DEF Entering
  <2>1. job'[k] = job[k] /\ About(k)' = About(k) /\ Pending(k) /\ Fresh(k)
    BY <1>a DEF InsertRow, Entering, Pending, At, About, Late
  <2>2. (job[k].sid \in instances[manager])'
    BY <2>1 DEF Fresh, InsertRow
  <2>3. (About(k) \notin rows \cup removing)'
    BY <2>1, <1>a, OfFacts DEF Fresh, InsertRow, Mentions, At, About
  <2>4. ASSUME NEW i \in Job \ {k}, Mentions(i)' PROVE About(i)' # About(k)'
    BY <2>1, <1>a, <2>4 DEF Fresh, Mentions, At, About, InsertRow
  <2> QED
    BY <2>2, <2>3, <2>4 DEF Fresh
<1>9. Leaving'
  BY <1>a, <1>q, OfFacts DEF InsertRow, Entering, Pending, Fresh, Leaving,
     About, At, Late
<1> QED
  BY <1>1, <1>2, <1>3, <1>4, <1>5, <1>6, <1>7, <1>8, <1>9

\* The row that goes is that of a service which is being removed, or it is late.
LEMMA DropRowStep ==
    ASSUME NEW j \in Job, IInv, DropRow(j)
    PROVE  IInv'
<1> USE NoneAssumption DEF IInv, managers
<1>a. /\ job[j] # None /\ job[j] \in Request /\ job' \in [Job -> Request \cup {None}]
      /\ job'[j] = None /\ \A i \in Job : i # j => job'[i] = job[i]
  BY EndJob DEF DropRow, TypeOK, At
<1>p. \A r : Answering("add", r)' <=> Answering("add", r)
  BY <1>a DEF DropRow, Answering, At
<1>q. \A r : Answering("remove", r) => Answering("remove", r)' \/ r = About(j)
  BY <1>a DEF DropRow, Answering, At, About
<1>b. /\ rows' \subseteq rows /\ late \subseteq late'
      /\ \A r \in rows \ rows' : r.sid = job[j].sid
      /\ job[j].sid \notin late' => job[j].mgr = manager
      /\ job[j].sid \notin late' /\ manager # None => About(j) \notin rows'
  <2>1. /\ rows' \subseteq rows /\ late \subseteq late'
        /\ \A r \in rows \ rows' : r.sid = job[j].sid
        /\ job[j].sid \notin late' => job[j].mgr = manager
    BY DEF DropRow, get_service, Late
  <2>2. ASSUME job[j].sid \notin late', manager # None, About(j) \in rows' PROVE FALSE
    <3>1. /\ About(j).sid = job[j].sid /\ About(j) = Of(manager, job[j].sid)
          /\ About(j) \in get_service(job[j].sid)
      BY <2>1, <2>2, OfFacts DEF About, get_service
    <3>2. \A r \in get_service(job[j].sid) : r = About(j)
      BY <2>1, <2>2, <3>1, OfFacts DEF get_service, Stale, TypeOK
    <3> QED
      BY <2>2, <3>1, <3>2 DEF DropRow
  <2> QED BY <2>1, <2>2
<1>1. TypeOK'
  <2>1. job[j].sid \in Sid
    BY <1>a DEF DropRow, JobsOK, At
  <2>2. rows' \subseteq Service
    BY DEF DropRow, TypeOK
  <2>3. late' \subseteq Sid
    BY <2>1 DEF DropRow, Late, TypeOK
  <2> QED
    BY <1>a, <2>1, <2>2, <2>3 DEF DropRow, TypeOK, managers
<1>2. Listed'
  <2> SUFFICES ASSUME manager # None, NEW s \in instances[manager] \ late'
               PROVE  \/ Of(manager, s) \in rows' \cup failed' \cup removing'
                      \/ Answering("add", Of(manager, s))'
    BY DEF Listed, DropRow
  <2>1. \/ Of(manager, s) \in rows \cup failed \cup removing
        \/ Answering("add", Of(manager, s))
    BY <1>b DEF Listed
  <2>2. CASE Of(manager, s) \in rows \ rows'
    <3>1. s = job[j].sid /\ job[j].mgr = manager /\ s \notin late
      BY <1>b, <2>2, OfFacts
    <3>2. About(j) \in removing \cup failed
      BY <3>1 DEF Leaving, DropRow
    <3> QED
      BY <3>1, <3>2 DEF About, DropRow
  <2> QED
    BY <1>p, <2>1, <2>2 DEF DropRow
<1>3. NoGhost'
  <2> SUFFICES ASSUME NEW r \in rows', r \notin failed', r.sid \notin late'
               PROVE  /\ manager # None =>
                           /\ r.mgr = manager
                           /\ r.sid \in instances[manager] \/ Answering("remove", r)'
                      /\ status = "STOPPED" => Stopping'
    BY DEF NoGhost, DropRow
  <2>1. r \in rows /\ r \notin failed /\ r.sid \notin late
    BY <1>b DEF DropRow
  <2>2. status # "STOPPED"
    BY <2>1, <1>b DEF Stale
  <2>3. ASSUME manager # None
        PROVE  r.mgr = manager /\ (r.sid \in instances[manager] \/ Answering("remove", r)')
    <3>1. r.mgr = manager /\ (r.sid \in instances[manager] \/ Answering("remove", r))
      BY <2>1, <2>3 DEF NoGhost
    <3>2. r # About(j)
      BY <1>b, <2>3, OfFacts DEF About
    <3> QED
      BY <1>q, <3>1, <3>2
  <2> QED
    BY <2>2, <2>3
<1>4. JobsOK'
  BY <1>a DEF DropRow, JobsOK, Late
<1>5. Managers'
  BY DEF DropRow, Managers
<1>6. Stale'
  BY DEF DropRow, Stale, Late
<1>7. Counted'
  <2>1. ASSUME (manager # None)', NEW r \in rows' \cup removing', r.mgr = manager', r.sid \notin late'
        PROVE  (r.sid <= service_id[manager])'
    BY <2>1 DEF DropRow, Counted, Late
  <2>2. ASSUME (manager # None)', NEW i \in Job, Mentions(i)', (job[i].mgr = manager)',
               (job[i].sid \notin late)'
        PROVE  (job[i].sid <= service_id[manager])'
    BY <1>a, <2>2 DEF DropRow, Counted, Mentions, At, Late
  <2> QED
    BY <2>1, <2>2 DEF Counted
<1>8. Entering'
  <2> SUFFICES ASSUME NEW k \in Job, Pending(k)' PROVE Fresh(k)'
    BY DEF Entering
  <2>1. job'[k] = job[k] /\ About(k)' = About(k) /\ Pending(k) /\ Fresh(k)
    BY <1>a DEF DropRow, Entering, Pending, At, About, Late
  <2>2. (job[k].sid \in instances[manager])'
    BY <2>1 DEF Fresh, DropRow
  <2>3. (About(k) \notin rows \cup removing)'
    BY <2>1 DEF Fresh, DropRow
  <2>4. ASSUME NEW i \in Job \ {k}, Mentions(i)' PROVE About(i)' # About(k)'
    BY <2>1, <1>a, <2>4 DEF Fresh, Mentions, At, About, DropRow
  <2> QED
    BY <2>2, <2>3, <2>4 DEF Fresh
<1>9. Leaving'
  <2>1. ASSUME NEW r \in removing, r.mgr = manager, r.sid \notin late', r \notin failed, r \in rows'
        PROVE  Answering("remove", r)'
    <3>1. Answering("remove", r)
      BY <1>b, <2>1 DEF Leaving
    <3>2. r.mgr # None
      BY <2>1, OfFacts, ManagerFacts DEF TypeOK
    <3>3. r # About(j)
      BY <1>b, <2>1, <3>2, OfFacts DEF About
    <3> QED
      BY <1>q, <3>1, <3>3
  <2>2. ASSUME NEW i \in Job, At(i, "remove", "answer")', job'[i].mgr = manager,
               job'[i].sid \notin late', job'[i].sid \in instances[manager]
        PROVE  About(i)' \in removing \cup failed
    BY <1>a, <1>b, <2>2 DEF Leaving, At, About
  <2> QED
    BY <2>1, <2>2 DEF Leaving, DropRow
<1> QED
  BY <1>1, <1>2, <1>3, <1>4, <1>5, <1>6, <1>7, <1>8, <1>9

\* A new service has a number that nobody has mentioned.
LEMMA add_serviceStep ==
    ASSUME NEW j \in Job, IInv, add_service(j)
    PROVE  IInv'
<1> USE NoneAssumption DEF IInv, managers
<1>0. /\ job[j] # None /\ job[j].kind = "add" /\ job[j].pc = "call"
      /\ job[j].mgr \in Manager /\ service_id[job[j].mgr] \in Nat
      /\ service_id[job[j].mgr] + 1 \in Sid /\ job[j].mgr \in alive
  <2>1. job[j] # None /\ job[j].kind = "add" /\ job[j].pc = "call" /\ job[j].mgr \in Manager
    BY ManagerFacts DEF add_service, At
  <2>2. service_id[job[j].mgr] \in 0..MaxSid /\ service_id[job[j].mgr] < MaxSid
    BY <2>1 DEF add_service, TypeOK
  <2> QED
    BY <2>1, <2>2, ServicesAssumption DEF add_service, Sid
<1>b. /\ service_id' = [service_id EXCEPT ![job[j].mgr] = @ + 1]
      /\ service_id'[job[j].mgr] = service_id[job[j].mgr] + 1
      /\ instances' = [instances EXCEPT ![job[j].mgr] = @ \cup {service_id[job[j].mgr] + 1}]
  BY <1>0 DEF add_service, TypeOK
<1>a. /\ job' \in [Job -> Request \cup {None}]
      /\ \A i \in Job : i # j => job'[i] = job[i]
      /\ \/ /\ job'[j] # None /\ job'[j].kind = "add" /\ job'[j].pc = "answer"
            /\ job'[j].mgr = job[j].mgr /\ job'[j].sid = service_id[job[j].mgr] + 1
            /\ failed' = failed
         \/ /\ job'[j] = None
            /\ failed' = failed \cup {Of(job[j].mgr, service_id[job[j].mgr] + 1)}
  BY <1>0, <1>b, AnswerJob DEF add_service, TypeOK
<1>p. \A r : Answering("add", r) => Answering("add", r)'
  BY <1>0, <1>a DEF Answering, At
<1>r. ASSUME NEW r, r = Of(job[j].mgr, service_id[job[j].mgr] + 1)
      PROVE  Answering("add", r)' \/ r \in failed'
  <2>1. CASE r \in failed'
    BY <2>1
  <2>2. CASE r \notin failed'
    <3>1. At(j, "add", "answer")' /\ Of(job[j].mgr, job[j].sid)' = r
      BY <1>a, <1>r, <2>2 DEF At
    <3> QED
      BY <3>1 DEF Answering
  <2> QED BY <2>1, <2>2
<1>q. \A r : Answering("remove", r)' <=> Answering("remove", r)
  BY <1>0, <1>a DEF Answering, At
<1>1. TypeOK'
  <2>0. service_id[job[j].mgr] + 1 \in 0..MaxSid
    BY <1>0 DEF Sid
  <2>1. service_id' \in [Manager -> 0..MaxSid]
    BY <1>0, <1>b, <2>0 DEF TypeOK
  <2>2. instances' \in [Manager -> SUBSET Sid]
    BY <1>0, <1>b DEF TypeOK
  <2>3. failed' \subseteq Service
    BY <1>0, <1>a, <1>b, OfFacts DEF TypeOK
  <2> QED
    BY <1>a, <2>1, <2>2, <2>3 DEF add_service, TypeOK, managers
<1>2. Listed'
  <2> SUFFICES ASSUME manager # None, NEW s \in instances'[manager] \ late
               PROVE  \/ Of(manager, s) \in rows \cup failed' \cup removing
                      \/ Answering("add", Of(manager, s))'
    BY DEF Listed, add_service
  <2>1. CASE s \in instances[manager]
    BY <1>a, <1>p, <2>1 DEF Listed, add_service
  <2>2. CASE s \notin instances[manager]
    <3>1. manager = job[j].mgr /\ s = service_id[job[j].mgr] + 1
      BY <1>0, <1>b, <2>2, ManagerFacts DEF TypeOK
    <3> QED
      BY <1>r, <3>1 DEF add_service
  <2> QED BY <2>1, <2>2
<1>3. NoGhost'
  BY <1>0, <1>a, <1>q DEF add_service, NoGhost, Stopping
<1>4. JobsOK'
  BY <1>0, <1>a DEF add_service, JobsOK
<1>5. Managers'
  <2>1. \A m \in Manager : m # job[j].mgr =>
          service_id'[m] = service_id[m] /\ instances'[m] = instances[m]
    BY <1>b DEF TypeOK
  <2>2. /\ service_id'[job[j].mgr] = service_id[job[j].mgr] + 1
        /\ instances'[job[j].mgr] = instances[job[j].mgr] \cup {service_id[job[j].mgr] + 1}
    BY <1>0, <1>b DEF TypeOK
  <2>3. job[j].mgr <= started
    <3>1. job[j].mgr \in 1..started
      BY <1>0 DEF TypeOK
    <3> QED
      BY <3>1
  <2>4. instances'[job[j].mgr] \subseteq 1..service_id'[job[j].mgr]
    BY <1>0, <2>2 DEF Managers
  <2>5. \A m \in Manager : m > started => service_id'[m] = 0
    BY <1>0, <2>1, <2>3, ManagerFacts DEF Managers, Manager
  <2> QED
    BY <2>1, <2>4, <2>5 DEF Managers, add_service
<1>6. Stale'
  BY DEF add_service, Stale
<1>7. Counted'
  <2>1. ASSUME (manager # None)', NEW r \in rows' \cup removing', r.mgr = manager', r.sid \notin late'
        PROVE  (r.sid <= service_id[manager])'
    <3>1. r.sid <= service_id[manager] /\ r.sid \in Nat
      BY <2>1, OfFacts DEF add_service, Counted, TypeOK, Sid
    <3> QED
      BY <1>0, <1>b, <2>1, <3>1, ManagerFacts DEF add_service, TypeOK
  <2>2. ASSUME (manager # None)', NEW i \in Job, Mentions(i)', (job[i].mgr = manager)',
               (job[i].sid \notin late)'
        PROVE  (job[i].sid <= service_id[manager])'
    <3>1. CASE i # j
      <4>1. job'[i] = job[i] /\ Mentions(i) /\ job[i].mgr = manager
        BY <1>a, <2>2, <3>1 DEF add_service, Mentions, At
      <4>2. job[i].sid <= service_id[manager] /\ job[i].sid \in Nat
        BY <2>2, <4>1, MentionFacts DEF add_service, Counted, Sid
      <4> QED
        BY <1>0, <1>b, <2>2, <4>1, <4>2, ManagerFacts DEF add_service, TypeOK
    <3>2. CASE i = j
      BY <1>0, <1>a, <1>b, <2>2, <3>2 DEF add_service, TypeOK, Sid, Mentions, At
    <3> QED BY <3>1, <3>2
  <2> QED
    BY <2>1, <2>2 DEF Counted
<1>8. Entering'
  <2> SUFFICES ASSUME NEW k \in Job, Pending(k)' PROVE Fresh(k)'
    BY DEF Entering
  <2>0. ASSUME NEW i \in Job, Mentions(i), job[i].sid \notin late,
               About(i) = Of(job[j].mgr, service_id[job[j].mgr] + 1), job[j].mgr = manager
        PROVE  FALSE
    <3>1. job[i].mgr = manager /\ job[i].sid = service_id[manager] + 1 /\ manager # None
      BY <1>0, <2>0, MentionFacts, ManagerFacts, OfFacts
    <3>2. job[i].sid <= service_id[manager]
      BY <2>0, <3>1 DEF Counted
    <3> QED
      BY <1>0, <2>0, <3>1, <3>2
  <2>1. CASE k = j
    <3>1. /\ job[j].mgr = manager /\ About(j)' = Of(manager, service_id[manager] + 1)
          /\ job'[j].sid = service_id[manager] + 1 /\ service_id[manager] + 1 \notin late
          /\ manager # None
      BY <1>0, <1>a, <2>1, ManagerFacts DEF Pending, At, About, add_service
    <3>2. (job[k].sid \in instances[manager])'
      BY <1>0, <1>b, <2>1, <3>1 DEF TypeOK, add_service
    <3>3. (About(k) \notin rows \cup removing)'
      BY <1>0, <1>b, <2>1, <3>1, OfFacts DEF Counted, TypeOK, add_service, Sid
    <3>4. ASSUME NEW i \in Job \ {k}, Mentions(i)' PROVE About(i)' # About(k)'
      <4>1. Mentions(i) /\ About(i)' = About(i) /\ job'[i] = job[i]
        BY <1>a, <2>1, <3>4 DEF Mentions, At, About
      <4> QED
        BY <2>0, <2>1, <3>1, <4>1, MentionFacts, OfFacts DEF About
    <3> QED
      BY <3>2, <3>3, <3>4 DEF Fresh
  <2>2. CASE k # j
    <3>1. job'[k] = job[k] /\ About(k)' = About(k) /\ Pending(k) /\ Fresh(k)
      BY <1>0, <1>a, <2>2 DEF add_service, Entering, Pending, At, About, Late
    <3>2. (job[k].sid \in instances[manager])'
      BY <3>1, <1>b DEF Fresh, Pending
    <3>3. (About(k) \notin rows \cup removing)'
      BY <3>1 DEF Fresh, add_service
    <3>5. ASSUME NEW i \in Job \ {k}, i # j, Mentions(i)' PROVE About(i)' # About(k)'
      BY <1>a, <3>1, <3>5 DEF Fresh, Mentions, At, About
    <3>6. ASSUME Mentions(j)' PROVE About(j)' # About(k)
      <4>1. About(j)' = Of(job[j].mgr, service_id[job[j].mgr] + 1)
        BY <1>a, <3>6 DEF Mentions, At, About
      <4> QED
        BY <1>0, <2>0, <3>1, <4>1, OfFacts DEF Pending, Mentions, About
    <3>4. ASSUME NEW i \in Job \ {k}, Mentions(i)' PROVE About(i)' # About(k)'
      BY <3>1, <3>4, <3>5, <3>6
    <3> QED
      BY <3>2, <3>3, <3>4 DEF Fresh
  <2> QED BY <2>1, <2>2
<1>9. Leaving'
  <2>1. ASSUME NEW r \in removing, r.mgr = manager, r.sid \notin late, r \notin failed', r \in rows
        PROVE  Answering("remove", r)'
    BY <1>a, <1>q, <2>1 DEF Leaving
  <2>2. ASSUME NEW i \in Job, At(i, "remove", "answer")', job'[i].mgr = manager,
               job'[i].sid \notin late, job'[i].sid \in instances'[manager]
        PROVE  About(i)' \in removing \cup failed'
    <3>1. i # j /\ job'[i] = job[i] /\ Mentions(i) /\ At(i, "remove", "answer")
      BY <1>a, <2>2 DEF At, Mentions
    <3>2. manager \in Manager /\ job[i].sid \in Nat /\ job[i].sid <= service_id[manager]
      BY <2>2, <3>1, MentionFacts, ManagerFacts DEF Counted, Sid
    <3>3. job[i].sid \in instances[manager]
      BY <1>b, <2>2, <3>1, <3>2 DEF TypeOK
    <3> QED
      BY <1>a, <2>2, <3>1, <3>3 DEF Leaving, About
  <2> QED
    BY <2>1, <2>2 DEF Leaving, add_service
<1> QED
  BY <1>1, <1>2, <1>3, <1>4, <1>5, <1>6, <1>7, <1>8, <1>9

\* The worker that removes a service is there before the answer.
LEMMA remove_serviceStep ==
    ASSUME NEW j \in Job, IInv, remove_service(j)
    PROVE  IInv'
<1> USE NoneAssumption DEF IInv, managers
<1>0. /\ job[j] # None /\ job[j].kind = "remove" /\ job[j].pc = "call"
      /\ job[j].mgr \in Manager /\ job[j].sid \in Sid
  BY ManagerFacts DEF remove_service, At, JobsOK
<1>a. /\ job' \in [Job -> Request \cup {None}]
      /\ \A i \in Job : i # j => job'[i] = job[i]
      /\ \/ /\ job'[j] # None /\ job'[j].kind = "remove" /\ job'[j].pc = "answer"
            /\ job'[j].mgr = job[j].mgr /\ job'[j].sid = job[j].sid /\ failed' = failed
         \/ job'[j] = None /\ failed' = failed \cup {Of(job[j].mgr, job[j].sid)}
  BY <1>0, AnswerJob DEF remove_service, TypeOK
<1>p. \A r : Answering("add", r)' <=> Answering("add", r)
  BY <1>0, <1>a DEF Answering, At
<1>q. /\ \A r : Answering("remove", r) => Answering("remove", r)'
      /\ \A r : r = About(j) => Answering("remove", r)' \/ r \in failed'
  BY <1>0, <1>a DEF Answering, At, About
<1>1. TypeOK'
  <2>1. removing' \subseteq Service
    BY <1>0, OfFacts DEF remove_service, TypeOK
  <2>2. failed' \subseteq Service
    BY <1>0, <1>a, OfFacts DEF TypeOK
  <2> QED
    BY <1>a, <2>1, <2>2 DEF remove_service, TypeOK, managers
<1>2. Listed'
  BY <1>a, <1>p DEF remove_service, Listed
<1>3. NoGhost'
  BY <1>0, <1>a, <1>q DEF remove_service, NoGhost, Stopping
<1>4. JobsOK'
  BY <1>0, <1>a DEF remove_service, JobsOK
<1>5. Managers'
  BY OfFacts DEF remove_service, Managers
<1>6. Stale'
  BY DEF remove_service, Stale
<1>7. Counted'
  <2>1. ASSUME (manager # None)', NEW r \in rows' \cup removing', r.mgr = manager', r.sid \notin late'
        PROVE  (r.sid <= service_id[manager])'
    <3>1. CASE r \in rows \cup removing
      BY <2>1, <3>1 DEF remove_service, Counted
    <3>2. CASE r = About(j)
      <4>1. Mentions(j) /\ manager # None
        BY <2>1 DEF remove_service, Mentions
      <4>2. r.mgr = job[j].mgr /\ r.sid = job[j].sid
        BY <3>2, OfFacts DEF About
      <4> QED
        BY <2>1, <4>1, <4>2 DEF remove_service, Counted
    <3> QED
      BY <2>1, <3>1, <3>2 DEF remove_service, About
  <2>2. ASSUME (manager # None)', NEW i \in Job, Mentions(i)', (job[i].mgr = manager)',
               (job[i].sid \notin late)'
        PROVE  (job[i].sid <= service_id[manager])'
    <3>1. Mentions(i) /\ job[i].mgr = manager /\ job'[i].sid = job[i].sid
      BY <1>0, <1>a, <2>2 DEF remove_service, Mentions, At
    <3> QED
      BY <2>2, <3>1 DEF remove_service, Counted
  <2> QED
    BY <2>1, <2>2 DEF Counted
<1>8. Entering'
  <2> SUFFICES ASSUME NEW k \in Job, Pending(k)' PROVE Fresh(k)'
    BY DEF Entering
  <2>1. job'[k] = job[k] /\ About(k)' = About(k) /\ Pending(k) /\ Fresh(k)
    BY <1>0, <1>a DEF remove_service, Entering, Pending, At, About, Late
  <2>2. (job[k].sid \in instances[manager])'
    BY <2>1 DEF Fresh, remove_service
  <2>3. (About(k) \notin rows \cup removing)'
    BY <2>1, <1>0, <1>a DEF Fresh, remove_service, Mentions, At, About
  <2>4. ASSUME NEW i \in Job \ {k}, Mentions(i)' PROVE About(i)' # About(k)'
    BY <2>1, <1>0, <1>a, <2>4 DEF Fresh, Mentions, At, About
  <2> QED
    BY <2>2, <2>3, <2>4 DEF Fresh
<1>9. Leaving'
  BY <1>a, <1>q DEF remove_service, Leaving, About, At
<1> QED
  BY <1>1, <1>2, <1>3, <1>4, <1>5, <1>6, <1>7, <1>8, <1>9

\* A call that fails leaves all as it was.
LEMMA CallFailsStep ==
    ASSUME NEW j \in Job, IInv, CallFails(j)
    PROVE  IInv'
<1> USE NoneAssumption DEF IInv, managers
<1>a. /\ job[j] # None /\ job[j] \in Request /\ job' \in [Job -> Request \cup {None}]
      /\ job'[j] = None /\ \A i \in Job : i # j => job'[i] = job[i]
  BY EndJob DEF CallFails, TypeOK, At
<1>p. \A r : Answering("add", r)' <=> Answering("add", r)
  BY <1>a DEF CallFails, Answering, At
<1>q. \A r : Answering("remove", r)' <=> Answering("remove", r)
  BY <1>a DEF CallFails, Answering, At
<1>1. TypeOK'
  BY <1>a DEF CallFails, TypeOK
<1>2. Listed'
  BY <1>p DEF CallFails, Listed
<1>3. NoGhost'
  BY <1>a, <1>q DEF CallFails, NoGhost, Stopping, At
<1>4. JobsOK'
  BY <1>a DEF CallFails, JobsOK
<1>5. Managers'
  BY DEF CallFails, Managers
<1>6. Stale'
  BY DEF CallFails, Stale
<1>7. Counted'
  <2>1. \A i \in Job : Mentions(i)' => Mentions(i) /\ job'[i] = job[i]
    BY <1>a DEF Mentions, At
  <2> QED
    BY <2>1 DEF CallFails, Counted
<1>8. Entering'
  <2> SUFFICES ASSUME NEW k \in Job, Pending(k)' PROVE Fresh(k)'
    BY DEF Entering
  <2>1. job'[k] = job[k] /\ About(k)' = About(k) /\ Pending(k) /\ Fresh(k)
    BY <1>a DEF CallFails, Entering, Pending, At, About, Late
  <2>2. (job[k].sid \in instances[manager])'
    BY <2>1 DEF Fresh, CallFails
  <2>3. (About(k) \notin rows \cup removing)'
    BY <2>1 DEF Fresh, CallFails
  <2>4. ASSUME NEW i \in Job \ {k}, Mentions(i)' PROVE About(i)' # About(k)'
    BY <2>1, <1>a, <2>4 DEF Fresh, Mentions, At, About, CallFails
  <2> QED
    BY <2>2, <2>3, <2>4 DEF Fresh
<1>9. Leaving'
  BY <1>a, <1>q DEF CallFails, Leaving, About, At
<1> QED
  BY <1>1, <1>2, <1>3, <1>4, <1>5, <1>6, <1>7, <1>8, <1>9

\* A service ends when its row has gone or is about to go.
LEMMA do_stop_serviceStep ==
    ASSUME NEW r \in Service, IInv, _do_stop_service(r)
    PROVE  IInv'
<1> USE NoneAssumption DEF IInv, managers
<1>p. \A q : Answering("add", q)' <=> Answering("add", q)
  BY DEF _do_stop_service, Answering, At
<1>q. \A q : Answering("remove", q)' <=> Answering("remove", q)
  BY DEF _do_stop_service, Answering, At
<1>1. TypeOK'
  <2>1. instances' \in [Manager -> SUBSET Sid]
    BY OfFacts DEF _do_stop_service, TypeOK
  <2>2. removing' \subseteq Service /\ failed' \subseteq Service
    BY DEF _do_stop_service, TypeOK
  <2> QED
    BY <2>1, <2>2 DEF _do_stop_service, TypeOK, managers
<1>2. Listed'
  BY <1>p, OfFacts, ManagerFacts DEF _do_stop_service, TypeOK, Listed
<1>3. NoGhost'
  BY <1>q, OfFacts DEF _do_stop_service, TypeOK, NoGhost, Leaving, Stopping
<1>4. JobsOK'
  BY DEF _do_stop_service, JobsOK
<1>5. Managers'
  <2>1. \A m \in Manager : instances'[m] \subseteq instances[m]
    BY OfFacts DEF _do_stop_service, TypeOK
  <2> QED
    BY <2>1 DEF _do_stop_service, Managers
<1>6. Stale'
  BY DEF _do_stop_service, Stale
<1>7. Counted'
  BY DEF _do_stop_service, Counted, At, Mentions
<1>8. Entering'
  <2> SUFFICES ASSUME NEW k \in Job, Pending(k)' PROVE Fresh(k)'
    BY DEF Entering
  <2>1. job'[k] = job[k] /\ About(k)' = About(k) /\ Pending(k) /\ Fresh(k)
    BY DEF _do_stop_service, Entering, Pending, At, About, Late
  <2>2. (job[k].sid \in instances[manager])'
    BY <2>1, MentionFacts, OfFacts DEF Fresh, Pending, _do_stop_service,
       TypeOK, Mentions, About
  <2>3. (About(k) \notin rows \cup removing)'
    BY <2>1 DEF Fresh, _do_stop_service
  <2>4. ASSUME NEW i \in Job \ {k}, Mentions(i)' PROVE About(i)' # About(k)'
    BY <2>1, <2>4 DEF Fresh, Mentions, At, About, _do_stop_service
  <2> QED
    BY <2>2, <2>3, <2>4 DEF Fresh
<1>9. Leaving'
  BY <1>q, OfFacts, ManagerFacts DEF _do_stop_service, TypeOK, JobsOK, Leaving,
     About, At
<1> QED
  BY <1>1, <1>2, <1>3, <1>4, <1>5, <1>6, <1>7, <1>8, <1>9
-----------------------------------------------------------------------------
\* The first state has no managers, no services and no requests.
LEMMA InitInv == Init => IInv
<1> SUFFICES ASSUME Init PROVE IInv
  OBVIOUS
<1>1. TypeOK
  BY ServicesAssumption DEF Init, TypeOK
<1>2. Listed /\ NoGhost /\ JobsOK /\ Stale /\ Counted /\ Entering /\ Leaving
  BY DEF Init, Listed, NoGhost, JobsOK, Stale, Counted, Entering, Pending,
     Leaving, At
<1>3. Managers
  BY DEF Init, Managers
<1> QED
  BY <1>1, <1>2, <1>3 DEF IInv

\* A step that changes nothing changes nothing.
LEMMA StutterInv == IInv /\ UNCHANGED vars => IInv'
<1> SUFFICES ASSUME IInv, UNCHANGED vars PROVE IInv'
  OBVIOUS
<1> USE DEF vars, managers, IInv
<1>1. TypeOK'
  BY DEF TypeOK
<1>2. Listed'
  BY DEF Listed, Answering, At
<1>3. NoGhost'
  BY DEF NoGhost, Answering, At, Stopping
<1>4. JobsOK'
  BY DEF JobsOK
<1>5. Managers'
  BY DEF Managers
<1>6. Stale'
  BY DEF Stale
<1>7. Counted'
  BY DEF Counted, Mentions, At
<1>8. Entering'
  BY DEF Entering, Pending, Fresh, Mentions, At, About
<1>9. Leaving'
  BY DEF Leaving, Answering, At, About
<1> QED
  BY <1>1, <1>2, <1>3, <1>4, <1>5, <1>6, <1>7, <1>8, <1>9

\* Every request, every step of one and every worker preserves IInv.
LEMMA NextInv == IInv /\ Next => IInv'
<1> SUFFICES ASSUME IInv, Next PROVE IInv'
  OBVIOUS
<1>1. CASE startapp
  BY <1>1, startappStep
<1>2. CASE \E m \in Manager : Kill(m)
  BY <1>2, KillStep
<1>3. ASSUME NEW j \in Job, stopapp(j) \/ ReadServices(j) \/ DropServices(j)
      PROVE  IInv'
  BY <1>3, stopappStep, ReadServicesStep, DropServicesStep
<1>4. ASSUME NEW j \in Job,
             \/ _add(j) \/ (\E s \in Sid : _remove(j, s)) \/ InsertRow(j) \/ DropRow(j)
             \/ add_service(j) \/ remove_service(j) \/ CallFails(j)
      PROVE  IInv'
  BY <1>4, addStep, removeStep, InsertRowStep, DropRowStep, add_serviceStep,
     remove_serviceStep, CallFailsStep
<1>5. CASE \E r \in Service : _do_stop_service(r)
  BY <1>5, do_stop_serviceStep
<1> QED
  BY <1>1, <1>2, <1>3, <1>4, <1>5 DEF Next

\* The inductive invariant of the list of services.
THEOREM Inductive == Spec => []IInv
<1>1. IInv /\ [Next]_vars => IInv'
  BY NextInv, StutterInv
<1> QED
  BY <1>1, InitInv, PTL DEF Spec

\* The Service table, the managers and the requests are always well formed; the
\* manager of the application is one whose virtual machine runs.
THEOREM TypeCorrect == Spec => []TypeOK
<1>1. IInv => TypeOK
  BY DEF IInv
<1> QED
  BY <1>1, Inductive, PTL

\* service.py:299 "List running ConPaaS services": no service that the manager
\* has is missing from the list, a request or a removal that is under way apart.
THEOREM ListedAlways == Spec => []Listed
<1>1. IInv => Listed
  BY DEF IInv
<1> QED
  BY <1>1, Inductive, PTL

\* _add and _remove of service.py list nothing that the manager does not have,
\* however requests, stops and starts cross.
THEOREM NoGhostAlways == Spec => []NoGhost
<1>1. IInv => NoGhost
  BY DEF IInv
<1> QED
  BY <1>1, Inductive, PTL
=============================================================================
