------------------------------- MODULE Billing -------------------------------
(***************************************************************************)
(* How the director charges one user for virtual machines                  *)
(* (cpsdirector.credits, with the callers of check_credits in              *)
(* cpsdirector.cloud and add_credit in cpsdirector.user).                  *)
(*                                                                         *)
(* check_credits runs in a background thread and at the end of every       *)
(* request that creates nodes, each in a database session of its own: it   *)
(* reads the credit, then the rows of the Resource table, and writes new   *)
(* values of both at its commit.  A session that has to update a row that  *)
(* is no longer there fails and writes nothing.                            *)
(***************************************************************************)
EXTENDS Integers, FiniteSetsExt

CONSTANTS
    MaxVM,      \* how many virtual machines are ever started (bound)
    Client,     \* the request threads that may create nodes
    Unit,       \* charging_unit: the length of an hour in ticks of `now'
    Start,      \* the credit the user begins with
    MaxTime,    \* the last value of `now' (bound)
    Gifts,      \* amounts that the administrator may add, each once
    Slow,       \* a check may last while the clock goes on
    None

ASSUME BillingAssumption == /\ MaxVM \in Nat /\ MaxTime \in Nat /\ Start \in Nat
                            /\ Unit \in Nat \ {0}
                            /\ Gifts \subseteq Nat
                            /\ Slow \in BOOLEAN
                            /\ None \notin Int

VARIABLES
    now,      \* the clock
    credit,   \* User.credit
    created,  \* Resource.created, in the order of the rows
    charged,  \* Resource.charged
    ended,    \* when the row was removed, None while it is there
    session,  \* the sessions that run check_credits
    dead,     \* the background thread has died
    given     \* history: the amounts added by the administrator

vars == <<now, credit, created, charged, ended, session, dead, given>>

VM == 1..MaxVM
Session == Client \cup {"daemon"}

Row(v) == created[v] # None /\ ended[v] = None

\* A session: waiting for its nodes, about to read the user, about to read the
\* rows, or about to commit the charges it has worked out.
SessionState ==
    {None} \cup [pc : {"boot", "user"}]
           \cup [pc : {"rows"}, credit : Int]
           \cup [pc : {"commit"}, credit : Int, charge : [VM -> Nat]]

TypeOK ==
    /\ now \in 0..MaxTime
    /\ credit \in Int
    /\ created \in [VM -> 0..MaxTime \cup {None}]
    /\ charged \in [VM -> Nat]
    /\ ended \in [VM -> 0..MaxTime \cup {None}]
    /\ session \in [Session -> SessionState]
    /\ dead \in BOOLEAN
    /\ given \subseteq Gifts

Init ==
    /\ now = 0
    /\ credit = Start
    /\ created = [v \in VM |-> None]
    /\ charged = [v \in VM |-> 0]
    /\ ended = [v \in VM |-> None]
    /\ session = [c \in Session |-> None]
    /\ dead = FALSE
    /\ given = {}

\* A session goes on; w is what it remembers.
To(c, w) == session' = [session EXCEPT ![c] = w]

-----------------------------------------------------------------------------
(* Requests. *)

\* create_nodes: refused without credit; the nodes take minutes to come up.
create_nodes(c) ==
    /\ session[c] = None
    /\ credit > 0
    /\ To(c, [pc |-> "boot"])
    /\ UNCHANGED <<now, credit, created, charged, ended, dead, given>>

\* _create_nodes: a row for each of the k nodes that came up, then
\* check_credits; nothing when none came up.
NewRows(c) ==
    /\ session[c] = [pc |-> "boot"]
    /\ \/ \E k \in VM :
            LET rows == Cardinality({v \in VM : created[v] # None}) IN
            /\ rows + k <= MaxVM
            /\ created' = [v \in VM |-> IF v \in (rows + 1)..(rows + k)
                                        THEN now ELSE created[v]]
            /\ To(c, [pc |-> "user"])
       \/ To(c, None) /\ UNCHANGED created
    /\ UNCHANGED <<now, credit, charged, ended, dead, given>>

\* Resource.remove, by remove_nodes or when an application is stopped.
remove_nodes(v) ==
    /\ Row(v)
    /\ ended' = [ended EXCEPT ![v] = now]
    /\ UNCHANGED <<now, credit, created, charged, session, dead, given>>

add_credit(k) ==
    /\ k \in Gifts \ given
    /\ given' = given \cup {k}
    /\ credit' = Max({credit + k, 0})
    /\ UNCHANGED <<now, created, charged, ended, session, dead>>

-----------------------------------------------------------------------------
(* check_credits. *)

\* Every credit_step minutes the background thread begins a check.
Wake ==
    /\ ~dead
    /\ session["daemon"] = None
    /\ To("daemon", [pc |-> "user"])
    /\ UNCHANGED <<now, credit, created, charged, ended, dead, given>>

\* User.query.all()
ReadUser(c) ==
    /\ session[c] = [pc |-> "user"]
    /\ To(c, [pc |-> "rows", credit |-> credit])
    /\ UNCHANGED <<now, credit, created, charged, ended, dead, given>>

\* Mutant of Cost: the difference is taken the wrong way round.
CostSwapped(v) ==
    LET tot_cost == (now - created[v]) \div Unit IN
    IF Row(v) /\ (tot_cost >= charged[v] \/ charged[v] = 0)
    THEN charged[v] - tot_cost + 1 ELSE 0

\* Mutant of Cost: the first hour goes unnoticed.
CostLate(v) ==
    LET tot_cost == (now - created[v]) \div Unit IN
    IF Row(v) /\ tot_cost > charged[v] THEN tot_cost - charged[v] + 1 ELSE 0

\* What a row costs: the hours it has begun and that are not yet charged.
Cost(v) ==
    LET tot_cost == (now - created[v]) \div Unit IN
    IF Row(v) /\ (tot_cost >= charged[v] \/ charged[v] = 0)
    THEN tot_cost - charged[v] + 1 ELSE 0

\* to_charge after the loop has seen row v.
to_charge == LET sum[v \in 0..MaxVM] == IF v = 0 THEN 0 ELSE sum[v - 1] + Cost(v)
             IN  sum

\* The loop over the rows: res.charged grows by all that the loop has added up
\* so far, not by the cost of the row.
ReadRows(c) ==
    /\ session[c] # None /\ session[c].pc = "rows"
    /\ To(c, [pc |-> "commit",
              credit |-> session[c].credit - to_charge[MaxVM],
              charge |-> [v \in VM |-> IF Cost(v) = 0 THEN 0
                                       ELSE charged[v] + to_charge[v]]])
    /\ UNCHANGED <<now, credit, created, charged, ended, dead, given>>

\* Mutant of NewCharge: what was charged is not written.
NewChargeForgotten(v, w) == charged[v]

\* The value of Resource.charged that the commit of w leaves.
NewCharge(v, w) == IF w.charge[v] > 0 THEN w.charge[v] ELSE charged[v]

\* The commit; `user.credit == 0' compares where it should assign, so that only
\* a credit of exactly 0 stops the applications of the user.
Commit(c) ==
    LET w == session[c]
        due == {v \in VM : w.charge[v] > 0} IN
    /\ w # None /\ w.pc = "commit"
    /\ IF \A v \in due : Row(v)
       THEN /\ charged' = [v \in VM |-> NewCharge(v, w)]
            /\ credit' = IF due = {} THEN credit ELSE w.credit
            /\ ended' = [v \in VM |-> IF Row(v) /\ w.credit = 0
                                      THEN now ELSE ended[v]]
            /\ UNCHANGED dead
       ELSE /\ dead' = (dead \/ c = "daemon")
            /\ UNCHANGED <<charged, credit, ended>>
    /\ To(c, None)
    /\ UNCHANGED <<now, created, given>>

\* A check that reads, adds up and commits at once sees no tick.
Tick ==
    /\ now < MaxTime
    /\ \A c \in Session :
         session[c] # None /\ session[c].pc \in {"rows", "commit"} => Slow
    /\ now' = now + 1
    /\ UNCHANGED <<credit, created, charged, ended, session, dead, given>>

-----------------------------------------------------------------------------
Check(c) == ReadUser(c) \/ ReadRows(c) \/ Commit(c)

Next ==
    \/ Tick
    \/ Wake
    \/ \E c \in Client : create_nodes(c) \/ NewRows(c)
    \/ \E v \in VM : remove_nodes(v)
    \/ \E k \in Gifts : add_credit(k)
    \/ \E c \in Session : Check(c)

Spec == Init /\ [][Next]_vars

\* The background thread wakes up for ever and a session goes on to its end.
FairSpec == Spec /\ WF_vars(Wake) /\ \A c \in Session : WF_vars(Check(c))

-----------------------------------------------------------------------------
(* What the billing promises. *)

\* The hours that v has begun.
Hours(v) ==
    IF created[v] = None THEN 0
    ELSE ((IF Row(v) THEN now ELSE ended[v]) - created[v]) \div Unit + 1

\* The credit that has gone while nobody added any.
Spent == Start - credit

\* The sessions of check_credits may overlap in any way: as long as each of
\* them is over before the clock goes on, and nobody adds credit (which a check
\* under way would overwrite), the user never pays for more hours than her virtual machines have begun.
NeverOvercharged == given = {} => Spent <= MapThenSumSet(Hours, VM)

\* No virtual machine runs for free: a row is charged some day, unless the
\* background thread has died of a failed session.
EveryVMCharged ==
    \A v \in VM : created[v] # None ~> charged[v] > 0 \/ ended[v] # None \/ dead
=============================================================================
