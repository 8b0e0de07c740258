--------------------------- MODULE UpgradeQueries ---------------------------
(***************************************************************************)
(* What x/upgrade tells of its store: the plan as it is written and read,  *)
(* the versions of modules, the queries, and the commands that make them.  *)
(***************************************************************************)
EXTENDS Upgrade

CONSTANT Modules   \* names of modules, or None in a request for all of them

Kinds == {"CurrentPlan", "AppliedPlan", "ModuleVersions"}

Requests ==
    [kind : {"CurrentPlan"}]
    \cup [kind : {"AppliedPlan"}, name : Name]
    \cup [kind : {"ModuleVersions"}, module : Modules \cup {None}]

-----------------------------------------------------------------------------
(* The records of the store.                                               *)

\* A plan from the wire: a name that is not empty, a height other than
\* zero, and neither of the two fields that are no longer used.
PlanDecodes(w) == w.name \in Name /\ w.height > 0 /\ ~w.deprecated
WirePlan(p) == [name |-> p.name, height |-> p.height, deprecated |-> FALSE]

\* What the handler of an upgrade returns is written only when it is empty.
SetModulesVersion(stored, updated) ==
    IF DOMAIN updated = {} THEN [m \in DOMAIN stored \cup DOMAIN updated |->
                                    IF m \in DOMAIN updated THEN updated[m] ELSE stored[m]]
    ELSE stored

\* So whatever the upgrades did, none is found.
NoVersions == [m \in {} |-> 0]
ModulesVersion(s) == NoVersions

\* Looked for under the bare name, where nothing is written.
DoneHeight(s, name) == {}

-----------------------------------------------------------------------------
(* The answers.                                                            *)

QueryPlan(s) == {s.plan} \ {None}

\* Zero for an upgrade that was never applied, and for every other.
QueryApplied(s, name) ==
    IF DoneHeight(s, name) = {} THEN 0 ELSE CHOOSE h \in DoneHeight(s, name) : TRUE

QueryModuleVersions(s, module) ==
    {[name |-> m, version |-> ModulesVersion(s)[m]] :
        m \in {m \in DOMAIN ModulesVersion(s) : module \in {m, None}}}

AbciPaths == Kinds

CliRequests(command, name) ==
    {q \in Requests : q.kind = command /\ (q.kind = "AppliedPlan" => q.name = name)}

\* No version is ever kept, and no completed upgrade found; a plan that can be
\* scheduled is read back; each command makes a request the node has an answer
\* for.
ASSUME UpgradeQueriesAssumption ==
    /\ \A v \in [Modules -> 0 .. 1] :
          Modules # {} => SetModulesVersion(NoVersions, v) = NoVersions
    /\ \A n \in Name, h \in 1 .. LastHeight + 1 : PlanDecodes(WirePlan([name |-> n, height |-> h]))
    /\ \A n \in Name, h \in 1 .. LastHeight :
          LET s == [plan |-> None, done |-> [m \in Name |-> h]]
          IN  QueryPlan(s) = {} /\ QueryApplied(s, n) = 0 /\ QueryModuleVersions(s, None) = {}
    /\ \A k \in Kinds, n \in Name : CliRequests(k, n) # {} /\ k \in AbciPaths
=============================================================================
