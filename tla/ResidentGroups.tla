--------------------------- MODULE ResidentGroups ---------------------------
(***************************************************************************)
(* Which models llama-swap keeps loaded, under a `groups:` block that      *)
(* validate() accepts.  The checks are validate.py's; the router is        *)
(* llama-swap's, which is not in the repository: it is taken from the      *)
(* rendered routing block and from what validate.py says of it.  Loading   *)
(* and unloading are one step here; ClusterLaunch opens them up.           *)
(***************************************************************************)
EXTENDS Naturals

CONSTANTS
    Models,   \* the model names of models.yaml
    Names,    \* every name a `members:` list may hold
    Groups,   \* the keys of `groups:`
    Default   \* llama-swap's implicit group

ASSUME GroupsAssumption == Models \subseteq Names /\ Default \notin Groups

VARIABLES
    groups,   \* what `groups:` says, absent flags at llama-swap's defaults
    two,      \* the models with nodes: 2
    resident  \* the models that are loaded

vars == <<groups, two, resident>>

Config == [Groups -> [members : SUBSET Names, swap : BOOLEAN,
                      exclusive : BOOLEAN, persistent : BOOLEAN]]

-----------------------------------------------------------------------------
(* validate.py.                                                            *)

\* slip: a model in two groups is let through
NoOwnerCheck(gs) == \A g \in Groups : gs[g].members # {} /\ gs[g].members \subseteq Models

(* _validate_groups: members are models, and no model is in two groups.    *)
GroupsValid(gs) ==
    /\ \A g \in Groups : gs[g].members # {} /\ gs[g].members \subseteq Models
    /\ \A g, h \in Groups : g # h => gs[g].members \cap gs[h].members = {}

\* nodes: 2 members that swap: false would keep loaded together
KeepsTwoInside(g) ==
    ~g.swap /\ \E m, n \in two : m # n /\ {m, n} \subseteq g.members

\* slip: persistent groups are not looked at
KeepsTwoUnlessPersistent(g) ==
    /\ ~g.exclusive
    /\ two \cap g.members # {} /\ ~(two \subseteq g.members)

\* a nodes: 2 member loaded beside one outside the group
KeepsTwoAcross(g) ==
    /\ ~g.exclusive \/ g.persistent
    /\ two \cap g.members # {} /\ ~(two \subseteq g.members)

\* slip: every group with a nodes: 2 model must hold them all
AcceptsOnlyTogether ==
    \A g \in Groups :
        ~KeepsTwoInside(groups[g])
          /\ (two \cap groups[g].members # {} => two \subseteq groups[g].members)

(* The nodes: 2 part of validate: render refuses any other configuration.  *)
Accepted ==
    \A g \in Groups : ~KeepsTwoInside(groups[g]) /\ ~KeepsTwoAcross(groups[g])

-----------------------------------------------------------------------------
(* The router.                                                             *)

GroupOf(m) ==
    IF \E g \in Groups : m \in groups[g].members
      THEN CHOOSE g \in Groups : m \in groups[g].members
      ELSE Default

Swaps(g)      == g = Default \/ groups[g].swap
Exclusive(g)  == g = Default \/ groups[g].exclusive
Persistent(g) == g # Default /\ groups[g].persistent

\* loading m unloads n
Evicts(m, n) ==
    IF GroupOf(m) = GroupOf(n) THEN n # m /\ Swaps(GroupOf(m))
    ELSE Exclusive(GroupOf(m)) /\ ~Persistent(GroupOf(n))

Init ==
    /\ groups \in Config
    /\ GroupsValid(groups)
    /\ two \in SUBSET Models
    /\ resident = {}

Request(m) ==
    /\ Accepted
    /\ m \notin resident
    /\ resident' = {n \in resident : ~Evicts(m, n)} \cup {m}
    /\ UNCHANGED <<groups, two>>

\* the model's ttl ran out, or it was unloaded by hand
Expire(m) ==
    /\ m \in resident
    /\ resident' = resident \ {m}
    /\ UNCHANGED <<groups, two>>

Next == \E m \in Models : Request(m) \/ Expire(m)

Spec == Init /\ [][Next]_vars

-----------------------------------------------------------------------------
(* Properties.                                                             *)

(* Two nodes: 2 models share the master port and the worker's memory, so   *)
(* an accepted configuration never has two of them loaded, in whatever     *)
(* order models are asked for.                                             *)
OneTwoNodeModel == \A m, n \in two \cap resident : m = n

(* Validation refuses no configuration without need: in one it refuses,    *)
(* two nodes: 2 models do end up loaded together, one asked for after the  *)
(* other.                                                                  *)
RefusedForCause ==
    ~Accepted => \E m, n \in two : m # n /\ ~Evicts(m, n)
=============================================================================
