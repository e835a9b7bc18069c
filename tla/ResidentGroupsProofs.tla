------------------------ MODULE ResidentGroupsProofs ------------------------
(***************************************************************************)
(* The `groups:` checks of validate.py are enough, for any number of       *)
(* models and groups.                                                      *)
(***************************************************************************)
EXTENDS ResidentGroups, TLAPS

(* The group of a model holds it, unless it is the implicit one.           *)
LEMMA GroupHolds ==
    ASSUME NEW m \in Models
    PROVE  \/ GroupOf(m) = Default
           \/ GroupOf(m) \in Groups /\ m \in groups[GroupOf(m)].members
BY DEF GroupOf

(* A model outside a group's members is not of that group.                 *)
LEMMA GroupOfOther ==
    ASSUME NEW m \in Models, NEW n \in Models, GroupOf(m) # GroupOf(n),
           GroupOf(m) \in Groups, GroupsValid(groups)
    PROVE  n \notin groups[GroupOf(m)].members
<1>1. SUFFICES ASSUME n \in groups[GroupOf(m)].members PROVE FALSE
  OBVIOUS
<1>2. GroupOf(n) \in Groups /\ n \in groups[GroupOf(n)].members
  BY <1>1 DEF GroupOf
<1> QED BY <1>1, <1>2 DEF GroupsValid

(* In an accepted configuration a nodes: 2 model that is loaded unloads    *)
(* every other one.                                                        *)
LEMMA AcceptedEvicts ==
    ASSUME Accepted, GroupsValid(groups), two \subseteq Models,
           NEW m \in two, NEW n \in two, m # n
    PROVE  Evicts(m, n)
<1>0. m \in Models /\ n \in Models
  OBVIOUS
<1>1. CASE GroupOf(m) = GroupOf(n)
  <2>1. CASE GroupOf(m) = Default
    BY <1>1, <2>1 DEF Evicts, Swaps
  <2>2. CASE GroupOf(m) # Default
    <3>1. GroupOf(m) \in Groups /\ {m, n} \subseteq groups[GroupOf(m)].members
      BY <1>0, <1>1, <2>2, GroupHolds
    <3>2. groups[GroupOf(m)].swap
      BY <3>1 DEF Accepted, KeepsTwoInside
    <3> QED BY <1>1, <3>2 DEF Evicts, Swaps
  <2> QED BY <2>1, <2>2
<1>2. CASE GroupOf(m) # GroupOf(n)
  <2>1. Exclusive(GroupOf(m))
    <3>1. CASE GroupOf(m) = Default
      BY <3>1 DEF Exclusive
    <3>2. CASE GroupOf(m) # Default
      <4>1. GroupOf(m) \in Groups /\ m \in groups[GroupOf(m)].members
        BY <1>0, <3>2, GroupHolds
      <4>2. n \notin groups[GroupOf(m)].members
        BY <1>0, <1>2, <4>1, GroupOfOther
      <4> QED BY <4>1, <4>2 DEF Accepted, KeepsTwoAcross, Exclusive
    <3> QED BY <3>1, <3>2
  <2>2. ~Persistent(GroupOf(n))
    <3>1. CASE GroupOf(n) = Default
      BY <3>1 DEF Persistent
    <3>2. CASE GroupOf(n) # Default
      <4>1. GroupOf(n) \in Groups /\ n \in groups[GroupOf(n)].members
        BY <1>0, <3>2, GroupHolds
      <4>2. m \notin groups[GroupOf(n)].members
        BY <1>0, <1>2, <4>1, GroupOfOther
      <4> QED BY <4>1, <4>2 DEF Accepted, KeepsTwoAcross, Persistent
    <3> QED BY <3>1, <3>2
  <2> QED BY <1>2, <2>1, <2>2 DEF Evicts
<1> QED BY <1>1, <1>2

Inv ==
    /\ GroupsValid(groups)
    /\ two \subseteq Models
    /\ OneTwoNodeModel

(* No accepted `groups:` block lets two nodes: 2 models be loaded at once. *)
THEOREM OneAtATime == Spec => []OneTwoNodeModel
<1>1. Init => Inv
  BY DEF Init, Inv, OneTwoNodeModel
<1>2. Inv /\ [Next]_vars => Inv'
  <2> SUFFICES ASSUME Inv, [Next]_vars PROVE Inv'
    OBVIOUS
  <2>1. ASSUME NEW m \in Models, Request(m) PROVE Inv'
    <3>1. UNCHANGED <<groups, two>>
      BY <2>1 DEF Request
    <3>2. GroupsValid(groups)' /\ (two \subseteq Models)'
      BY <3>1 DEF Inv, GroupsValid
    <3>3. ASSUME NEW x \in two, NEW y \in two, x \in resident', y \in resident'
          PROVE  x = y
      <4>1. \A n \in two : n # m /\ m \in two => Evicts(m, n)
        BY <2>1, AcceptedEvicts DEF Inv, Request
      <4> QED BY <2>1, <3>3, <4>1 DEF Inv, Request, OneTwoNodeModel
    <3> QED BY <3>1, <3>2, <3>3 DEF Inv, OneTwoNodeModel
  <2>2. ASSUME NEW m \in Models, Expire(m) PROVE Inv'
    BY <2>2 DEF Expire, Inv, GroupsValid, OneTwoNodeModel
  <2>3. CASE UNCHANGED vars
    BY <2>3 DEF vars, Inv, GroupsValid, OneTwoNodeModel
  <2> QED BY <2>1, <2>2, <2>3 DEF Next
<1>3. Inv => OneTwoNodeModel
  BY DEF Inv
<1> QED BY <1>1, <1>2, <1>3, PTL DEF Spec

-----------------------------------------------------------------------------
(* The configuration does not change, and is one that validate looked at.  *)
FixedInv ==
    /\ groups \in Config
    /\ GroupsValid(groups)
    /\ two \subseteq Models

LEMMA FixedInvariant == Spec => []FixedInv
<1>1. Init => FixedInv
  BY DEF Init, FixedInv
<1>2. FixedInv /\ [Next]_vars => FixedInv'
  <2> SUFFICES ASSUME FixedInv, [Next]_vars PROVE FixedInv'
    OBVIOUS
  <2>1. UNCHANGED <<groups, two>>
    BY DEF Next, Request, Expire, vars
  <2> QED BY <2>1 DEF FixedInv, GroupsValid
<1> QED BY <1>1, <1>2, PTL DEF Spec

(* A member's group is the one that lists it.                              *)
LEMMA GroupOfMember ==
    ASSUME GroupsValid(groups), NEW g \in Groups, NEW m \in groups[g].members
    PROVE  m \in Models /\ GroupOf(m) = g
<1>1. m \in Models
  BY DEF GroupsValid
<1>2. GroupOf(m) \in Groups /\ m \in groups[GroupOf(m)].members
  BY DEF GroupOf
<1> QED BY <1>1, <1>2 DEF GroupsValid

(* What validate refuses could load two nodes: 2 models at once.           *)
THEOREM RefusalsAreNeeded == Spec => []RefusedForCause
<1>1. FixedInv => RefusedForCause
  <2> SUFFICES ASSUME FixedInv, ~Accepted
               PROVE  \E m, n \in two : m # n /\ ~Evicts(m, n)
    BY DEF RefusedForCause
  <2>1. PICK g \in Groups : KeepsTwoInside(groups[g]) \/ KeepsTwoAcross(groups[g])
    BY DEF Accepted
  <2>2. g # Default
    BY <2>1, GroupsAssumption
  <2>3. CASE KeepsTwoInside(groups[g])
    <3>1. PICK m, n \in two : m # n /\ {m, n} \subseteq groups[g].members
      BY <2>3 DEF KeepsTwoInside
    <3>2. GroupOf(m) = g /\ GroupOf(n) = g
      BY <3>1, GroupOfMember DEF FixedInv
    <3>3. ~Evicts(m, n)
      BY <2>2, <2>3, <3>2 DEF Evicts, Swaps, KeepsTwoInside
    <3> QED BY <3>1, <3>3
  <2>4. CASE KeepsTwoAcross(groups[g])
    <3>1. PICK m \in two : m \in groups[g].members
      BY <2>4 DEF KeepsTwoAcross
    <3>2. PICK n \in two : n \notin groups[g].members
      BY <2>4 DEF KeepsTwoAcross
    <3>3. GroupOf(m) = g
      BY <3>1, GroupOfMember DEF FixedInv
    <3>4. n \in Models /\ GroupOf(n) # g
      BY <2>2, <3>2, GroupHolds DEF FixedInv
    <3>5. ~groups[g].exclusive \/ groups[g].persistent
      BY <2>4 DEF KeepsTwoAcross
    <3>6. CASE ~groups[g].exclusive
      <4>1. ~Evicts(m, n)
        BY <2>2, <3>3, <3>4, <3>6 DEF Evicts, Exclusive
      <4> QED BY <3>1, <3>2, <4>1
    <3>7. CASE groups[g].persistent
      <4>1. ~Evicts(n, m)
        BY <2>2, <3>3, <3>4, <3>7 DEF Evicts, Persistent
      <4> QED BY <3>1, <3>2, <4>1
    <3> QED BY <3>5, <3>6, <3>7
  <2> QED BY <2>1, <2>3, <2>4
<1> QED BY <1>1, FixedInvariant, PTL
=============================================================================
