---------------------------- MODULE MemberStack ----------------------------
(***************************************************************************)
(* What an owner of members promises about their lifetimes: they are       *)
(* constructed one at a time in declaration order, and destroyed one at a  *)
(* time, always the most recently constructed first (a stack), so the      *)
(* members alive are always the first ones in declaration order.  This is  *)
(* the rule C++ applies to the members of an object, and the one           *)
(* PS5Application's explicit InitializeSubsystems and ShutdownSubsystems   *)
(* must keep so that no member outlives the ones it points to.             *)
(***************************************************************************)
EXTENDS Naturals, Sequences

CONSTANT Order      \* the members in declaration order, each once

VARIABLE members    \* the members alive

\* The first m members in declaration order.
Prefix(m) == {Order[k] : k \in 1..m}

MInit == members = {}

\* The next member in declaration order is constructed.
Construct ==
    \E m \in 0..(Len(Order) - 1) :
        /\ members = Prefix(m)
        /\ members' = Prefix(m + 1)

\* The youngest member is destroyed.
DestroyYoungest ==
    \E m \in 1..Len(Order) :
        /\ members = Prefix(m)
        /\ members' = Prefix(m - 1)

MSpec == MInit /\ [][Construct \/ DestroyYoungest]_members

=============================================================================
