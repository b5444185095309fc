------------------------------ MODULE MCShadow ------------------------------
(***************************************************************************)
(* Instances of ShadowRecords.                                             *)
(***************************************************************************)
EXTENDS ShadowRecords, TLC

TwoSlots == 0..1
ThreeSlots == 0..2
FourSlots == 0..3
FiveSlots == 0..4

\* One key is always used with persistent subscriptions and the other never,
\* or no key is.
PersistentKey == CHOOSE key \in Keys : TRUE
OnePersistent == [key \in Keys |-> { key = PersistentKey }]
NonePersistent == [key \in Keys |-> { FALSE }]

\* Client tokens are interchangeable, and so are keys if all are used alike.
Symmetry == Permutations(Tokens) \cup Permutations(Keys)

=============================================================================
