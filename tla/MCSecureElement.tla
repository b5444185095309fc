-------------------------- MODULE MCSecureElement --------------------------
(***************************************************************************)
(* A card with five containers: a key that shares its number with the last  *)
(* one, a key of unusual size, a key with a certificate, an empty container *)
(* and the last key; and two PKCS#11 objects.                               *)
(***************************************************************************)
EXTENDS SecureElement

FiveContainers ==
    [cid \in 0..4 |-> CASE cid = 1 -> "odd" [] cid = 3 -> "empty" [] OTHER -> "key"]

Files == << [kind |-> "p11", of |-> "a"], [kind |-> "cert", of |-> 2],
            [kind |-> "p11", of |-> "b"] >>

=============================================================================
