------------------------- MODULE MCRegistryLogin -------------------------
(* Instances of RegistryLogin. *)
EXTENDS RegistryLogin

CONSTANTS s1, s2, u1

TwoSocks == {s1, s2}
OneUser  == {u1}

=============================================================================
