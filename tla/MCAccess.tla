------------------------------ MODULE MCAccess ------------------------------
(* Instances of Access for TLC. *)
EXTENDS Access, TLC

\* An account with an email address, and one Access knows by its subject only.
Accounts == {[subject |-> "id1", email |-> "a@example.org"], [subject |-> "id2", email |-> ""]}
Offsets == {-1, 1}
=============================================================================
