----------------------------- MODULE MCAccounts -----------------------------
(* Small instances of Accounts for TLC.                                    *)
EXTENDS Accounts, TLC

CONSTANTS u1, u2, n1, n2, r1, r2

(* Requests, names and user ids are interchangeable.                       *)
Interchangeable ==
  {p @@ q @@ i : p \in Permutations(Requests), q \in Permutations(Names),
                 i \in Permutations(Users)}
=============================================================================
