------------------------------ MODULE SessionsMC ------------------------------
(* A small instance of Sessions: two services, the default organization and one
   more, two e-mail addresses, two clients. Services and clients are interchangeable.
   Accounts and sessions write none of each other's rows, and a token's user is only
   copied: tokens are followed where the accounts are at rest with one user. *)
EXTENDS Sessions, TLC

CONSTANTS s1, s2, c1, c2, seedOrg, otherOrg, seedMail, otherMail

MCServices == {s1, s2}
MCOrgNames == {seedOrg, otherOrg}
MCEmails   == {seedMail, otherMail}
MCClients  == {c1, c2}

Alike == Permutations(MCServices) \cup Permutations(MCClients)

AccountsFirst == tokens # <<>> => newOrgs = {} /\ newUsers = {} /\ Cardinality(users) = 1
=============================================================================
