------------------------------- MODULE Accounts -------------------------------
(***************************************************************************)
(* Organizations and users: the seed at start-up (app/seed.py, app/main.py),*)
(* the endpoints that create them (app/api/orgs.py) and the rules that say  *)
(* who may do what (app/authz/). An endpoint that reads and then writes is  *)
(* two steps; what it inserts is subject to the unique constraints.         *)
(***************************************************************************)
EXTENDS Integers, FiniteSets

CONSTANTS Services,      \* service processes on one database
          OrgNames,      \* names an organization may get
          DefaultOrg,    \* DEFAULT_ORG_NAME
          Emails,
          SeedEmail,     \* DEFAULT_USER_EMAIL
          NoActor,       \* a request without a valid access token
          MaxUsers,      \* bound: users
          MaxAsks        \* bound: creations between their reads and their commit

ASSUME SeedNames == DefaultOrg \in OrgNames /\ SeedEmail \in Emails
ASSUME AccountBounds == MaxUsers \in Nat /\ MaxAsks \in Nat

Role == {"admin", "member"}
User == [org : OrgNames, email : Emails, role : Role]
ASSUME NobodyIsNoUser == NoActor \notin User

VARIABLES
    orgs,       \* names of the committed organizations
    users,      \* committed users
    services,   \* where each service's lifespan is
    newOrgs,    \* create_org requests that found their name free
    newUsers    \* create_user requests that were let through

accounts == <<orgs, users, services, newOrgs, newUsers>>

AccountsTypeOK ==
    /\ orgs \subseteq OrgNames /\ newOrgs \subseteq OrgNames
    /\ users \subseteq User /\ newUsers \subseteq User
    /\ services \in [Services -> {"off", "seeding", "up", "failed"}]

AccountsInit ==
    /\ orgs = {} /\ users = {} /\ newOrgs = {} /\ newUsers = {}
    /\ services = [s \in Services |-> "off"]

Up == \E s \in Services : services[s] = "up"

UsersOf(o) == {u \in users : u.org = o}

HasAdmin(o) == \E u \in UsersOf(o) : u.role = "admin"

-----------------------------------------------------------------------------
(* The authorization policy. *)

CanViewJob(u, job) ==
    /\ job.org = u.org
    /\ u.role = "admin" \/ job.createdBy = u

CanManageOrg(u, o) == u.role = "admin" /\ u.org = o

(* scope_jobs_for_user: the filter list_jobs adds to its query. *)
JobsInScope(u, jobs) ==
    LET ofOrg == {job \in jobs : job.org = u.org}
    IN  IF u.role = "admin" THEN ofOrg ELSE {job \in ofOrg : job.createdBy = u}

-----------------------------------------------------------------------------
(* lifespan: look for any organization. *)
Boot(s) ==
    /\ services[s] \in {"off", "failed"}
    /\ services' = [services EXCEPT ![s] = IF orgs = {} THEN "seeding" ELSE "up"]
    /\ UNCHANGED <<orgs, users, newOrgs, newUsers>>

SeedUser == [org |-> DefaultOrg, email |-> SeedEmail, role |-> "admin"]

(* The organization and its administrator are one transaction. A name that is
   taken by now breaks it, and the service does not start. *)
Seed(s) ==
    /\ services[s] = "seeding"
    /\ IF DefaultOrg \in orgs
         THEN /\ services' = [services EXCEPT ![s] = "failed"]
              /\ UNCHANGED <<orgs, users>>
         ELSE /\ services' = [services EXCEPT ![s] = "up"]
              /\ orgs' = orgs \cup {DefaultOrg}
              /\ users' = users \cup {SeedUser}
    /\ UNCHANGED <<newOrgs, newUsers>>

(* A service is shut down or killed, while it seeds too. *)
Down(s) ==
    /\ services[s] \in {"seeding", "up"}
    /\ services' = [services EXCEPT ![s] = "off"]
    /\ UNCHANGED <<orgs, users, newOrgs, newUsers>>

-----------------------------------------------------------------------------
MoreAsks == Cardinality(newOrgs) + Cardinality(newUsers) < MaxAsks

(* create_org needs no token. *)
AskOrg(o) ==
    /\ Up /\ MoreAsks
    /\ o \notin orgs
    /\ newOrgs' = newOrgs \cup {o}
    /\ UNCHANGED <<orgs, users, services, newUsers>>

MakeOrg(o) ==
    /\ o \in newOrgs
    /\ orgs' = orgs \cup {o}
    /\ newOrgs' = newOrgs \ {o}
    /\ UNCHANGED <<users, services, newUsers>>

(* Mutant of MayCreate: the first user gets the role that was asked for. *)
MutMayCreate(actor, u) ==
    \/ UsersOf(u.org) = {}
    \/ UsersOf(u.org) # {} /\ actor # NoActor /\ CanManageOrg(actor, u.org)

(* create_user: an organization without users takes anyone, as administrator;
   later ones need an administrator's token of the same organization. *)
MayCreate(actor, u) ==
    \/ UsersOf(u.org) = {} /\ u.role = "admin"
    \/ UsersOf(u.org) # {} /\ actor # NoActor /\ CanManageOrg(actor, u.org)

AskUser(actor, u) ==
    /\ Up /\ MoreAsks
    /\ u.org \in orgs
    /\ MayCreate(actor, u)
    /\ newUsers' = newUsers \cup {u}
    /\ UNCHANGED <<orgs, users, services, newOrgs>>

(* _persist_user: the e-mail is looked up, and unique in its organization. *)
MakeUser(u) ==
    /\ u \in newUsers
    /\ users' = IF \E v \in UsersOf(u.org) : v.email = u.email
                  THEN users ELSE users \cup {u}
    /\ Cardinality(users') <= MaxUsers
    /\ newUsers' = newUsers \ {u}
    /\ UNCHANGED <<orgs, services, newOrgs>>

AccountsNext ==
    \/ \E s \in Services : Boot(s) \/ Seed(s) \/ Down(s)
    \/ \E o \in OrgNames : AskOrg(o) \/ MakeOrg(o)
    \/ \E u \in User : MakeUser(u) \/ \E actor \in users \cup {NoActor} : AskUser(actor, u)

-----------------------------------------------------------------------------
(* Whatever requests and starting services overlap, an organization with users
   has an administrator, so that it can be managed, and a service that answers
   finds the seeded one (seed.py:16-33, orgs.py:55-57: "First user bootstraps
   as org admin"). *)
AdminsComeFirst ==
    /\ \A u \in users : HasAdmin(u.org)
    /\ Up => HasAdmin(DefaultOrg)
=============================================================================
