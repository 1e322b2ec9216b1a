---------------------------- MODULE SessionsProofs ----------------------------
(***************************************************************************)
(* Proofs about accounts and refresh tokens, for any services, names,       *)
(* clients and bounds: the types, that an organization with users has an    *)
(* administrator, that a line of tokens has one usable end, and that the    *)
(* listing of jobs shows what the policy allows.                            *)
(***************************************************************************)
EXTENDS Sessions, TLAPS

(* Requests that were let through did not overtake the administrator. *)
AskedInv ==
    /\ \A u \in newUsers : u.role = "admin" \/ HasAdmin(u.org)
    /\ orgs # {} \/ newOrgs # {} => HasAdmin(DefaultOrg)

(* A token's line is that of an earlier token or its own; only lines that exist
   have raced or ended. *)
LinesInv ==
    /\ \A i \in DOMAIN tokens : tokens[i].line \in 1 .. i
    /\ raced \cup ended \subseteq 1 .. Len(tokens)

(* LinesHaveOneEnd, of every line. *)
OneEnd(l) ==
    l \notin raced =>
        /\ \A i, j \in Open(l) : i = j
        /\ l \in ended => Open(l) = {}

EndsInv == \A l \in Nat : OneEnd(l)

-----------------------------------------------------------------------------
(* The policy. *)

(* scope_jobs_for_user returns exactly the jobs can_view_job allows: listing
   and reading a job agree, for every user and every set of jobs. *)
THEOREM ListingIsPolicy ==
    ASSUME NEW u, NEW jobs
    PROVE  JobsInScope(u, jobs) = {job \in jobs : CanViewJob(u, job)}
  BY DEF JobsInScope, CanViewJob

-----------------------------------------------------------------------------
(* Accounts. *)

LEMMA AccountsTypeStep ==
    ASSUME AccountsTypeOK, AccountsNext
    PROVE  AccountsTypeOK'
<1>1. ASSUME NEW s \in Services, Boot(s) \/ Seed(s) \/ Down(s)
      PROVE  AccountsTypeOK'
  BY <1>1, SeedNames DEF AccountsTypeOK, Boot, Seed, Down, SeedUser, User, Role
<1>2. ASSUME NEW o \in OrgNames, AskOrg(o) \/ MakeOrg(o)
      PROVE  AccountsTypeOK'
  BY <1>2 DEF AccountsTypeOK, AskOrg, MakeOrg
<1>3. ASSUME NEW u \in User, MakeUser(u)
      PROVE  AccountsTypeOK'
  BY <1>3 DEF AccountsTypeOK, MakeUser
<1>4. ASSUME NEW u \in User, NEW actor, AskUser(actor, u)
      PROVE  AccountsTypeOK'
  BY <1>4 DEF AccountsTypeOK, AskUser
<1> QED  BY <1>1, <1>2, <1>3, <1>4 DEF AccountsNext

(* Users are never removed. *)
LEMMA AdminsStay ==
    ASSUME users \subseteq users', NEW o, HasAdmin(o)
    PROVE  HasAdmin(o)'
  BY DEF HasAdmin, UsersOf

LEMMA UsersStay ==
    ASSUME AccountsNext
    PROVE  users \subseteq users'
  BY DEF AccountsNext, Boot, Seed, Down, AskOrg, MakeOrg, AskUser, MakeUser

LEMMA AdminsStep ==
    ASSUME AccountsTypeOK, AskedInv, AdminsComeFirst, AccountsNext
    PROVE  AskedInv' /\ AdminsComeFirst'
<1>0. \A o : HasAdmin(o) => HasAdmin(o)'
  BY UsersStay, AdminsStay
<1>1. ASSUME NEW s \in Services, Boot(s)
      PROVE  AskedInv' /\ AdminsComeFirst'
  <2>1. Up' => Up \/ orgs # {}
    BY <1>1 DEF Boot, Up, AccountsTypeOK
  <2> QED  BY <1>0, <1>1, <2>1 DEF Boot, AskedInv, AdminsComeFirst
<1>2. ASSUME NEW s \in Services, Seed(s)
      PROVE  AskedInv' /\ AdminsComeFirst'
  <2>1. CASE DefaultOrg \in orgs
    <3>1. Up' => Up
      BY <1>2, <2>1 DEF Seed, Up, AccountsTypeOK
    <3> QED  BY <1>0, <1>2, <2>1, <3>1 DEF Seed, AskedInv, AdminsComeFirst
  <2>2. CASE DefaultOrg \notin orgs
    <3>1. HasAdmin(DefaultOrg)'
      <4>1. SeedUser \in users'
        BY <1>2, <2>2 DEF Seed
      <4>2. SeedUser.org = DefaultOrg /\ SeedUser.role = "admin"
        BY DEF SeedUser
      <4>3. SeedUser \in UsersOf(DefaultOrg)'
        BY <4>1, <4>2 DEF UsersOf
      <4> QED  BY <4>2, <4>3 DEF HasAdmin
    <3>2. \A u \in users' : u \in users \/ u.org = DefaultOrg
      BY <1>2, <2>2 DEF Seed, SeedUser
    <3> QED  BY <1>0, <1>2, <2>2, <3>1, <3>2 DEF Seed, AskedInv, AdminsComeFirst
  <2> QED  BY <2>1, <2>2
<1>3. ASSUME NEW s \in Services, Down(s)
      PROVE  AskedInv' /\ AdminsComeFirst'
  <2>1. Up' => Up
    BY <1>3 DEF Down, Up, AccountsTypeOK
  <2> QED  BY <1>0, <1>3, <2>1 DEF Down, AskedInv, AdminsComeFirst
<1>4. ASSUME NEW o \in OrgNames, AskOrg(o) \/ MakeOrg(o)
      PROVE  AskedInv' /\ AdminsComeFirst'
  <2>1. Up' => Up
    BY <1>4 DEF AskOrg, MakeOrg, Up
  <2> QED  BY <1>0, <1>4, <2>1 DEF AskOrg, MakeOrg, AskedInv, AdminsComeFirst
<1>5. ASSUME NEW u \in User, NEW actor \in users \cup {NoActor}, AskUser(actor, u)
      PROVE  AskedInv' /\ AdminsComeFirst'
  <2>1. Up' => Up
    BY <1>5 DEF AskUser, Up
  <2>2. u.role = "admin" \/ HasAdmin(u.org)
    BY <1>5 DEF AskUser, MayCreate, CanManageOrg, HasAdmin, UsersOf
  <2> QED  BY <1>0, <1>5, <2>1, <2>2 DEF AskUser, AskedInv, AdminsComeFirst
<1>6. ASSUME NEW u \in User, MakeUser(u)
      PROVE  AskedInv' /\ AdminsComeFirst'
  <2>1. Up' => Up
    BY <1>6 DEF MakeUser, Up
  <2>2. u \in users' => HasAdmin(u.org)'
    BY <1>0, <1>6 DEF MakeUser, AskedInv, HasAdmin, UsersOf
  <2>3. \A v \in users' : v \in users \/ v = u
    BY <1>6 DEF MakeUser
  <2> QED  BY <1>0, <1>6, <2>1, <2>2, <2>3 DEF MakeUser, AskedInv, AdminsComeFirst
<1> QED  BY <1>1, <1>2, <1>3, <1>4, <1>5, <1>6 DEF AccountsNext

-----------------------------------------------------------------------------
(* Tokens. *)

(* Revoking a token changes its flag and nothing else. *)
LEMMA RevokedIs ==
    ASSUME TypeOK, NEW i \in DOMAIN tokens
    PROVE  /\ Revoked(i) \in Seq(Token)
           /\ Len(Revoked(i)) = Len(tokens)
           /\ \A j \in DOMAIN tokens :
                /\ Revoked(i)[j].line = tokens[j].line
                /\ Revoked(i)[j].user = tokens[j].user
                /\ Revoked(i)[j].revoked <=> (j = i \/ tokens[j].revoked)
<1> DEFINE row == [tokens[i] EXCEPT !.revoked = TRUE]
<1>1. tokens[i] \in Token
  BY DEF TypeOK
<1>2. /\ row \in Token
      /\ row.line = tokens[i].line /\ row.user = tokens[i].user /\ row.revoked
  BY <1>1 DEF Token
<1>3. Revoked(i) = [tokens EXCEPT ![i] = row]
  BY DEF Revoked
<1> HIDE DEF row
<1>4. Revoked(i) \in Seq(Token) /\ Len(Revoked(i)) = Len(tokens)
  BY <1>2, <1>3 DEF TypeOK
<1>5. Revoked(i)[i] = row
  BY <1>3 DEF TypeOK
<1>6. \A j \in DOMAIN tokens : j # i => Revoked(i)[j] = tokens[j]
  BY <1>3 DEF TypeOK
<1> QED  BY <1>2, <1>4, <1>5, <1>6

LEMMA IssuedIs ==
    ASSUME TypeOK, NEW u \in User, NEW l \in Nat
    PROVE  /\ Issued(u, l) \in Token
           /\ Issued(u, l).line = l /\ ~Issued(u, l).revoked
  BY DEF Issued, Token

(* A request in flight is about a token there is. *)
LEMMA CallIs ==
    ASSUME TypeOK, NEW c \in Clients, calls[c].does \in {"refresh", "logout"}
    PROVE  /\ calls[c].token \in DOMAIN tokens
           /\ calls[c].token \in 1 .. Len(tokens)
           /\ tokens[calls[c].token].user \in User
           /\ tokens[calls[c].token].line \in Nat
<1>1. calls[c].token \in DOMAIN tokens
  BY DEF TypeOK, Idle
<1>2. tokens[calls[c].token] \in Token
  BY <1>1 DEF TypeOK
<1> QED  BY <1>1, <1>2 DEF TypeOK, Token

(* What one step of a request does: the invariants that make up the proof. *)
TokensInv == TypeOK /\ LinesInv /\ EndsInv

LEMMA LoginStep ==
    ASSUME TokensInv, NEW u \in users, Login(u)
    PROVE  TokensInv'
<1> USE DEF TokensInv
<1> DEFINE n == Len(tokens)
<1>0. u \in User /\ n \in Nat
  BY DEF TypeOK, AccountsTypeOK
<1>1. /\ Issued(u, n + 1) \in Token
      /\ Issued(u, n + 1).line = n + 1 /\ ~Issued(u, n + 1).revoked
  BY <1>0, IssuedIs
<1>2. /\ tokens' \in Seq(Token) /\ Len(tokens') = n + 1 /\ n + 1 <= MaxTokens
      /\ \A i \in DOMAIN tokens : tokens'[i] = tokens[i]
      /\ tokens'[n + 1] = Issued(u, n + 1)
  BY <1>0, <1>1, SessionBound DEF Login, TypeOK
<1>3. TypeOK'
  BY <1>2 DEF TypeOK, AccountsTypeOK, Login, accounts
<1>4. LinesInv'
  BY <1>0, <1>1, <1>2 DEF LinesInv, Login, TypeOK
<1>5. ASSUME NEW l \in Nat
      PROVE  OneEnd(l)'
  <2>1. CASE l = n + 1
    <3>1. Open(l)' \subseteq {n + 1}
      BY <1>0, <1>1, <1>2, <2>1 DEF Open, LinesInv, TypeOK
    <3>2. l \notin ended'
      BY <1>0, <2>1 DEF LinesInv, Login
    <3> QED  BY <3>1, <3>2 DEF OneEnd
  <2>2. CASE l # n + 1
    <3>1. Open(l)' = Open(l)
      BY <1>0, <1>1, <1>2, <2>2 DEF Open, TypeOK
    <3>2. OneEnd(l)
      BY DEF EndsInv
    <3> QED  BY <3>1, <3>2 DEF OneEnd, Login
  <2> QED  BY <2>1, <2>2
<1> QED  BY <1>3, <1>4, <1>5 DEF EndsInv

LEMMA RefreshStep ==
    ASSUME TokensInv, NEW c \in Clients, Refresh(c)
    PROVE  TokensInv'
<1> USE DEF TokensInv
<1> DEFINE n == Len(tokens)
           i == calls[c].token
           l0 == tokens[i].line
           old == Revoked(i)
           new == Issued(tokens[i].user, l0)
<1>0. /\ n \in Nat /\ i \in DOMAIN tokens /\ i \in 1 .. n
      /\ l0 \in Nat /\ tokens[i].user \in User
  BY CallIs DEF Refresh, TypeOK
<1>1. new \in Token /\ new.line = l0 /\ ~new.revoked
  BY <1>0, IssuedIs
<1>2. /\ old \in Seq(Token) /\ Len(old) = n
      /\ \A j \in DOMAIN tokens :
            /\ old[j].line = tokens[j].line
            /\ old[j].revoked <=> (j = i \/ tokens[j].revoked)
  BY <1>0, RevokedIs
<1>3. tokens' = Append(old, new) /\ n + 1 <= MaxTokens
  BY <1>0, SessionBound DEF Refresh, TypeOK
<1> HIDE DEF old, new
<1>4. /\ tokens' \in Seq(Token) /\ Len(tokens') = n + 1
      /\ \A j \in DOMAIN tokens : tokens'[j] = old[j]
      /\ tokens'[n + 1] = new
      /\ DOMAIN tokens = 1 .. n /\ DOMAIN tokens' = 1 .. n + 1
  BY <1>0, <1>1, <1>2, <1>3 DEF TypeOK
<1>5. raced' = IF tokens[i].revoked THEN raced \cup {l0} ELSE raced
  BY DEF Refresh, NoteRace
<1>6. l0 \in 1 .. i
  BY <1>0 DEF LinesInv
<1>7. TypeOK'
  <2>1. calls' \in [Clients -> Call \cup {Idle}]
    BY DEF TypeOK, Refresh
  <2>2. \A d \in Clients : calls'[d] = Idle \/ calls'[d].token \in DOMAIN tokens'
    BY <1>0, <1>4 DEF TypeOK, Refresh
  <2>3. raced' \cup ended' \subseteq 1 .. MaxTokens
    BY <1>0, <1>3, <1>5, <1>6, SessionBound DEF TypeOK, Refresh
  <2>4. AccountsTypeOK'
    BY DEF TypeOK, AccountsTypeOK, Refresh, accounts
  <2> QED  BY <1>3, <1>4, <2>1, <2>2, <2>3, <2>4 DEF TypeOK
<1>8. LinesInv'
  <2>1. \A j \in DOMAIN tokens' : tokens'[j].line \in 1 .. j
    BY <1>0, <1>1, <1>2, <1>4, <1>6 DEF LinesInv
  <2>2. raced' \cup ended' \subseteq 1 .. Len(tokens')
    BY <1>0, <1>4, <1>5, <1>6 DEF LinesInv, Refresh
  <2> QED  BY <2>1, <2>2 DEF LinesInv
<1>9. ASSUME NEW l \in Nat
      PROVE  OneEnd(l)'
  <2>0. OneEnd(l)
    BY DEF EndsInv
  <2>1. CASE l # l0
    <3>1. \A j : j \in Open(l)' <=> j \in Open(l)
      BY <1>0, <1>1, <1>2, <1>4, <2>1 DEF Open
    <3> QED  BY <1>5, <2>0, <2>1, <3>1 DEF OneEnd, Refresh
  <2>2. CASE l = l0 /\ tokens[i].revoked
    BY <1>5, <2>2 DEF OneEnd
  <2>3. CASE l = l0 /\ ~tokens[i].revoked
    <3>1. i \in Open(l)
      BY <1>0, <2>3 DEF Open
    <3>2. l \notin raced => Open(l) = {i} /\ l \notin ended
      BY <2>0, <3>1 DEF OneEnd
    <3>3. Open(l)' \subseteq (Open(l) \ {i}) \cup {n + 1}
      BY <1>0, <1>2, <1>4 DEF Open
    <3> QED  BY <1>5, <2>3, <3>2, <3>3 DEF OneEnd, Refresh
  <2> QED  BY <2>1, <2>2, <2>3
<1> QED  BY <1>7, <1>8, <1>9 DEF EndsInv

LEMMA LogoutStep ==
    ASSUME TokensInv, NEW c \in Clients, Logout(c)
    PROVE  TokensInv'
<1> USE DEF TokensInv
<1> DEFINE n == Len(tokens)
           i == calls[c].token
           l0 == tokens[i].line
           old == Revoked(i)
<1>0. /\ n \in Nat /\ i \in DOMAIN tokens /\ i \in 1 .. n /\ l0 \in Nat
  BY CallIs DEF Logout, TypeOK
<1>2. /\ old \in Seq(Token) /\ Len(old) = n
      /\ \A j \in DOMAIN tokens :
            /\ old[j].line = tokens[j].line
            /\ old[j].revoked <=> (j = i \/ tokens[j].revoked)
  BY <1>0, RevokedIs
<1>3. tokens' = old
  BY DEF Logout
<1> HIDE DEF old
<1>4. DOMAIN tokens = 1 .. n /\ DOMAIN tokens' = 1 .. n
  BY <1>2, <1>3 DEF TypeOK
<1>5. /\ raced' = IF tokens[i].revoked THEN raced \cup {l0} ELSE raced
      /\ ended' = ended \cup {l0}
  BY DEF Logout, NoteRace
<1>6. l0 \in 1 .. i
  BY <1>0 DEF LinesInv
<1>7. TypeOK'
  <2>1. calls' \in [Clients -> Call \cup {Idle}]
    BY DEF TypeOK, Logout
  <2>2. \A d \in Clients : calls'[d] = Idle \/ calls'[d].token \in DOMAIN tokens'
    BY <1>4 DEF TypeOK, Logout
  <2>3. raced' \cup ended' \subseteq 1 .. MaxTokens
    BY <1>0, <1>5, <1>6, SessionBound DEF TypeOK
  <2>4. AccountsTypeOK'
    BY DEF TypeOK, AccountsTypeOK, Logout, accounts
  <2>5. tokens' \in Seq(Token) /\ Len(tokens') <= MaxTokens
    BY <1>2, <1>3 DEF TypeOK
  <2> QED  BY <2>1, <2>2, <2>3, <2>4, <2>5 DEF TypeOK
<1>8. LinesInv'
  <2>1. \A j \in DOMAIN tokens' : tokens'[j].line \in 1 .. j
    BY <1>2, <1>3, <1>4 DEF LinesInv
  <2>2. raced' \cup ended' \subseteq 1 .. Len(tokens')
    BY <1>0, <1>2, <1>3, <1>5, <1>6 DEF LinesInv
  <2> QED  BY <2>1, <2>2 DEF LinesInv
<1>9. ASSUME NEW l \in Nat
      PROVE  OneEnd(l)'
  <2>0. OneEnd(l)
    BY DEF EndsInv
  <2>1. CASE l # l0
    <3>1. \A j : j \in Open(l)' <=> j \in Open(l)
      BY <1>0, <1>2, <1>3, <1>4, <2>1 DEF Open
    <3> QED  BY <1>5, <2>0, <2>1, <3>1 DEF OneEnd
  <2>2. CASE l = l0 /\ tokens[i].revoked
    BY <1>5, <2>2 DEF OneEnd
  <2>3. CASE l = l0 /\ ~tokens[i].revoked
    <3>1. i \in Open(l)
      BY <1>0, <2>3 DEF Open
    <3>2. l \notin raced => Open(l) = {i}
      BY <2>0, <3>1 DEF OneEnd
    <3>3. Open(l)' \subseteq Open(l) \ {i}
      BY <1>0, <1>2, <1>3, <1>4 DEF Open
    <3> QED  BY <1>5, <2>3, <3>2, <3>3 DEF OneEnd
  <2> QED  BY <2>1, <2>2, <2>3
<1> QED  BY <1>7, <1>8, <1>9 DEF EndsInv

(* The steps that leave lines and revocations as they are. *)
LEMMA QuietStep ==
    ASSUME TokensInv, AccountsTypeOK', UNCHANGED <<raced, ended>>,
           tokens' \in Seq(Token), Len(tokens') = Len(tokens),
           \A i \in DOMAIN tokens : /\ tokens'[i].line = tokens[i].line
                                    /\ tokens'[i].revoked = tokens[i].revoked,
           calls' \in [Clients -> Call \cup {Idle}],
           \A c \in Clients : calls'[c] = Idle \/ calls'[c].token \in DOMAIN tokens
    PROVE  TokensInv'
<1> USE DEF TokensInv
<1>1. DOMAIN tokens' = DOMAIN tokens /\ DOMAIN tokens = 1 .. Len(tokens)
  BY DEF TypeOK
<1>2. TypeOK'
  BY <1>1 DEF TypeOK
<1>3. LinesInv'
  BY <1>1 DEF LinesInv
<1>4. ASSUME NEW l \in Nat
      PROVE  OneEnd(l)'
  <2>1. Open(l)' = Open(l)
    BY <1>1 DEF Open
  <2>2. OneEnd(l)
    BY DEF EndsInv
  <2> QED  BY <2>1, <2>2 DEF OneEnd
<1> QED  BY <1>2, <1>3, <1>4 DEF EndsInv

-----------------------------------------------------------------------------
(* The inductive invariant, and what follows from it. *)

IInv == TokensInv /\ AskedInv /\ AdminsComeFirst

LEMMA InitInv == Init => IInv
<1> SUFFICES ASSUME Init
             PROVE  IInv
  OBVIOUS
<1>1. TypeOK
  BY SessionBound DEF Init, AccountsInit, TypeOK, AccountsTypeOK
<1>2. LinesInv /\ EndsInv
  BY DEF Init, LinesInv, EndsInv, OneEnd, Open
<1>3. AskedInv /\ AdminsComeFirst
  BY DEF Init, AccountsInit, AskedInv, AdminsComeFirst, Up
<1> QED  BY <1>1, <1>2, <1>3 DEF IInv, TokensInv

LEMMA SessionsStep ==
    ASSUME TokensInv, SessionsNext
    PROVE  TokensInv'
<1>0. TypeOK
  BY DEF TokensInv
<1>1. ASSUME NEW u \in users, Login(u)
      PROVE  TokensInv'
  BY <1>1, LoginStep
<1>2. ASSUME NEW c \in Clients, Refresh(c)
      PROVE  TokensInv'
  BY <1>2, RefreshStep
<1>3. ASSUME NEW c \in Clients, Logout(c)
      PROVE  TokensInv'
  BY <1>3, LogoutStep
<1>4. ASSUME NEW c \in Clients, Abandon(c)
      PROVE  TokensInv'
  <2>1. AccountsTypeOK'
    BY <1>0, <1>4 DEF Abandon, accounts, TypeOK, AccountsTypeOK
  <2>2. calls' \in [Clients -> Call \cup {Idle}]
    BY <1>0, <1>4 DEF Abandon, TypeOK
  <2>3. \A d \in Clients : calls'[d] = Idle \/ calls'[d].token \in DOMAIN tokens
    BY <1>0, <1>4 DEF Abandon, TypeOK
  <2> QED  BY <1>0, <1>4, <2>1, <2>2, <2>3, QuietStep DEF Abandon, TypeOK
<1>5. ASSUME NEW c \in Clients, NEW i \in DOMAIN tokens,
             NEW what \in {"refresh", "logout"}, Read(c, what, i)
      PROVE  TokensInv'
  <2> DEFINE call == [does |-> what, token |-> i]
  <2>1. AccountsTypeOK'
    BY <1>0, <1>5 DEF Read, accounts, TypeOK, AccountsTypeOK
  <2>2. call \in Call /\ call.token = i
    BY <1>0, SessionBound DEF TypeOK, Call
  <2>3. calls' = [calls EXCEPT ![c] = call]
    BY <1>5 DEF Read
  <2> HIDE DEF call
  <2>4. calls' \in [Clients -> Call \cup {Idle}]
    BY <1>0, <2>2, <2>3 DEF TypeOK
  <2>5. \A d \in Clients : calls'[d] = Idle \/ calls'[d].token \in DOMAIN tokens
    BY <1>0, <2>2, <2>3 DEF TypeOK
  <2> QED  BY <1>0, <1>5, <2>1, <2>4, <2>5, QuietStep DEF Read, TypeOK
<1>6. ASSUME NEW i \in DOMAIN tokens, Expire(i)
      PROVE  TokensInv'
  <2> DEFINE row == [tokens[i] EXCEPT !.expired = TRUE]
  <2>1. AccountsTypeOK'
    BY <1>0, <1>6 DEF Expire, accounts, TypeOK, AccountsTypeOK
  <2>2. tokens[i] \in Token
    BY <1>0 DEF TypeOK
  <2>3. row \in Token /\ row.line = tokens[i].line /\ row.revoked = tokens[i].revoked
    BY <2>2 DEF Token
  <2>4. tokens' = [tokens EXCEPT ![i] = row]
    BY <1>6 DEF Expire
  <2> HIDE DEF row
  <2>5. /\ tokens' \in Seq(Token) /\ Len(tokens') = Len(tokens)
        /\ \A j \in DOMAIN tokens : /\ tokens'[j].line = tokens[j].line
                                     /\ tokens'[j].revoked = tokens[j].revoked
    BY <1>0, <2>3, <2>4 DEF TypeOK
  <2> QED  BY <1>0, <1>6, <2>1, <2>5, QuietStep DEF Expire, TypeOK
<1> QED  BY <1>1, <1>2, <1>3, <1>4, <1>5, <1>6 DEF SessionsNext

LEMMA StepInv == IInv /\ [Next]_vars => IInv'
<1> SUFFICES ASSUME IInv, [Next]_vars
             PROVE  IInv'
  OBVIOUS
<1>0. TokensInv /\ TypeOK /\ AccountsTypeOK /\ AskedInv /\ AdminsComeFirst
  BY DEF IInv, TokensInv, TypeOK
<1>1. CASE SessionsNext
  <2>1. UNCHANGED accounts
    BY <1>1 DEF SessionsNext, Login, Refresh, Logout, Abandon, Read, Expire
  <2>2. AskedInv' /\ AdminsComeFirst'
    BY <1>0, <2>1 DEF accounts, AskedInv, AdminsComeFirst, Up, HasAdmin, UsersOf
  <2> QED  BY <1>0, <1>1, <2>2, SessionsStep DEF IInv
<1>2. CASE AccountsNext /\ UNCHANGED sessions
  <2>1. AccountsTypeOK' /\ AskedInv' /\ AdminsComeFirst'
    BY <1>0, <1>2, AccountsTypeStep, AdminsStep
  <2>2. TokensInv'
    BY <1>0, <1>2, <2>1, QuietStep DEF sessions, TypeOK
  <2> QED  BY <2>1, <2>2 DEF IInv
<1>3. CASE UNCHANGED vars
  <2>1. AccountsTypeOK' /\ AskedInv' /\ AdminsComeFirst'
    BY <1>0, <1>3 DEF vars, accounts, AccountsTypeOK, AskedInv, AdminsComeFirst,
                      Up, HasAdmin, UsersOf
  <2>2. TokensInv'
    BY <1>0, <1>3, <2>1, QuietStep DEF vars, sessions, TypeOK
  <2> QED  BY <2>1, <2>2 DEF IInv
<1> QED  BY <1>1, <1>2, <1>3 DEF Next

LEMMA InvHolds == Spec => []IInv
  BY InitInv, StepInv, PTL DEF Spec

-----------------------------------------------------------------------------
(* Every reachable state is well-typed. *)
THEOREM TypeCorrect == Spec => []TypeOK
<1>1. IInv => TypeOK
  BY DEF IInv, TokensInv
<1> QED  BY <1>1, InvHolds, PTL

(* However requests and starting services overlap, an organization with users
   has an administrator, and a service that answers finds the seeded one. *)
THEOREM AdminsAreFirst == Spec => []AdminsComeFirst
<1>1. IInv => AdminsComeFirst
  BY DEF IInv
<1> QED  BY <1>1, InvHolds, PTL

(* For any number of clients and tokens: a line that no two requests raced for
   has at most one token that is not revoked, and none after its logout. *)
THEOREM LinesEndOnce == Spec => []LinesHaveOneEnd
<1>1. IInv => LinesHaveOneEnd
  BY SessionBound DEF IInv, TokensInv, EndsInv, OneEnd, LinesHaveOneEnd
<1> QED  BY <1>1, InvHolds, PTL
=============================================================================
