------------------------------- MODULE Sessions -------------------------------
(***************************************************************************)
(* Refresh tokens (app/api/auth.py, app/models/refresh_token.py) of the     *)
(* users of module Accounts, with whose steps these interleave. A login     *)
(* starts a line of tokens; each refresh is meant to revoke the newest and  *)
(* to append its successor, a logout to revoke it and append none.          *)
(***************************************************************************)
EXTENDS Accounts, Sequences

CONSTANTS Clients,       \* each with at most one refresh or logout in flight
          MaxTokens      \* bound: refresh tokens issued

ASSUME SessionBound == MaxTokens \in Nat

VARIABLES
    tokens,     \* rows of refresh_tokens, in the order of their commits
    calls,      \* requests that have read their token as active
    raced,      \* lines where a request wrote a token that was revoked meanwhile
    ended       \* lines a logout has reported as revoked

sessions == <<tokens, calls, raced, ended>>
vars == <<accounts, sessions>>

Token == [user : User, line : Nat, revoked : BOOLEAN, expired : BOOLEAN]
Idle  == [does |-> "nothing", token |-> 0]
Call  == [does : {"refresh", "logout"}, token : 1 .. MaxTokens]

TypeOK ==
    /\ AccountsTypeOK
    /\ tokens \in Seq(Token) /\ Len(tokens) <= MaxTokens
    /\ calls \in [Clients -> Call \cup {Idle}]
    /\ \A c \in Clients : calls[c] = Idle \/ calls[c].token \in DOMAIN tokens
    /\ raced \cup ended \subseteq 1 .. MaxTokens

Init ==
    /\ AccountsInit
    /\ tokens = <<>>
    /\ calls = [c \in Clients |-> Idle]
    /\ raced = {} /\ ended = {}

IsActive(i) == ~tokens[i].revoked /\ ~tokens[i].expired

(* _issue_tokens: the new row, of line l. *)
Issued(u, l) == [user |-> u, line |-> l, revoked |-> FALSE, expired |-> FALSE]

-----------------------------------------------------------------------------
(* login; a line is named after its first token. *)
Login(u) ==
    /\ Up /\ u \in users
    /\ Len(tokens) < MaxTokens
    /\ tokens' = Append(tokens, Issued(u, Len(tokens) + 1))
    /\ UNCHANGED <<accounts, calls, raced, ended>>

(* refresh and logout first read the token, and refuse one that is not active. *)
Read(c, what, i) ==
    /\ Up /\ calls[c] = Idle
    /\ IsActive(i)
    /\ calls' = [calls EXCEPT ![c] = [does |-> what, token |-> i]]
    /\ UNCHANGED <<accounts, tokens, raced, ended>>

(* Nobody checks that the row is still the one that was read. *)
NoteRace(i) ==
    raced' = IF tokens[i].revoked THEN raced \cup {tokens[i].line} ELSE raced

(* Mutant of Revoked: the row is deleted. *)
MutRevoked(i) == SubSeq(tokens, 1, i - 1) \o SubSeq(tokens, i + 1, Len(tokens))

Revoked(i) == [tokens EXCEPT ![i].revoked = TRUE]

(* Mutant of Refresh: the old token is not revoked. *)
MutRefreshKeepsOld(c) ==
    /\ calls[c].does = "refresh" /\ Len(tokens) < MaxTokens
    /\ LET i == calls[c].token
       IN  /\ tokens' = Append(tokens, Issued(tokens[i].user, tokens[i].line))
           /\ NoteRace(i)
    /\ calls' = [calls EXCEPT ![c] = Idle]
    /\ UNCHANGED <<accounts, ended>>

(* refresh: the old row's revocation and the new row are one commit. *)
Refresh(c) ==
    /\ calls[c].does = "refresh" /\ Len(tokens) < MaxTokens
    /\ LET i == calls[c].token
       IN  /\ tokens' = Append(Revoked(i), Issued(tokens[i].user, tokens[i].line))
           /\ NoteRace(i)
    /\ calls' = [calls EXCEPT ![c] = Idle]
    /\ UNCHANGED <<accounts, ended>>

Logout(c) ==
    /\ calls[c].does = "logout"
    /\ LET i == calls[c].token
       IN  /\ tokens' = Revoked(i)
           /\ NoteRace(i)
           /\ ended' = ended \cup {tokens[i].line}
    /\ calls' = [calls EXCEPT ![c] = Idle]
    /\ UNCHANGED accounts

(* The client or the service goes away before the commit. *)
Abandon(c) ==
    /\ calls[c] # Idle
    /\ calls' = [calls EXCEPT ![c] = Idle]
    /\ UNCHANGED <<accounts, tokens, raced, ended>>

(* expires_at passes. *)
Expire(i) ==
    /\ ~tokens[i].expired
    /\ tokens' = [tokens EXCEPT ![i].expired = TRUE]
    /\ UNCHANGED <<accounts, calls, raced, ended>>

SessionsNext ==
    \/ \E u \in users : Login(u)
    \/ \E c \in Clients :
          \/ Refresh(c) \/ Logout(c) \/ Abandon(c)
          \/ \E i \in DOMAIN tokens : Read(c, "refresh", i) \/ Read(c, "logout", i)
    \/ \E i \in DOMAIN tokens : Expire(i)

Next == SessionsNext \/ (AccountsNext /\ UNCHANGED sessions)

Spec == Init /\ [][Next]_vars

-----------------------------------------------------------------------------
(* The tokens of a login form one line with one usable end: unless two requests
   used one token at the same time, a line has at most one token that is not
   revoked, and none once a logout was confirmed (test_api.py:106, "Old refresh
   token was rotated away"; test_api.py:116-122). *)
Open(l) == {i \in DOMAIN tokens : tokens[i].line = l /\ ~tokens[i].revoked}

LinesHaveOneEnd ==
    \A l \in 1 .. MaxTokens :
        l \notin raced =>
            /\ \A i, j \in Open(l) : i = j
            /\ l \in ended => Open(l) = {}
=============================================================================
