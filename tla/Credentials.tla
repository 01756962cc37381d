----------------------------- MODULE Credentials -----------------------------
(***************************************************************************)
(* What a caller of a node authenticates with: accounts, sessions (chains  *)
(* of refresh tokens), hand-off grants and API tokens (app/routers/auth.py, *)
(* wyv_internal.py and ai.py, app/services/api_tokens.py, wyv_bridge.py and *)
(* the grants of sync_bridge.py).                                          *)
(*                                                                         *)
(* A request reads, awaits, writes and commits; nothing it has read is     *)
(* locked.  Refresh tokens and API tokens are rows of two tables, here of  *)
(* one: kind tells them apart.                                             *)
(*                                                                         *)
(* What is abstracted.                                                     *)
(*  - Passwords, secrets, hashes, signatures and the rate limiter: a       *)
(*    request that is refused for them changes nothing.  Access tokens are *)
(*    not stored and simply run out.                                       *)
(*  - A person has one email address, and an account is found by it.       *)
(*    Accounts are never deleted, so a login is one step.                  *)
(*  - A token's expiry is a step that may happen at any time, the expiry   *)
(*    of grants a clock of Second ticks a second; a call to Redis takes    *)
(*    less than a tick.                                                    *)
(*  - names of API tokens, and when they were last used.                   *)
(***************************************************************************)
EXTENDS Naturals, Sequences, FiniteSets

CONSTANTS
    Person,
    Request,         \* the requests ever made that take several steps (bound)
    Credential,      \* the rows ever inserted (bound)
    Grant,           \* the grants ever created (bound)
    NoPerson, NoCredential, NoGrant,
    Second,          \* ticks in a second
    GrantTtl,        \* seconds a grant is valid: at least MinTtl
    MinTtl,          \* seconds the mark of a used grant is kept at least
    MaxTime          \* bound of the clock, in ticks

ASSUME NullAssumption ==
    NoPerson \notin Person /\ NoCredential \notin Credential /\ NoGrant \notin Grant
ASSUME TimeAssumption ==
    /\ Second \in Nat \ {0} /\ MinTtl \in Nat \ {0} /\ GrantTtl \in Nat /\ MaxTime \in Nat
    /\ GrantTtl >= MinTtl

VARIABLES
    account,     \* "none", "local" if made here, "synced" if main's
    taken,       \* persons whose name and number somebody else bears here
    kind, owner, \* of a credential: a "session" token, an "api" token
    family,      \* history: the token a session began with
    revoked,     \* is_revoked, or revoked_at is set
    expired,
    now,
    type, subject, expires,  \* what a grant says
    mark,        \* until when Redis remembers that a grant was used
    stage, op, person,
    about,       \* the credentials a request has read
    grant, found,
    uses,        \* history: the seconds in which a grant was used
    lost,        \* history: grants whose exchange met a unique constraint
    overtaken,   \* history: grants whose subject got an account meanwhile
    raced,       \* history: sessions two requests were about at once
    ended,       \* history: sessions about which a logout was answered
    outdated,    \* history: those whose last logout named a revoked token
    alone,       \* history: API requests nobody else's overlapped
    swept        \* history: persons who have revoked all their API tokens

rows    == <<account, taken, kind, owner, family, revoked, expired>>
grants  == <<type, subject, expires, mark, uses>>
request == <<stage, op, person, about, grant, found>>
history == <<lost, overtaken, raced, ended, outdated, alone, swept>>
vars    == <<rows, now, grants, request, history>>

SessionOp == {"refresh", "logout"}
ApiOp     == {"revoke", "rotate", "revokeAll", "rotateAll"}

Init ==
    /\ account \in [Person -> {"none", "local", "synced"}]
    /\ taken \in SUBSET {p \in Person : account[p] = "none"}
    /\ kind = [c \in Credential |-> "none"]
    /\ owner = [c \in Credential |-> NoPerson]
    /\ family = [c \in Credential |-> NoCredential]
    /\ revoked = {} /\ expired = {}
    /\ now = 0
    /\ type = [g \in Grant |-> "none"]
    /\ subject = [g \in Grant |-> NoPerson]
    /\ expires = [g \in Grant |-> 0]
    /\ mark = [g \in Grant |-> 0]
    /\ uses = [g \in Grant |-> <<>>]
    /\ stage = [r \in Request |-> "idle"]
    /\ op = [r \in Request |-> "none"]
    /\ person = [r \in Request |-> NoPerson]
    /\ about = [r \in Request |-> {}]
    /\ grant = [r \in Request |-> NoGrant]
    /\ found = [r \in Request |-> FALSE]
    /\ lost = {} /\ overtaken = {} /\ raced = {} /\ ended = {} /\ outdated = {}
    /\ alone = {} /\ swept = {}

Clock      == now \div Second        \* int(datetime.now().timestamp())
Fresh(S)   == \A c \in S : kind[c] = "none"
Session(c) == kind[c] = "session"
Api(c)     == kind[c] = "api"
Live(c)    == kind[c] # "none" /\ c \notin revoked
Usable(c)  == Session(c) /\ c \notin revoked /\ c \notin expired

(* get_current_user: what a request's access token names is an account.     *)
Authenticated(p) == account[p] # "none"

(* The new row c of a session that began with root.                         *)
IssueSession(c, p, root) ==
    /\ Fresh({c})
    /\ kind' = [kind EXCEPT ![c] = "session"]
    /\ owner' = [owner EXCEPT ![c] = p]
    /\ family' = [family EXCEPT ![c] = root]

(* create_api_token, once for each row of S.                                *)
IssueApi(S, p) ==
    /\ Fresh(S)
    /\ kind' = [c \in Credential |-> IF c \in S THEN "api" ELSE kind[c]]
    /\ owner' = [c \in Credential |-> IF c \in S THEN p ELSE owner[c]]
    /\ UNCHANGED family

Start(r, o, p, C) ==
    /\ stage[r] = "idle"
    /\ stage' = [stage EXCEPT ![r] = "read"]
    /\ op' = [op EXCEPT ![r] = o]
    /\ person' = [person EXCEPT ![r] = p]
    /\ about' = [about EXCEPT ![r] = C]

(* The request is answered, or fails: what it knew is gone.                 *)
Finish(r) ==
    /\ stage' = [stage EXCEPT ![r] = "done"]
    /\ op' = [op EXCEPT ![r] = "none"]
    /\ person' = [person EXCEPT ![r] = NoPerson]
    /\ about' = [about EXCEPT ![r] = {}]
    /\ grant' = [grant EXCEPT ![r] = NoGrant]
    /\ found' = [found EXCEPT ![r] = FALSE]

(* p's account is inserted: other exchanges that found none will fail.      *)
Overtake(p, R) ==
    overtaken' = overtaken \cup
        {grant[r] : r \in {q \in R : op[q] = "edge" /\ person[q] = p
                                      /\ stage[q] = "found" /\ ~found[q]}}

-----------------------------------------------------------------------------
(* Accounts and sessions                                                    *)

(* The first half of register: the address is not in use.                   *)
ReadAddress(r, p) ==
    /\ account[p] = "none"
    /\ Start(r, "register", p, {})
    /\ UNCHANGED <<rows, now, grants, grant, found, history>>

(* The insert and the commit; a row with the address, inserted meanwhile,   *)
(* makes the request fail.                                                  *)
Register(r, c) ==
    LET p == person[r] IN
    /\ stage[r] = "read" /\ op[r] = "register"
    /\ IF account[p] = "none"
       THEN /\ account' = [account EXCEPT ![p] = "local"]
            /\ IssueSession(c, p, c)
            /\ Overtake(p, Request)
       ELSE UNCHANGED <<account, kind, owner, family, overtaken>>
    /\ Finish(r)
    /\ UNCHANGED <<taken, revoked, expired, now, grants, lost, raced, ended, outdated,
                   alone, swept>>

(* Main's row of the account arrives (_apply_user of the bridge); the       *)
(* unique constraint on name and number may refuse it.                      *)
Replicate(p) ==
    /\ account[p] = "none" /\ p \notin taken
    /\ account' = [account EXCEPT ![p] = "synced"]
    /\ Overtake(p, Request)
    /\ UNCHANGED <<taken, kind, owner, family, revoked, expired, now, grants, request,
                   lost, raced, ended, outdated, alone, swept>>

Login(p, c) ==
    /\ account[p] # "none"
    /\ IssueSession(c, p, c)
    /\ UNCHANGED <<account, taken, revoked, expired, now, grants, request, history>>

(* Another request is at work on a token of the session.                    *)
Busy(r, root) ==
    \E q \in Request \ {r} :
        op[q] \in SessionOp /\ \E d \in about[q] : family[d] = root

(* refresh_tokens and logout find the row of the token: it is not revoked,  *)
(* nor expired, as decode_token refuses an expired one as well.             *)
ReadToken(r, o, c) ==
    /\ o \in SessionOp
    /\ Usable(c)
    /\ Start(r, o, owner[c], {c})
    /\ raced' = IF Busy(r, family[c]) THEN raced \cup {family[c]} ELSE raced
    /\ UNCHANGED <<rows, now, grants, grant, found, lost, overtaken, ended, outdated,
                   alone, swept>>

(* Mutant: the token that was refreshed stays valid.                        *)
Spent_None(r) == {}

(* The tokens that is_revoked is set of when a token is refreshed.          *)
Spent(r) == about[r]

Refresh(r, c) ==
    /\ stage[r] = "read" /\ op[r] = "refresh"
    /\ revoked' = revoked \cup Spent(r)
    /\ \E d \in about[r] : IssueSession(c, owner[d], family[d])
    /\ Finish(r)
    /\ UNCHANGED <<account, taken, expired, now, grants, history>>

(* Mutant: the change is not committed.                                     *)
Closed_None(r) == {}

(* The tokens a logout revokes.                                             *)
Closed(r) == about[r]

Logout(r) ==
    /\ stage[r] = "read" /\ op[r] = "logout"
    /\ revoked' = revoked \cup Closed(r)
    /\ ended' = ended \cup {family[d] : d \in about[r]}
    /\ outdated' = outdated \ {family[d] : d \in about[r]}
    /\ Finish(r)
    /\ UNCHANGED <<account, taken, kind, owner, family, expired, now, grants,
                   lost, overtaken, raced, alone, swept>>

(* A token that has been revoked still decodes: logout finds no row of it,  *)
(* changes nothing and answers as ever.                                     *)
LogoutSpent(r, c) ==
    /\ stage[r] = "idle"
    /\ Session(c) /\ c \in revoked \ expired
    /\ ended' = ended \cup {family[c]}
    /\ outdated' = outdated \cup {family[c]}
    /\ Finish(r)
    /\ UNCHANGED <<rows, now, grants, lost, overtaken, raced, alone, swept>>

Expire(c) ==
    /\ Session(c) /\ c \notin expired
    /\ expired' = expired \cup {c}
    /\ UNCHANGED <<account, taken, kind, owner, family, revoked, now, grants, request, history>>

-----------------------------------------------------------------------------
(* Hand-off grants                                                          *)

Tick ==
    /\ now < MaxTime
    /\ now' = now + 1
    /\ UNCHANGED <<rows, grants, request, history>>

Expiry == Clock + GrantTtl

(* edge_handoff and wyv_handoff: a signed grant that names its subject,     *)
(* who has an account on the node that makes it.                            *)
CreateGrant(g, t, p) ==
    /\ type[g] = "none" /\ t \in {"edge", "wyv"}
    /\ type' = [type EXCEPT ![g] = t]
    /\ subject' = [subject EXCEPT ![g] = p]
    /\ expires' = [expires EXCEPT ![g] = Expiry]
    /\ UNCHANGED <<rows, now, mark, uses, request, history>>

Valid(g) == type[g] # "none" /\ Clock <= expires[g]

(* Mutant: the answer of Redis is not looked at.                            *)
Unused_Always(g) == TRUE

(* SET with NX succeeds: no key of the grant is there.                      *)
Unused(g) == mark[g] <= now

TimeToLive(g) == LET left == expires[g] - Clock IN
                 IF expires[g] >= Clock + MinTtl THEN left ELSE MinTtl

(* decode_..._grant, then consume_..._grant.                                *)
Consume(r, g) ==
    /\ stage[r] = "idle"
    /\ Valid(g) /\ Unused(g)
    /\ mark' = [mark EXCEPT ![g] = now + TimeToLive(g) * Second]
    /\ uses' = [uses EXCEPT ![g] = Append(@, Clock)]
    /\ stage' = [stage EXCEPT ![r] = "used"]
    /\ op' = [op EXCEPT ![r] = type[g]]
    /\ person' = [person EXCEPT ![r] = subject[g]]
    /\ grant' = [grant EXCEPT ![r] = g]
    /\ UNCHANGED <<rows, now, type, subject, expires, about, found, history>>

(* Mutant: an account that was made on this node is not found.              *)
Known_BySyncId(p) == account[p] = "synced"

(* The account is looked for by sync_id, then by address.                   *)
Known(p) == account[p] # "none"

Find(r) ==
    /\ stage[r] = "used" /\ op[r] = "edge"
    /\ stage' = [stage EXCEPT ![r] = "found"]
    /\ found' = [found EXCEPT ![r] = Known(person[r])]
    /\ UNCHANGED <<rows, now, grants, op, person, about, grant, history>>

(* The rest of edge_exchange: the account is inserted if none was found.    *)
Exchange(r, c) ==
    LET p == person[r] IN
    /\ stage[r] = "found"
    /\ IF found[r] \/ (account[p] = "none" /\ p \notin taken)
       THEN /\ account' = [account EXCEPT ![p] = IF found[r] THEN @ ELSE "synced"]
            /\ IssueSession(c, p, c)
            /\ IF found[r] THEN UNCHANGED overtaken ELSE Overtake(p, Request \ {r})
            /\ UNCHANGED lost
       ELSE /\ lost' = lost \cup {grant[r]}
            /\ UNCHANGED <<account, kind, owner, family, overtaken>>
    /\ Finish(r)
    /\ UNCHANGED <<taken, revoked, expired, now, grants, raced, ended, outdated, alone, swept>>

(* The rest of session_exchange: the account, or what the grant says of it. *)
AnswerWyv(r) ==
    /\ stage[r] = "used" /\ op[r] = "wyv"
    /\ Finish(r)
    /\ UNCHANGED <<rows, now, grants, history>>

-----------------------------------------------------------------------------
(* API tokens                                                               *)

InFlight(p) == {r \in Request : op[r] \in ApiOp /\ person[r] = p}

(* Mutant: _load_tokens gives the newest token only.                        *)
Tokens_Newest(p) ==
    LET T == {c \in Credential : Api(c) /\ owner[c] = p} IN
    IF T = {} THEN {} ELSE {CHOOSE c \in T : TRUE}

(* _load_tokens: all of them, the revoked ones too.                         *)
Tokens(p) == {c \in Credential : Api(c) /\ owner[c] = p}

(* A request about p's API tokens comes: whoever is at work is not alone.   *)
Meet(p) == alone \ InFlight(p)

CreateToken(p, c) ==
    /\ Authenticated(p)
    /\ IssueApi({c}, p)
    /\ alone' = Meet(p)
    /\ swept' = swept \ {p}
    /\ UNCHANGED <<account, taken, revoked, expired, now, grants, request,
                   lost, overtaken, raced, ended, outdated>>

(* What such a request reads: the token it names, or the whole list.        *)
Selections(o, p) == IF o \in {"revokeAll", "rotateAll"} THEN {Tokens(p)}
                    ELSE {{c} : c \in Tokens(p)}

(* Revoking and rotating one's tokens begin with reading them.              *)
ReadApi(r, o, p) ==
    /\ Authenticated(p)
    /\ \E C \in Selections(o, p) : Start(r, o, p, C)
    /\ alone' = Meet(p) \cup (IF InFlight(p) = {} THEN {r} ELSE {})
    /\ swept' = IF o \in {"rotate", "rotateAll"} THEN swept \ {p} ELSE swept
    /\ UNCHANGED <<rows, now, grants, grant, found, lost, overtaken, raced, ended, outdated>>

Revoke(r) ==
    /\ stage[r] = "read" /\ op[r] \in {"revoke", "revokeAll"}
    /\ revoked' = revoked \cup about[r]
    /\ swept' = IF op[r] = "revokeAll" /\ r \in alone
                THEN swept \cup {person[r]} ELSE swept
    /\ alone' = alone \ {r}
    /\ Finish(r)
    /\ UNCHANGED <<account, taken, kind, owner, family, expired, now, grants,
                   lost, overtaken, raced, ended, outdated>>

(* A replacement for every token that was read, the revoked ones too: S has *)
(* a row for each of them.                                                  *)
Rotate(r, S) ==
    /\ stage[r] = "read" /\ op[r] \in {"rotate", "rotateAll"}
    /\ Cardinality(S) = Cardinality(about[r])
    /\ revoked' = revoked \cup about[r]
    /\ IssueApi(S, person[r])
    /\ alone' = alone \ {r}
    /\ Finish(r)
    /\ UNCHANGED <<account, taken, expired, now, grants, lost, overtaken, raced, ended,
                   outdated, swept>>

(* The database, or the connection to it, fails: nothing is written.        *)
Fail(r) ==
    /\ stage[r] \in {"read", "used", "found"}
    /\ alone' = alone \ {r}
    /\ Finish(r)
    /\ UNCHANGED <<rows, now, grants, lost, overtaken, raced, ended, outdated, swept>>

-----------------------------------------------------------------------------
RequestStep(r) ==
    \/ \E p \in Person : ReadAddress(r, p)
    \/ \E c \in Credential : Register(r, c)
    \/ \E o \in SessionOp, c \in Credential : ReadToken(r, o, c)
    \/ \E c \in Credential : Refresh(r, c)
    \/ Logout(r)
    \/ \E c \in Credential : LogoutSpent(r, c)
    \/ \E g \in Grant : Consume(r, g)
    \/ Find(r)
    \/ \E c \in Credential : Exchange(r, c)
    \/ AnswerWyv(r)
    \/ \E o \in ApiOp, p \in Person : ReadApi(r, o, p)
    \/ Revoke(r)
    \/ \E S \in SUBSET Credential : Rotate(r, S)
    \/ Fail(r)

Next ==
    \/ \E r \in Request : RequestStep(r)
    \/ \E p \in Person, c \in Credential : Login(p, c) \/ CreateToken(p, c)
    \/ \E p \in Person : Replicate(p)
    \/ \E c \in Credential : Expire(c)
    \/ \E g \in Grant, t \in {"edge", "wyv"}, p \in Person : CreateGrant(g, t, p)
    \/ Tick

Spec == Init /\ [][Next]_vars

-----------------------------------------------------------------------------
(* Properties                                                               *)

TypeOK ==
    /\ account \in [Person -> {"none", "local", "synced"}] /\ taken \subseteq Person
    /\ kind \in [Credential -> {"none", "session", "api"}]
    /\ owner \in [Credential -> Person \cup {NoPerson}]
    /\ family \in [Credential -> Credential \cup {NoCredential}]
    /\ revoked \subseteq Credential /\ expired \subseteq Credential
    /\ now \in Nat
    /\ type \in [Grant -> {"none", "edge", "wyv"}]
    /\ subject \in [Grant -> Person \cup {NoPerson}]
    /\ expires \in [Grant -> Nat] /\ mark \in [Grant -> Nat]
    /\ uses \in [Grant -> Seq(Nat)]
    /\ stage \in [Request -> {"idle", "read", "used", "found", "done"}]
    /\ op \in [Request -> {"none", "register", "edge", "wyv"} \cup SessionOp \cup ApiOp]
    /\ person \in [Request -> Person \cup {NoPerson}]
    /\ about \in [Request -> SUBSET Credential]
    /\ grant \in [Request -> Grant \cup {NoGrant}]
    /\ found \in [Request -> BOOLEAN]
    /\ lost \subseteq Grant \cup {NoGrant} /\ overtaken \subseteq Grant \cup {NoGrant}
    /\ raced \subseteq Credential \cup {NoCredential}
    /\ ended \subseteq Credential \cup {NoCredential}
    /\ outdated \subseteq Credential \cup {NoCredential}
    /\ alone \subseteq Request /\ swept \subseteq Person

(* A session has one live refresh token, however often it is refreshed,     *)
(* unless two requests about it have overlapped: then each refresh gives a  *)
(* token of its own (refresh_tokens, auth.py:172).                          *)
SessionsDoNotFork ==
    \A c, d \in Credential :
        Session(c) /\ Session(d) /\ Live(c) /\ Live(d)
        /\ family[c] = family[d] /\ family[c] \notin raced => c = d

(* After a logout was answered no token of the session is live, unless two  *)
(* requests about it have overlapped, or the last logout named a token that *)
(* a refresh had replaced: it is answered all the same, and the replacement *)
(* stays live (auth.py:234, FAQ.md:43: "Your refresh token is revoked, which*)
(* ends that session").                                                     *)
LogoutEndsSession ==
    \A c \in Credential :
        Session(c) /\ Live(c) /\ family[c] \in ended => family[c] \in raced \cup outdated

(* A grant is used once, but for the second it expires in: until that       *)
(* second is over the grant decodes, while the mark of a use long before    *)
(* is kept only up to its first part (sync_bridge.py:623, wyv_bridge.py).   *)
GrantsAreUsedOnce ==
    \A g \in Grant : \A i \in 2 .. Len(uses[g]) :
        i = 2 /\ uses[g][i] = expires[g]

(* The unique constraints refuse an exchange, and so lose its grant, only   *)
(* if the account was inserted between the exchange's look and its insert,  *)
(* or somebody else bears its name and number (edge_exchange, auth.py:273). *)
LostGrantsWereContested == \A g \in lost : g \in overtaken \/ subject[g] \in taken

(* After "revoke all" the person has no live API token until one is made,   *)
(* unless another request about the tokens overlapped it: a token created   *)
(* or rotated after the list was read stays live (revoke_all_api_tokens).   *)
RevokeAllLeavesNone ==
    \A c \in Credential : Api(c) /\ Live(c) => owner[c] \notin swept
=============================================================================
