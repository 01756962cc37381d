----------------------------- MODULE AccessProofs -----------------------------
(***************************************************************************)
(* Who may do what, for any number of persons and of requests that         *)
(* overlap.  First the credentials of a node: what overlapping requests    *)
(* about sessions, grants and API tokens cannot break.  Then the MCP       *)
(* server, whose clients act for a person with a token of their own: a     *)
(* tool works for the person whose token came with its request unless      *)
(* requests met, shows only what that person may see, and a connection     *)
(* that was made outlasts restarts and lost answers.                       *)
(***************************************************************************)
EXTENDS Credentials, McpServer, TLAPS

-----------------------------------------------------------------------------
(* The credentials                                                          *)

(* A session began with a token of its own, and the requests about it know  *)
(* its live token or have met.                                              *)
FamilyInv ==
  /\ \A c \in Credential : Session(c) => family[c] \in Credential /\ Session(family[c])
  /\ \A c \in ended : c \in Credential /\ Session(c)
SessionInv ==
  /\ \A r \in Request : op[r] \in SessionOp =>
       \E d \in Credential : /\ about[r] = {d} /\ Session(d)
                             /\ family[d] \in raced \/ d \notin revoked
  /\ \A q, r \in Request : \A c \in about[q], d \in about[r] :
       /\ q # r /\ op[q] \in SessionOp /\ op[r] \in SessionOp
       /\ family[c] = family[d]
       => family[c] \in raced

(* Requests about API tokens are about those of one person; one that is     *)
(* alone with them has read all there are.                                  *)
ApiInv ==
  /\ \A r \in Request : op[r] \in ApiOp =>
       /\ stage[r] = "read" /\ person[r] \in Person
       /\ \A c \in about[r] : Api(c) /\ owner[c] = person[r]
  /\ \A r \in alone : op[r] \in ApiOp
  /\ \A r \in alone, q \in Request :
       q # r /\ op[q] \in ApiOp => person[q] # person[r]
SweptInv ==
  /\ \A r \in Request : op[r] \in {"rotate", "rotateAll"} => person[r] \notin swept
  /\ \A r \in alone : op[r] = "revokeAll" =>
       \A c \in Credential : Api(c) /\ Live(c) /\ owner[c] = person[r] => c \in about[r]

(* An exchange that found no account inserts it, or has been overtaken.     *)
GrantInv ==
  /\ \A r \in Request : stage[r] \in {"used", "found"} =>
       /\ grant[r] \in Grant /\ type[grant[r]] # "none"
       /\ person[r] = subject[grant[r]]
  /\ \A r \in Request : stage[r] = "found" => op[r] = "edge"
  /\ \A g \in Grant : type[g] # "none" => subject[g] \in Person
  /\ \A g \in lost : g \in Grant /\ type[g] # "none"
FoundInv ==
  \A r \in Request : stage[r] = "found" /\ ~found[r] =>
    account[person[r]] = "none" \/ grant[r] \in overtaken

-----------------------------------------------------------------------------
LEMMA TypeInit ==
  ASSUME Init
  PROVE  TypeOK
  <1>1. /\ account \in [Person -> {"none", "local", "synced"}] /\ taken \subseteq Person
        /\ kind \in [Credential -> {"none", "session", "api"}]
        /\ owner \in [Credential -> Person \cup {NoPerson}]
        /\ family \in [Credential -> Credential \cup {NoCredential}]
        /\ revoked \subseteq Credential /\ expired \subseteq Credential
        /\ now \in Nat
    BY DEF Init
  <1>2. /\ type \in [Grant -> {"none", "edge", "wyv"}]
        /\ subject \in [Grant -> Person \cup {NoPerson}]
        /\ expires \in [Grant -> Nat] /\ mark \in [Grant -> Nat]
        /\ uses \in [Grant -> Seq(Nat)]
    BY DEF Init
  <1>3. /\ stage \in [Request -> {"idle", "read", "used", "found", "done"}]
        /\ op \in [Request -> {"none", "register", "edge", "wyv"} \cup SessionOp \cup ApiOp]
        /\ person \in [Request -> Person \cup {NoPerson}]
        /\ about \in [Request -> SUBSET Credential]
        /\ grant \in [Request -> Grant \cup {NoGrant}]
        /\ found \in [Request -> BOOLEAN]
    BY DEF Init
  <1>4. /\ lost \subseteq Grant \cup {NoGrant} /\ overtaken \subseteq Grant \cup {NoGrant}
        /\ raced \subseteq Credential \cup {NoCredential}
        /\ ended \subseteq Credential \cup {NoCredential}
        /\ outdated \subseteq Credential \cup {NoCredential}
        /\ alone \subseteq Request /\ swept \subseteq Person
    BY DEF Init
  <1> QED
    BY <1>1, <1>2, <1>3, <1>4 DEF TypeOK

(* The parts of TypeOK that different actions change.                       *)
RowsOK ==
  /\ account \in [Person -> {"none", "local", "synced"}] /\ taken \subseteq Person
  /\ kind \in [Credential -> {"none", "session", "api"}]
  /\ owner \in [Credential -> Person \cup {NoPerson}]
  /\ family \in [Credential -> Credential \cup {NoCredential}]
  /\ revoked \subseteq Credential /\ expired \subseteq Credential
GrantsOK ==
  /\ now \in Nat
  /\ type \in [Grant -> {"none", "edge", "wyv"}]
  /\ subject \in [Grant -> Person \cup {NoPerson}]
  /\ expires \in [Grant -> Nat] /\ mark \in [Grant -> Nat]
  /\ uses \in [Grant -> Seq(Nat)]
RequestOK ==
  /\ stage \in [Request -> {"idle", "read", "used", "found", "done"}]
  /\ op \in [Request -> {"none", "register", "edge", "wyv"} \cup SessionOp \cup ApiOp]
  /\ person \in [Request -> Person \cup {NoPerson}]
  /\ about \in [Request -> SUBSET Credential]
  /\ grant \in [Request -> Grant \cup {NoGrant}]
  /\ found \in [Request -> BOOLEAN]
HistoryOK ==
  /\ lost \subseteq Grant \cup {NoGrant} /\ overtaken \subseteq Grant \cup {NoGrant}
  /\ raced \subseteq Credential \cup {NoCredential}
  /\ ended \subseteq Credential \cup {NoCredential}
  /\ outdated \subseteq Credential \cup {NoCredential}
  /\ alone \subseteq Request /\ swept \subseteq Person

LEMMA TypeParts ==
  /\ TypeOK <=> RowsOK /\ GrantsOK /\ RequestOK /\ HistoryOK
  /\ TypeOK' <=> RowsOK' /\ GrantsOK' /\ RequestOK' /\ HistoryOK'
  BY DEF TypeOK, RowsOK, GrantsOK, RequestOK, HistoryOK

LEMMA StartType ==
  ASSUME RequestOK, NEW r \in Request, NEW o \in SessionOp \cup ApiOp \cup {"register"},
         NEW p \in Person \cup {NoPerson}, NEW C \in SUBSET Credential,
         Start(r, o, p, C), UNCHANGED <<grant, found>>
  PROVE  RequestOK'
  BY DEF RequestOK, Start

LEMMA FinishType ==
  ASSUME RequestOK, NEW r \in Request, Finish(r)
  PROVE  RequestOK'
  BY DEF RequestOK, Finish

LEMMA SessionType ==
  ASSUME RowsOK, NEW c \in Credential, NEW p \in Person \cup {NoPerson},
         NEW d \in Credential \cup {NoCredential}, IssueSession(c, p, d),
         account' \in [Person -> {"none", "local", "synced"}],
         revoked' \subseteq Credential, UNCHANGED <<taken, expired>>
  PROVE  RowsOK'
  BY DEF RowsOK, IssueSession

LEMMA ApiType ==
  ASSUME RowsOK, NEW S \in SUBSET Credential, NEW p \in Person \cup {NoPerson},
         IssueApi(S, p), revoked' \subseteq Credential, UNCHANGED <<account, taken, expired>>
  PROVE  RowsOK'
  BY DEF RowsOK, IssueApi

LEMMA OvertakeType ==
  ASSUME RequestOK, HistoryOK, NEW p, NEW R \in SUBSET Request, Overtake(p, R)
  PROVE  overtaken' \subseteq Grant \cup {NoGrant}
  BY DEF RequestOK, HistoryOK, Overtake

LEMMA QuotientType ==
  ASSUME NEW n \in Nat, NEW s \in Nat \ {0}
  PROVE  n \div s \in Nat
  BY Z3

LEMMA ProductType ==
  ASSUME NEW n \in Nat, NEW s \in Nat
  PROVE  n * s \in Nat
  BY Z3

LEMMA ClockType ==
  ASSUME GrantsOK
  PROVE  /\ Clock \in Nat
         /\ \A g \in Grant : TimeToLive(g) \in Nat
  <1>1. Clock \in Nat
    BY QuotientType, TimeAssumption DEF GrantsOK, Clock
  <1> QED
    BY <1>1, TimeAssumption DEF GrantsOK, TimeToLive

LEMMA TypeRequestStep ==
  ASSUME TypeOK, ApiInv, NEW r \in Request, RequestStep(r)
  PROVE  TypeOK'
  <1> USE TypeParts
  <1>0. RowsOK /\ GrantsOK /\ RequestOK /\ HistoryOK
    OBVIOUS
  <1>1. ASSUME NEW p \in Person, ReadAddress(r, p) PROVE TypeOK'
    <2>1. RequestOK'
      BY <1>0, <1>1, StartType DEF ReadAddress
    <2> QED
      BY <1>0, <1>1, <2>1 DEF ReadAddress, rows, grants, history, RowsOK, GrantsOK, HistoryOK
  <1>2. ASSUME NEW c \in Credential, Register(r, c) PROVE TypeOK'
    <2>1. RequestOK'
      BY <1>0, <1>2, FinishType DEF Register
    <2>2. person[r] \in Person \cup {NoPerson}
      BY <1>0 DEF RequestOK
    <2>3. /\ account' \in [Person -> {"none", "local", "synced"}]
          /\ revoked' \subseteq Credential
      BY <1>0, <1>2 DEF Register, RowsOK
    <2>4. RowsOK'
      BY <1>0, <1>2, <2>2, <2>3, SessionType DEF Register, RowsOK
    <2>5. overtaken' \subseteq Grant \cup {NoGrant}
      BY <1>0, <1>2, OvertakeType DEF Register, HistoryOK
    <2> QED
      BY <1>0, <1>2, <2>1, <2>4, <2>5 DEF Register, grants, GrantsOK, HistoryOK
  <1>3. ASSUME NEW o \in SessionOp, NEW c \in Credential, ReadToken(r, o, c) PROVE TypeOK'
    <2>1. owner[c] \in Person \cup {NoPerson} /\ family[c] \in Credential \cup {NoCredential}
      BY <1>0 DEF RowsOK
    <2>2. RequestOK'
      BY <1>0, <1>3, <2>1, StartType DEF ReadToken
    <2> QED
      BY <1>0, <1>3, <2>1, <2>2
      DEF ReadToken, rows, grants, RowsOK, GrantsOK, HistoryOK
  <1>4. ASSUME NEW c \in Credential, Refresh(r, c) PROVE TypeOK'
    <2>1. RequestOK'
      BY <1>0, <1>4, FinishType DEF Refresh
    <2>2. PICK d \in about[r] : IssueSession(c, owner[d], family[d])
      BY <1>4 DEF Refresh
    <2>3. about[r] \in SUBSET Credential
      BY <1>0 DEF RequestOK
    <2>4. /\ owner[d] \in Person \cup {NoPerson}
          /\ family[d] \in Credential \cup {NoCredential}
      BY <1>0, <2>3 DEF RowsOK
    <2>5. revoked' \subseteq Credential /\ UNCHANGED <<account, taken, expired>>
      BY <1>0, <1>4, <2>3 DEF Refresh, Spent, RowsOK
    <2>6. RowsOK'
      BY <1>0, <2>2, <2>4, <2>5, SessionType DEF RowsOK
    <2> QED
      BY <1>0, <1>4, <2>1, <2>6 DEF Refresh, grants, history, GrantsOK, HistoryOK
  <1>5. CASE Logout(r)
    <2>1. RequestOK'
      BY <1>0, <1>5, FinishType DEF Logout
    <2>2. about[r] \in SUBSET Credential
      BY <1>0 DEF RequestOK
    <2>3. RowsOK'
      BY <1>0, <1>5, <2>2 DEF Logout, Closed, RowsOK
    <2>4. /\ ended' \subseteq Credential \cup {NoCredential}
          /\ outdated' \subseteq Credential \cup {NoCredential}
      BY <1>0, <1>5, <2>2 DEF Logout, RowsOK, HistoryOK
    <2> QED
      BY <1>0, <1>5, <2>1, <2>3, <2>4 DEF Logout, grants, GrantsOK, HistoryOK
  <1>6. ASSUME NEW g \in Grant, Consume(r, g) PROVE TypeOK'
    <2>1. mark[g] \in Nat /\ now + TimeToLive(g) * Second \in Nat
      <3>1. TimeToLive(g) * Second \in Nat
        BY <1>0, ClockType, ProductType, TimeAssumption
      <3> QED
        BY <1>0, <3>1 DEF GrantsOK
    <2>2. GrantsOK'
      <3>1. mark' \in [Grant -> Nat]
        BY <1>0, <1>6, <2>1 DEF Consume, GrantsOK
      <3>2. uses' \in [Grant -> Seq(Nat)]
        <4>1. Append(uses[g], Clock) \in Seq(Nat)
          BY <1>0, ClockType DEF GrantsOK
        <4> QED
          BY <1>0, <1>6, <4>1 DEF Consume, GrantsOK
      <3> QED
        BY <1>0, <1>6, <3>1, <3>2 DEF Consume, GrantsOK
    <2>3. subject[g] \in Person \cup {NoPerson} /\ type[g] \in {"edge", "wyv"}
      BY <1>0, <1>6 DEF Consume, Valid, GrantsOK
    <2>4. RequestOK'
      BY <1>0, <1>6, <2>3 DEF Consume, RequestOK
    <2> QED
      BY <1>0, <1>6, <2>2, <2>4 DEF Consume, rows, history, RowsOK, HistoryOK
  <1>7. CASE Find(r)
    <2>1. RequestOK'
      BY <1>0, <1>7 DEF Find, Known, RequestOK
    <2> QED
      BY <1>0, <1>7, <2>1 DEF Find, rows, grants, history, RowsOK, GrantsOK, HistoryOK
  <1>8. ASSUME NEW c \in Credential, Exchange(r, c) PROVE TypeOK'
    <2>1. RequestOK'
      BY <1>0, <1>8, FinishType DEF Exchange
    <2>2. person[r] \in Person \cup {NoPerson} /\ grant[r] \in Grant \cup {NoGrant}
      BY <1>0 DEF RequestOK
    <2>3. /\ account' \in [Person -> {"none", "local", "synced"}]
          /\ revoked' \subseteq Credential
      <3>1. ASSUME NEW p, p = person[r], NEW v \in {"none", "local", "synced"} \cup {account[p]}
            PROVE  [account EXCEPT ![p] = v] \in [Person -> {"none", "local", "synced"}]
        BY <1>0, <3>1 DEF RowsOK
      <3> QED
        BY <1>0, <1>8 DEF Exchange, RowsOK
    <2>4. RowsOK'
      BY <1>0, <1>8, <2>2, <2>3, SessionType DEF Exchange, RowsOK
    <2>5. overtaken' \subseteq Grant \cup {NoGrant} /\ lost' \subseteq Grant \cup {NoGrant}
      BY <1>0, <1>8, <2>2, OvertakeType DEF Exchange, HistoryOK
    <2> QED
      BY <1>0, <1>8, <2>1, <2>4, <2>5 DEF Exchange, grants, GrantsOK, HistoryOK
  <1>9. CASE AnswerWyv(r)
    <2>1. RequestOK'
      BY <1>0, <1>9, FinishType DEF AnswerWyv
    <2> QED
      BY <1>0, <1>9, <2>1 DEF AnswerWyv, rows, grants, history, RowsOK, GrantsOK, HistoryOK
  <1>10. ASSUME NEW o \in ApiOp, NEW p \in Person, ReadApi(r, o, p) PROVE TypeOK'
    <2>1. PICK C \in Selections(o, p) : Start(r, o, p, C)
      BY <1>10 DEF ReadApi
    <2>2. C \in SUBSET Credential
      BY <2>1 DEF Selections, Tokens
    <2>3. RequestOK'
      BY <1>0, <1>10, <2>1, <2>2, StartType DEF ReadApi
    <2> QED
      BY <1>0, <1>10, <2>3
      DEF ReadApi, Meet, rows, grants, RowsOK, GrantsOK, HistoryOK
  <1>11. CASE Revoke(r)
    <2>1. RequestOK'
      BY <1>0, <1>11, FinishType DEF Revoke
    <2>2. about[r] \in SUBSET Credential
      BY <1>0 DEF RequestOK
    <2>3. person[r] \in Person
      BY <1>11 DEF Revoke, ApiInv, ApiOp
    <2> QED
      BY <1>0, <1>11, <2>1, <2>2, <2>3 DEF Revoke, grants, RowsOK, GrantsOK, HistoryOK
  <1>12. ASSUME NEW S \in SUBSET Credential, Rotate(r, S) PROVE TypeOK'
    <2>1. RequestOK'
      BY <1>0, <1>12, FinishType DEF Rotate
    <2>2. about[r] \in SUBSET Credential /\ person[r] \in Person \cup {NoPerson}
      BY <1>0 DEF RequestOK
    <2>3. revoked' \subseteq Credential
      BY <1>0, <1>12, <2>2 DEF Rotate, RowsOK
    <2>4. RowsOK'
      BY <1>0, <1>12, <2>2, <2>3, ApiType DEF Rotate
    <2> QED
      BY <1>0, <1>12, <2>1, <2>4 DEF Rotate, grants, GrantsOK, HistoryOK
  <1>13. CASE Fail(r)
    <2>1. RequestOK'
      BY <1>0, <1>13, FinishType DEF Fail
    <2> QED
      BY <1>0, <1>13, <2>1 DEF Fail, rows, grants, RowsOK, GrantsOK, HistoryOK
  <1>14. ASSUME NEW c \in Credential, LogoutSpent(r, c) PROVE TypeOK'
    <2>1. RequestOK'
      BY <1>0, <1>14, FinishType DEF LogoutSpent
    <2>2. family[c] \in Credential \cup {NoCredential}
      BY <1>0 DEF RowsOK
    <2> QED
      BY <1>0, <1>14, <2>1, <2>2 DEF LogoutSpent, rows, grants, RowsOK, GrantsOK, HistoryOK
  <1> QED
    BY <1>1, <1>2, <1>3, <1>4, <1>5, <1>6, <1>7, <1>8, <1>9, <1>10, <1>11, <1>12, <1>13, <1>14
    DEF RequestStep

LEMMA TypeStep ==
  ASSUME TypeOK, ApiInv, [Next]_vars
  PROVE  TypeOK'
  <1> USE TypeParts
  <1>0. RowsOK /\ GrantsOK /\ RequestOK /\ HistoryOK
    OBVIOUS
  <1>1. ASSUME NEW p \in Person, NEW c \in Credential, Login(p, c) PROVE TypeOK'
    <2>1. RowsOK'
      BY <1>0, <1>1, SessionType DEF Login, RowsOK
    <2> QED
      BY <1>0, <1>1, <2>1
      DEF Login, grants, request, history, GrantsOK, RequestOK, HistoryOK
  <1>2. ASSUME NEW p \in Person, NEW c \in Credential, CreateToken(p, c) PROVE TypeOK'
    <2>1. RowsOK'
      BY <1>0, <1>2, ApiType DEF CreateToken, RowsOK
    <2> QED
      BY <1>0, <1>2, <2>1
      DEF CreateToken, Meet, grants, request, GrantsOK, RequestOK, HistoryOK
  <1>3. ASSUME NEW p \in Person, Replicate(p) PROVE TypeOK'
    <2>1. overtaken' \subseteq Grant \cup {NoGrant}
      BY <1>0, <1>3, OvertakeType DEF Replicate
    <2> QED
      BY <1>0, <1>3, <2>1
      DEF Replicate, grants, request, RowsOK, GrantsOK, RequestOK, HistoryOK
  <1>4. ASSUME NEW c \in Credential, Expire(c) PROVE TypeOK'
    BY <1>0, <1>4
    DEF Expire, grants, request, history, RowsOK, GrantsOK, RequestOK, HistoryOK
  <1>5. ASSUME NEW g \in Grant, NEW t \in {"edge", "wyv"}, NEW p \in Person,
               CreateGrant(g, t, p)
        PROVE  TypeOK'
    <2>1. Expiry \in Nat
      BY <1>0, ClockType, TimeAssumption DEF Expiry
    <2>2. GrantsOK'
      BY <1>0, <1>5, <2>1 DEF CreateGrant, GrantsOK
    <2> QED
      BY <1>0, <1>5, <2>2
      DEF CreateGrant, rows, request, history, RowsOK, RequestOK, HistoryOK
  <1>6. CASE Tick
    BY <1>0, <1>6
    DEF Tick, rows, grants, request, history, RowsOK, GrantsOK, RequestOK, HistoryOK
  <1>7. CASE UNCHANGED vars
    BY <1>0, <1>7
    DEF vars, rows, grants, request, history, RowsOK, GrantsOK, RequestOK, HistoryOK
  <1> QED
    BY <1>1, <1>2, <1>3, <1>4, <1>5, <1>6, <1>7, TypeRequestStep DEF Next

-----------------------------------------------------------------------------
(* Sessions.                                                                *)

SessionSafe == FamilyInv /\ SessionInv /\ SessionsDoNotFork /\ LogoutEndsSession

(* Requests begin none but what is not about sessions.                      *)
NoneBegins == \A r \in Request :
                op'[r] \in SessionOp => op[r] \in SessionOp /\ about'[r] = about[r]

LEMMA SessionsKept ==
  ASSUME TypeOK, SessionSafe, NoneBegins,
         \A c \in Credential : kind'[c] = "session" <=> kind[c] = "session",
         \A c \in Credential : kind[c] = "session" =>
            kind'[c] = kind[c] /\ (c \in revoked' <=> c \in revoked),
         UNCHANGED <<family, raced, ended, outdated>>
  PROVE  SessionSafe'
  <1> USE DEF SessionSafe, Session, Live
  <1>1. FamilyInv'
    BY DEF FamilyInv, TypeOK
  <1>2. SessionInv'
    <2>1. ASSUME NEW r \in Request, op'[r] \in SessionOp
          PROVE  \E d \in Credential : /\ about'[r] = {d} /\ kind'[d] = "session"
                                       /\ family'[d] \in raced' \/ d \notin revoked'
      BY <2>1 DEF SessionInv, NoneBegins
    <2>2. ASSUME NEW q \in Request, NEW r \in Request, NEW c \in about'[q], NEW d \in about'[r],
                 q # r, op'[q] \in SessionOp, op'[r] \in SessionOp, family'[c] = family'[d]
          PROVE  family'[c] \in raced'
      BY <2>2 DEF SessionInv, NoneBegins
    <2> QED
      BY <2>1, <2>2 DEF SessionInv
  <1>3. SessionsDoNotFork'
    BY DEF SessionsDoNotFork
  <1>4. LogoutEndsSession'
    BY DEF LogoutEndsSession
  <1> QED
    BY <1>1, <1>2, <1>3, <1>4

LEMMA SessionBegins ==
  ASSUME TypeOK, SessionSafe, NoneBegins,
         NEW c \in Credential, NEW p, IssueSession(c, p, c),
         UNCHANGED <<revoked, raced, ended, outdated>>
  PROVE  SessionSafe'
  <1> USE DEF SessionSafe, Session, Live
  <1>1. /\ kind[c] = "none" /\ kind'[c] = "session" /\ family'[c] = c
        /\ \A d \in Credential \ {c} : kind'[d] = kind[d] /\ family'[d] = family[d]
    BY DEF IssueSession, Fresh, TypeOK
  <1>2. FamilyInv'
    <2>1. ASSUME NEW d \in Credential, kind'[d] = "session"
          PROVE  family'[d] \in Credential /\ kind'[family'[d]] = "session"
      <3>1. CASE d = c
        BY <1>1, <3>1
      <3>2. CASE d # c
        <4>1. kind[d] = "session" /\ family'[d] = family[d]
          BY <1>1, <2>1, <3>2
        <4>2. family[d] \in Credential /\ kind[family[d]] = "session"
          BY <4>1 DEF FamilyInv
        <4> QED
          BY <1>1, <4>1, <4>2
      <3> QED
        BY <3>1, <3>2
    <2>2. \A d \in ended' : d \in Credential /\ kind'[d] = "session"
      BY <1>1 DEF FamilyInv
    <2> QED
      BY <2>1, <2>2 DEF FamilyInv
  <1>3. SessionInv'
    <2>1. ASSUME NEW r \in Request, op'[r] \in SessionOp
          PROVE  \E d \in Credential : /\ about'[r] = {d} /\ kind'[d] = "session"
                                       /\ family'[d] \in raced' \/ d \notin revoked'
      BY <1>1, <2>1 DEF SessionInv, NoneBegins
    <2>2. ASSUME NEW q \in Request, NEW r \in Request, NEW x \in about'[q], NEW y \in about'[r],
                 q # r, op'[q] \in SessionOp, op'[r] \in SessionOp, family'[x] = family'[y]
          PROVE  family'[x] \in raced'
      <3>1. x \in Credential \ {c} /\ y \in Credential \ {c}
        BY <1>1, <2>2 DEF SessionInv, NoneBegins
      <3> QED
        BY <1>1, <2>2, <3>1 DEF SessionInv, NoneBegins
    <2> QED
      BY <2>1, <2>2 DEF SessionInv
  <1>4. SessionsDoNotFork'
    BY <1>1 DEF SessionsDoNotFork, FamilyInv
  <1>5. LogoutEndsSession'
    BY <1>1 DEF LogoutEndsSession, FamilyInv
  <1> QED
    BY <1>2, <1>3, <1>4, <1>5

LEMMA SessionIsRead ==
  ASSUME TypeOK, SessionSafe, NEW r \in Request, NEW o \in SessionOp, NEW c \in Credential,
         ReadToken(r, o, c)
  PROVE  SessionSafe'
  <1> USE DEF SessionSafe, Session, Live
  <1>1. /\ UNCHANGED <<kind, family, revoked, ended, outdated>> /\ raced \subseteq raced'
        /\ kind[c] = "session" /\ c \notin revoked
        /\ op'[r] = o /\ about'[r] = {c}
        /\ \A q \in Request \ {r} : op'[q] = op[q] /\ about'[q] = about[q]
    BY DEF ReadToken, Usable, Start, rows, TypeOK
  <1>2. FamilyInv'
    BY <1>1 DEF FamilyInv
  <1>3. SessionInv'
    <2>1. ASSUME NEW q \in Request, op'[q] \in SessionOp
          PROVE  \E d \in Credential : /\ about'[q] = {d} /\ kind'[d] = "session"
                                       /\ family'[d] \in raced' \/ d \notin revoked'
      BY <1>1, <2>1 DEF SessionInv
    <2>2. ASSUME NEW q \in Request \ {r}, NEW x \in about'[q],
                 op'[q] \in SessionOp, family'[x] = family'[c]
          PROVE  family'[c] \in raced'
      BY <1>1, <2>2 DEF ReadToken, Busy
    <2>3. ASSUME NEW p \in Request, NEW q \in Request, NEW x \in about'[p], NEW y \in about'[q],
                 p # q, op'[p] \in SessionOp, op'[q] \in SessionOp, family'[x] = family'[y]
          PROVE  family'[x] \in raced'
      <3>1. CASE p = r
        BY <1>1, <2>2, <2>3, <3>1
      <3>2. CASE q = r
        BY <1>1, <2>2, <2>3, <3>2
      <3>3. CASE p # r /\ q # r
        BY <1>1, <2>3, <3>3 DEF SessionInv
      <3> QED
        BY <3>1, <3>2, <3>3
    <2> QED
      BY <2>1, <2>3 DEF SessionInv
  <1>4. SessionsDoNotFork' /\ LogoutEndsSession'
    BY <1>1 DEF SessionsDoNotFork, LogoutEndsSession
  <1> QED
    BY <1>2, <1>3, <1>4

LEMMA SessionIsRefreshed ==
  ASSUME TypeOK, SessionSafe, NEW r \in Request, NEW c \in Credential, Refresh(r, c)
  PROVE  SessionSafe'
  <1> USE DEF SessionSafe, Session, Live
  <1>1. PICK d \in Credential : /\ about[r] = {d} /\ kind[d] = "session"
                                /\ family[d] \in raced \/ d \notin revoked
    BY DEF Refresh, SessionInv, SessionOp
  <1>2. /\ IssueSession(c, owner[d], family[d]) /\ revoked' = revoked \cup {d}
        /\ UNCHANGED <<raced, ended, outdated>>
        /\ op' = [op EXCEPT ![r] = "none"] /\ about' = [about EXCEPT ![r] = {}]
    BY <1>1 DEF Refresh, Spent, Finish, history
  <1>3. /\ kind[c] = "none" /\ kind'[c] = "session" /\ family'[c] = family[d] /\ c # d
        /\ \A x \in Credential \ {c} : kind'[x] = kind[x] /\ family'[x] = family[x]
    BY <1>1, <1>2 DEF IssueSession, Fresh, TypeOK
  <1>4. /\ op'[r] = "none" /\ op[r] \in SessionOp
        /\ \A q \in Request \ {r} : op'[q] = op[q] /\ about'[q] = about[q]
    BY <1>2 DEF Refresh, SessionOp, TypeOK
  <1>5. FamilyInv'
    <2>1. family[d] \in Credential \ {c} /\ kind[family[d]] = "session"
      BY <1>1, <1>3 DEF FamilyInv
    <2>2. ASSUME NEW x \in Credential, kind'[x] = "session"
          PROVE  family'[x] \in Credential /\ kind'[family'[x]] = "session"
      BY <1>3, <2>1, <2>2 DEF FamilyInv
    <2>3. ASSUME NEW x \in ended'
          PROVE  x \in Credential /\ kind'[x] = "session"
      BY <1>2, <1>3, <2>3 DEF FamilyInv
    <2> QED
      BY <2>2, <2>3 DEF FamilyInv
  <1>6. ASSUME NEW q \in Request, op'[q] \in SessionOp
        PROVE  /\ q # r /\ op[q] \in SessionOp
               /\ \E x \in Credential :
                    /\ about[q] = {x} /\ about'[q] = {x} /\ kind[x] = "session" /\ x # c
                    /\ family[x] \in raced \/ x \notin revoked'
    <2>1. q # r /\ op[q] \in SessionOp
      BY <1>4, <1>6 DEF SessionOp
    <2>2. PICK x \in Credential : /\ about[q] = {x} /\ kind[x] = "session"
                                  /\ family[x] \in raced \/ x \notin revoked
      BY <2>1 DEF SessionInv
    <2>3. family[x] = family[d] => family[x] \in raced
      BY <1>1, <1>4, <2>1, <2>2 DEF SessionInv
    <2> QED
      BY <1>2, <1>3, <1>4, <2>1, <2>2, <2>3
  <1>7. SessionInv'
    <2>1. ASSUME NEW q \in Request, op'[q] \in SessionOp
          PROVE  \E x \in Credential : /\ about'[q] = {x} /\ kind'[x] = "session"
                                       /\ family'[x] \in raced' \/ x \notin revoked'
      BY <1>2, <1>3, <1>6, <2>1
    <2>2. ASSUME NEW p \in Request, NEW q \in Request, NEW x \in about'[p], NEW y \in about'[q],
                 p # q, op'[p] \in SessionOp, op'[q] \in SessionOp, family'[x] = family'[y]
          PROVE  family'[x] \in raced'
      <3>1. /\ op[p] \in SessionOp /\ x \in about[p] /\ x \in Credential \ {c}
            /\ op[q] \in SessionOp /\ y \in about[q] /\ y \in Credential \ {c}
        BY <1>6, <2>2
      <3> QED
        BY <1>2, <1>3, <2>2, <3>1 DEF SessionInv
    <2> QED
      BY <2>1, <2>2 DEF SessionInv
  <1>8. SessionsDoNotFork'
    <2>1. ASSUME NEW x \in Credential, NEW y \in Credential, x # c, y # c,
                 kind'[x] = "session", kind'[y] = "session", x \notin revoked', y \notin revoked',
                 family'[x] = family'[y], family'[x] \notin raced'
          PROVE  x = y
      BY <1>2, <1>3, <2>1 DEF SessionsDoNotFork
    <2>2. ASSUME NEW x \in Credential, x # c, kind'[x] = "session", x \notin revoked',
                 family'[x] = family'[c], family'[x] \notin raced'
          PROVE  FALSE
      <3>1. family[x] = family[d] /\ family[d] \notin raced
        BY <1>2, <1>3, <2>2
      <3>2. x = d
        BY <1>1, <1>2, <1>3, <2>2, <3>1 DEF SessionsDoNotFork
      <3> QED
        BY <1>2, <2>2, <3>2
    <2> QED
      BY <2>1, <2>2 DEF SessionsDoNotFork
  <1>9. LogoutEndsSession'
    BY <1>1, <1>2, <1>3 DEF LogoutEndsSession
  <1> QED
    BY <1>5, <1>7, <1>8, <1>9

LEMMA SessionIsEnded ==
  ASSUME TypeOK, SessionSafe, NEW r \in Request, Logout(r)
  PROVE  SessionSafe'
  <1> USE DEF SessionSafe, Session, Live
  <1>1. PICK d \in Credential : /\ about[r] = {d} /\ kind[d] = "session"
                                /\ family[d] \in raced \/ d \notin revoked
    BY DEF Logout, SessionInv, SessionOp
  <1>2. /\ revoked' = revoked \cup {d} /\ ended' = ended \cup {family[d]}
        /\ outdated' = outdated \ {family[d]}
        /\ UNCHANGED <<kind, family, raced>>
        /\ op' = [op EXCEPT ![r] = "none"] /\ about' = [about EXCEPT ![r] = {}]
    BY <1>1 DEF Logout, Closed, Finish
  <1>3. /\ op'[r] = "none" /\ op[r] \in SessionOp
        /\ \A q \in Request \ {r} : op'[q] = op[q] /\ about'[q] = about[q]
    BY <1>2 DEF Logout, SessionOp, TypeOK
  <1>4. FamilyInv'
    BY <1>1, <1>2 DEF FamilyInv
  <1>5. SessionInv'
    <2>1. ASSUME NEW q \in Request, op'[q] \in SessionOp
          PROVE  \E x \in Credential : /\ about'[q] = {x} /\ kind'[x] = "session"
                                       /\ family'[x] \in raced' \/ x \notin revoked'
      <3>1. q # r /\ op[q] \in SessionOp
        BY <1>3, <2>1 DEF SessionOp
      <3>2. PICK x \in Credential : /\ about[q] = {x} /\ kind[x] = "session"
                                    /\ family[x] \in raced \/ x \notin revoked
        BY <3>1 DEF SessionInv
      <3>3. family[x] = family[d] => family[x] \in raced
        BY <1>1, <1>3, <3>1, <3>2 DEF SessionInv
      <3> QED
        BY <1>2, <1>3, <3>1, <3>2, <3>3
    <2>2. ASSUME NEW p \in Request, NEW q \in Request, NEW x \in about'[p], NEW y \in about'[q],
                 p # q, op'[p] \in SessionOp, op'[q] \in SessionOp, family'[x] = family'[y]
          PROVE  family'[x] \in raced'
      <3>1. p # r /\ q # r
        BY <1>3, <2>2 DEF SessionOp
      <3> QED
        BY <1>2, <1>3, <2>2, <3>1 DEF SessionInv
    <2> QED
      BY <2>1, <2>2 DEF SessionInv
  <1>6. SessionsDoNotFork'
    BY <1>2 DEF SessionsDoNotFork
  <1>7. LogoutEndsSession'
    <2>1. ASSUME NEW c \in Credential, kind[c] = "session", c \notin revoked',
                 family[c] = family[d], family[c] \notin raced
          PROVE  FALSE
      BY <1>1, <1>2, <2>1 DEF SessionsDoNotFork
    <2> QED
      BY <1>2, <2>1 DEF LogoutEndsSession
  <1> QED
    BY <1>4, <1>5, <1>6, <1>7

LEMMA SessionIsLeft ==
  ASSUME TypeOK, SessionSafe, NEW r \in Request, NEW c \in Credential, LogoutSpent(r, c)
  PROVE  SessionSafe'
  <1> USE DEF SessionSafe, Session, Live
  <1>1. /\ UNCHANGED <<kind, family, revoked, raced>> /\ kind[c] = "session"
        /\ ended' = ended \cup {family[c]} /\ outdated' = outdated \cup {family[c]}
    BY DEF LogoutSpent, rows
  <1>2. /\ op'[r] = "none"
        /\ \A q \in Request \ {r} : op'[q] = op[q] /\ about'[q] = about[q]
    BY DEF LogoutSpent, Finish, TypeOK
  <1>3. FamilyInv'
    BY <1>1 DEF FamilyInv
  <1>4. ASSUME NEW q \in Request, op'[q] \in SessionOp
        PROVE  op[q] \in SessionOp /\ about'[q] = about[q]
    BY <1>2, <1>4 DEF SessionOp
  <1>5. SessionInv'
    BY <1>1, <1>4 DEF SessionInv
  <1>6. SessionsDoNotFork'
    BY <1>1 DEF SessionsDoNotFork
  <1>7. LogoutEndsSession'
    BY <1>1 DEF LogoutEndsSession
  <1> QED
    BY <1>3, <1>5, <1>6, <1>7

-----------------------------------------------------------------------------
(* API tokens.                                                              *)

ApiSafe == ApiInv /\ SweptInv /\ RevokeAllLeavesNone

(* Requests begin none but what is not about API tokens, and the rest of    *)
(* the requests about them go on as they are.                               *)
NoneCalls ==
  /\ \A r \in Request : op'[r] \in ApiOp =>
       /\ op'[r] = op[r] /\ stage'[r] = stage[r]
       /\ person'[r] = person[r] /\ about'[r] = about[r]
  /\ \A r \in alone' : r \in alone /\ op'[r] = op[r]

LEMMA TokensKept ==
  ASSUME TypeOK, ApiSafe, NoneCalls,
         \A c \in Credential : kind'[c] = "api" <=> kind[c] = "api",
         \A c \in Credential : kind[c] = "api" =>
            owner'[c] = owner[c] /\ (c \in revoked' <=> c \in revoked),
         UNCHANGED swept
  PROVE  ApiSafe'
  <1> USE DEF ApiSafe, Api, Live
  <1>0. \A r \in alone' : r \in Request /\ r \in alone /\ op'[r] = op[r] /\ op[r] \in ApiOp
                          /\ person'[r] = person[r] /\ about'[r] = about[r]
    BY DEF NoneCalls, ApiInv, TypeOK
  <1>1. ApiInv'
    <2>1. ASSUME NEW r \in Request, op'[r] \in ApiOp
          PROVE  /\ stage'[r] = "read" /\ person'[r] \in Person
                 /\ \A c \in about'[r] : kind'[c] = "api" /\ owner'[c] = person'[r]
      BY <2>1 DEF NoneCalls, ApiInv, TypeOK
    <2>2. ASSUME NEW r \in alone', NEW q \in Request, q # r, op'[q] \in ApiOp
          PROVE  op'[r] \in ApiOp /\ person'[q] # person'[r]
      BY <1>0, <2>2 DEF NoneCalls, ApiInv
    <2>3. \A r \in alone' : op'[r] \in ApiOp
      BY <1>0
    <2> QED
      BY <2>1, <2>2, <2>3 DEF ApiInv
  <1>2. SweptInv'
    <2>1. ASSUME NEW r \in Request, op'[r] \in {"rotate", "rotateAll"}
          PROVE  person'[r] \notin swept'
      BY <2>1 DEF NoneCalls, SweptInv, ApiOp
    <2>2. ASSUME NEW r \in alone', op'[r] = "revokeAll", NEW c \in Credential,
                 kind'[c] = "api", c \notin revoked', owner'[c] = person'[r]
          PROVE  c \in about'[r]
      BY <1>0, <2>2 DEF SweptInv
    <2> QED
      BY <2>1, <2>2 DEF SweptInv
  <1>3. RevokeAllLeavesNone'
    BY DEF RevokeAllLeavesNone
  <1> QED
    BY <1>1, <1>2, <1>3

LEMMA TokenIsCreated ==
  ASSUME TypeOK, ApiSafe, NEW p \in Person, NEW c \in Credential, CreateToken(p, c)
  PROVE  ApiSafe'
  <1> USE DEF ApiSafe, Api, Live
  <1>1. /\ kind[c] = "none" /\ kind'[c] = "api" /\ owner'[c] = p
        /\ \A x \in Credential \ {c} : kind'[x] = kind[x] /\ owner'[x] = owner[x]
        /\ UNCHANGED <<op, person, about, stage, revoked>> /\ swept' = swept \ {p}
        /\ \A r \in alone' : r \in alone /\ r \in Request /\ op[r] \in ApiOp /\ person[r] # p
    BY DEF CreateToken, IssueApi, Fresh, Meet, InFlight, request, ApiInv, TypeOK
  <1>2. ApiInv'
    <2>1. ASSUME NEW r \in Request, op'[r] \in ApiOp
          PROVE  /\ stage'[r] = "read" /\ person'[r] \in Person
                 /\ \A x \in about'[r] : kind'[x] = "api" /\ owner'[x] = person'[r]
      BY <1>1, <2>1 DEF ApiInv, TypeOK
    <2>2. \A r \in alone' : op'[r] \in ApiOp
      BY <1>1
    <2>3. ASSUME NEW r \in alone', NEW q \in Request, q # r, op'[q] \in ApiOp
          PROVE  person'[q] # person'[r]
      BY <1>1, <2>3 DEF ApiInv
    <2> QED
      BY <2>1, <2>2, <2>3 DEF ApiInv
  <1>3. SweptInv'
    BY <1>1 DEF SweptInv
  <1>4. RevokeAllLeavesNone'
    BY <1>1 DEF RevokeAllLeavesNone
  <1> QED
    BY <1>2, <1>3, <1>4

LEMMA TokensAreRead ==
  ASSUME TypeOK, ApiSafe, NEW r \in Request, NEW o \in ApiOp, NEW p \in Person,
         ReadApi(r, o, p)
  PROVE  ApiSafe'
  <1> USE DEF ApiSafe, Api, Live
  <1>1. PICK C \in Selections(o, p) : Start(r, o, p, C)
    BY DEF ReadApi
  <1>2. /\ \A c \in C : kind[c] = "api" /\ owner[c] = p
        /\ o = "revokeAll" => C = Tokens(p)
    BY DEF Selections, Tokens
  <1>3. /\ UNCHANGED <<kind, owner, revoked>>
        /\ op'[r] = o /\ person'[r] = p /\ about'[r] = C /\ stage'[r] = "read"
        /\ \A q \in Request \ {r} : /\ op'[q] = op[q] /\ person'[q] = person[q]
                                    /\ about'[q] = about[q] /\ stage'[q] = stage[q]
        /\ swept' \subseteq swept
        /\ o \in {"rotate", "rotateAll"} => p \notin swept'
    BY <1>1 DEF ReadApi, Start, rows, TypeOK
  <1>4. op[r] \notin ApiOp
    BY <1>1 DEF Start, ApiInv
  <1>5. \A q \in alone' :
          \/ q = r /\ \A x \in Request : op[x] \in ApiOp => person[x] # p
          \/ q # r /\ q \in alone /\ q \in Request /\ op[q] \in ApiOp /\ person[q] # p
    BY <1>4 DEF ReadApi, Meet, InFlight, ApiInv, TypeOK
  <1>6. ApiInv'
    <2>1. ASSUME NEW q \in Request, op'[q] \in ApiOp
          PROVE  /\ stage'[q] = "read" /\ person'[q] \in Person
                 /\ \A x \in about'[q] : kind'[x] = "api" /\ owner'[x] = person'[q]
      BY <1>2, <1>3, <2>1 DEF ApiInv
    <2>2. \A q \in alone' : op'[q] \in ApiOp
      BY <1>3, <1>5
    <2>3. ASSUME NEW q \in alone', NEW x \in Request, x # q, op'[x] \in ApiOp
          PROVE  person'[x] # person'[q]
      <3>1. CASE q = r
        BY <1>3, <1>4, <1>5, <2>3, <3>1
      <3>2. CASE q # r /\ x = r
        BY <1>3, <1>5, <2>3, <3>2
      <3>3. CASE q # r /\ x # r
        BY <1>3, <1>5, <2>3, <3>3 DEF ApiInv
      <3> QED
        BY <3>1, <3>2, <3>3
    <2> QED
      BY <2>1, <2>2, <2>3 DEF ApiInv
  <1>7. SweptInv'
    <2>1. ASSUME NEW q \in Request, op'[q] \in {"rotate", "rotateAll"}
          PROVE  person'[q] \notin swept'
      BY <1>3, <2>1 DEF SweptInv
    <2>2. ASSUME NEW q \in alone', op'[q] = "revokeAll", NEW c \in Credential,
                 kind'[c] = "api", c \notin revoked', owner'[c] = person'[q]
          PROVE  c \in about'[q]
      BY <1>2, <1>3, <1>5, <2>2 DEF SweptInv, Tokens
    <2> QED
      BY <2>1, <2>2 DEF SweptInv
  <1>8. RevokeAllLeavesNone'
    BY <1>3 DEF RevokeAllLeavesNone
  <1> QED
    BY <1>6, <1>7, <1>8

(* A request about API tokens ends.                                         *)
LEMMA CallEnds ==
  ASSUME TypeOK, ApiSafe, NEW r \in Request, op[r] \in ApiOp, Finish(r), alone' = alone \ {r}
  PROVE  /\ \A q \in Request : op'[q] \in ApiOp =>
              /\ q # r /\ op'[q] = op[q] /\ stage'[q] = stage[q]
              /\ person'[q] = person[q] /\ about'[q] = about[q]
         /\ \A q \in alone' : /\ q \in alone /\ q # r /\ q \in Request /\ op[q] \in ApiOp
                              /\ op'[q] = op[q] /\ person'[q] = person[q]
                              /\ about'[q] = about[q] /\ person[q] # person[r]
  BY DEF ApiSafe, Finish, ApiInv, ApiOp, TypeOK

LEMMA TokensAreRevoked ==
  ASSUME TypeOK, ApiSafe, NEW r \in Request, Revoke(r)
  PROVE  ApiSafe'
  <1> USE DEF ApiSafe, Api, Live
  <1>1. /\ op[r] \in ApiOp /\ Finish(r) /\ alone' = alone \ {r}
        /\ UNCHANGED <<kind, owner>> /\ revoked' = revoked \cup about[r]
    BY DEF Revoke, ApiOp
  <1>2. swept' \subseteq swept \cup {person[r]}
        /\ (swept' # swept => r \in alone /\ op[r] = "revokeAll")
    BY DEF Revoke
  <1>3. ApiInv'
    <2>1. ASSUME NEW q \in Request, op'[q] \in ApiOp
          PROVE  /\ stage'[q] = "read" /\ person'[q] \in Person
                 /\ \A x \in about'[q] : kind'[x] = "api" /\ owner'[x] = person'[q]
      BY <1>1, <2>1, CallEnds DEF ApiInv
    <2>2. \A q \in alone' : op'[q] \in ApiOp
      BY <1>1, CallEnds
    <2>3. ASSUME NEW q \in alone', NEW x \in Request, x # q, op'[x] \in ApiOp
          PROVE  person'[x] # person'[q]
      BY <1>1, <2>3, CallEnds DEF ApiInv
    <2> QED
      BY <2>1, <2>2, <2>3 DEF ApiInv
  <1>4. SweptInv'
    <2>1. ASSUME NEW q \in Request, op'[q] \in {"rotate", "rotateAll"}
          PROVE  person'[q] \notin swept'
      <3>1. /\ q # r /\ op[q] \in ApiOp /\ op[q] = op'[q] /\ person'[q] = person[q]
            /\ person[q] \notin swept
        BY <1>1, <2>1, CallEnds DEF SweptInv, ApiOp
      <3>2. r \in alone => person[q] # person[r]
        BY <3>1 DEF ApiInv
      <3> QED
        BY <1>2, <3>1, <3>2
    <2>2. ASSUME NEW q \in alone', op'[q] = "revokeAll", NEW c \in Credential,
                 kind'[c] = "api", c \notin revoked', owner'[c] = person'[q]
          PROVE  c \in about'[q]
      BY <1>1, <2>2, CallEnds DEF SweptInv
    <2> QED
      BY <2>1, <2>2 DEF SweptInv
  <1>5. RevokeAllLeavesNone'
    <2>1. ASSUME NEW c \in Credential, kind'[c] = "api", c \notin revoked', owner'[c] \in swept'
          PROVE  FALSE
      <3>1. kind[c] = "api" /\ c \notin revoked /\ c \notin about[r] /\ owner[c] = owner'[c]
        BY <1>1, <2>1
      <3>2. CASE swept' = swept
        BY <2>1, <3>1, <3>2 DEF RevokeAllLeavesNone
      <3>3. CASE swept' # swept
        <4>1. owner[c] = person[r] => c \in about[r]
          BY <1>2, <3>1, <3>3 DEF SweptInv
        <4> QED
          BY <1>2, <2>1, <3>1, <4>1 DEF RevokeAllLeavesNone
      <3> QED
        BY <3>2, <3>3
    <2> QED
      BY <2>1 DEF RevokeAllLeavesNone
  <1> QED
    BY <1>3, <1>4, <1>5

LEMMA TokensAreRotated ==
  ASSUME TypeOK, ApiSafe, NEW r \in Request, NEW S \in SUBSET Credential, Rotate(r, S)
  PROVE  ApiSafe'
  <1> USE DEF ApiSafe, Api, Live
  <1>1. /\ op[r] \in {"rotate", "rotateAll"} /\ op[r] \in ApiOp
        /\ Finish(r) /\ alone' = alone \ {r}
        /\ revoked' = revoked \cup about[r] /\ UNCHANGED swept
        /\ person[r] \notin swept
    BY DEF Rotate, ApiOp, SweptInv
  <1>2. /\ \A c \in S : kind[c] = "none" /\ kind'[c] = "api" /\ owner'[c] = person[r]
        /\ \A c \in Credential \ S : kind'[c] = kind[c] /\ owner'[c] = owner[c]
    BY DEF Rotate, IssueApi, Fresh
  <1>3. ApiInv'
    <2>1. ASSUME NEW q \in Request, op'[q] \in ApiOp
          PROVE  /\ stage'[q] = "read" /\ person'[q] \in Person
                 /\ \A x \in about'[q] : kind'[x] = "api" /\ owner'[x] = person'[q]
      <3>1. /\ q # r /\ op[q] \in ApiOp /\ stage'[q] = stage[q]
            /\ person'[q] = person[q] /\ about'[q] = about[q]
        BY <1>1, <2>1, CallEnds
      <3>2. \A x \in about[q] : x \in Credential /\ kind[x] = "api" /\ owner[x] = person[q]
        BY <3>1 DEF ApiInv, TypeOK
      <3> QED
        BY <1>2, <3>1, <3>2 DEF ApiInv
    <2>2. \A q \in alone' : op'[q] \in ApiOp
      BY <1>1, CallEnds
    <2>3. ASSUME NEW q \in alone', NEW x \in Request, x # q, op'[x] \in ApiOp
          PROVE  person'[x] # person'[q]
      BY <1>1, <2>3, CallEnds DEF ApiInv
    <2> QED
      BY <2>1, <2>2, <2>3 DEF ApiInv
  <1>4. SweptInv'
    <2>1. ASSUME NEW q \in Request, op'[q] \in {"rotate", "rotateAll"}
          PROVE  person'[q] \notin swept'
      BY <1>1, <2>1, CallEnds DEF SweptInv, ApiOp
    <2>2. ASSUME NEW q \in alone', op'[q] = "revokeAll", NEW c \in Credential,
                 kind'[c] = "api", c \notin revoked', owner'[c] = person'[q]
          PROVE  c \in about'[q]
      <3>1. /\ q \in alone /\ op[q] = "revokeAll" /\ person'[q] = person[q]
            /\ about'[q] = about[q] /\ person[q] # person[r]
        BY <1>1, <2>2, CallEnds
      <3>2. c \notin S
        BY <1>2, <2>2, <3>1
      <3> QED
        BY <1>1, <1>2, <2>2, <3>1, <3>2 DEF SweptInv
    <2> QED
      BY <2>1, <2>2 DEF SweptInv
  <1>5. RevokeAllLeavesNone'
    BY <1>1, <1>2 DEF RevokeAllLeavesNone
  <1> QED
    BY <1>3, <1>4, <1>5

-----------------------------------------------------------------------------
(* Hand-off grants.                                                         *)

GrantSafe == GrantInv /\ FoundInv /\ LostGrantsWereContested

(* No request comes to an exchange or goes on in it.                        *)
NoneExchanges == \A r \in Request : stage'[r] \in {"used", "found"} =>
  /\ stage'[r] = stage[r] /\ op'[r] = op[r] /\ person'[r] = person[r]
  /\ grant'[r] = grant[r] /\ found'[r] = found[r]

(* Where an account appears, the exchanges that found none are overtaken.   *)
Overtaking ==
  /\ overtaken \subseteq overtaken'
  /\ \A r \in Request :
       /\ stage'[r] = "found" /\ stage[r] = "found" /\ ~found[r]
       /\ account[person[r]] = "none"
       => account'[person[r]] = "none" \/ grant[r] \in overtaken'

LEMMA GrantsKept ==
  ASSUME TypeOK, GrantSafe, NoneExchanges, Overtaking,
         \A g \in Grant : type[g] # "none" => type'[g] = type[g] /\ subject'[g] = subject[g],
         \A g \in Grant : type'[g] # "none" => subject'[g] \in Person,
         UNCHANGED <<lost, taken>>
  PROVE  GrantSafe'
  <1> USE DEF GrantSafe
  <1>1. GrantInv'
    <2>1. ASSUME NEW r \in Request, stage'[r] \in {"used", "found"}
          PROVE  /\ grant'[r] \in Grant /\ type'[grant'[r]] # "none"
                 /\ person'[r] = subject'[grant'[r]]
                 /\ stage'[r] = "found" => op'[r] = "edge"
      BY <2>1 DEF NoneExchanges, GrantInv
    <2>2. \A g \in lost' : g \in Grant /\ type'[g] # "none"
      BY DEF GrantInv
    <2> QED
      BY <2>1, <2>2 DEF GrantInv
  <1>2. FoundInv'
    BY DEF FoundInv, NoneExchanges, Overtaking
  <1>3. LostGrantsWereContested'
    BY DEF LostGrantsWereContested, GrantInv, Overtaking
  <1> QED
    BY <1>1, <1>2, <1>3

(* p's account is inserted, by a request that is at its end if it is one.   *)
LEMMA AccountAppears ==
  ASSUME TypeOK, GrantSafe, NEW p \in Person \cup {NoPerson}, NEW R \in SUBSET Request,
         NEW v, account' = [account EXCEPT ![p] = v], Overtake(p, R),
         \A r \in Request \ R : stage'[r] # "found"
  PROVE  Overtaking
  <1>1. overtaken \subseteq overtaken'
    BY DEF Overtake
  <1>2. ASSUME NEW r \in Request, stage'[r] = "found", stage[r] = "found", ~found[r],
               account[person[r]] = "none"
        PROVE  account'[person[r]] = "none" \/ grant[r] \in overtaken'
    <2>1. person[r] \in Person /\ op[r] = "edge" /\ r \in R
      BY <1>2 DEF GrantSafe, GrantInv
    <2>2. CASE person[r] = p
      BY <1>2, <2>1, <2>2 DEF Overtake
    <2>3. CASE person[r] # p
      BY <1>2, <2>1, <2>3 DEF TypeOK
    <2> QED
      BY <2>2, <2>3
  <1> QED
    BY <1>1, <1>2 DEF Overtaking

LEMMA GrantIsUsed ==
  ASSUME TypeOK, GrantSafe, NEW r \in Request, NEW g \in Grant, Consume(r, g)
  PROVE  GrantSafe'
  <1> USE DEF GrantSafe
  <1>1. /\ UNCHANGED <<type, subject, account, taken, lost, overtaken, found>>
        /\ type[g] # "none"
        /\ stage'[r] = "used" /\ op'[r] = type[g] /\ person'[r] = subject[g] /\ grant'[r] = g
        /\ \A q \in Request \ {r} : /\ stage'[q] = stage[q] /\ op'[q] = op[q]
                                    /\ person'[q] = person[q] /\ grant'[q] = grant[q]
    BY DEF Consume, Valid, rows, history, TypeOK
  <1>2. GrantInv'
    BY <1>1 DEF GrantInv
  <1>3. FoundInv'
    BY <1>1 DEF FoundInv
  <1>4. LostGrantsWereContested'
    BY <1>1 DEF LostGrantsWereContested
  <1> QED
    BY <1>2, <1>3, <1>4

LEMMA AccountIsLookedFor ==
  ASSUME TypeOK, GrantSafe, NEW r \in Request, Find(r)
  PROVE  GrantSafe'
  <1> USE DEF GrantSafe
  <1>1. /\ UNCHANGED <<type, subject, account, taken, lost, overtaken, op, person, grant>>
        /\ stage[r] = "used" /\ op[r] = "edge"
        /\ stage'[r] = "found" /\ found'[r] = (account[person[r]] # "none")
        /\ \A q \in Request \ {r} : stage'[q] = stage[q] /\ found'[q] = found[q]
    BY DEF Find, Known, rows, grants, history, TypeOK
  <1>2. GrantInv'
    BY <1>1 DEF GrantInv
  <1>3. FoundInv'
    BY <1>1 DEF FoundInv
  <1>4. LostGrantsWereContested'
    BY <1>1 DEF LostGrantsWereContested
  <1> QED
    BY <1>2, <1>3, <1>4

LEMMA RequestEnds ==
  ASSUME TypeOK, NEW r \in Request, Finish(r)
  PROVE  /\ NoneExchanges /\ stage'[r] = "done" /\ op'[r] = "none"
         /\ \A q \in Request \ {r} :
              /\ stage'[q] = stage[q] /\ op'[q] = op[q] /\ person'[q] = person[q]
              /\ about'[q] = about[q] /\ grant'[q] = grant[q] /\ found'[q] = found[q]
  BY DEF Finish, NoneExchanges, TypeOK

LEMMA GrantIsExchanged ==
  ASSUME TypeOK, GrantSafe, NEW r \in Request, NEW c \in Credential, Exchange(r, c)
  PROVE  GrantSafe'
  <1> USE DEF GrantSafe
  <1>1. /\ UNCHANGED <<type, subject, taken>> /\ stage[r] = "found" /\ Finish(r)
        /\ grant[r] \in Grant /\ type[grant[r]] # "none" /\ person[r] = subject[grant[r]]
        /\ person[r] \in Person
    BY DEF Exchange, grants, GrantInv
  <1>2. CASE found[r] \/ (account[person[r]] = "none" /\ person[r] \notin taken)
    <2>1. UNCHANGED lost
      BY <1>2 DEF Exchange
    <2>2. Overtaking
      <3>1. CASE found[r]
        <4>1. UNCHANGED <<account, overtaken>>
          BY <1>1, <3>1 DEF Exchange, TypeOK
        <4> QED
          BY <4>1 DEF Overtaking
      <3>2. CASE ~found[r]
        <4>1. /\ account' = [account EXCEPT ![person[r]] = "synced"]
              /\ Overtake(person[r], Request \ {r})
          BY <1>2, <3>2 DEF Exchange
        <4>2. \A q \in Request \ (Request \ {r}) : stage'[q] # "found"
          BY <1>1, RequestEnds
        <4> QED
          BY <1>1, <4>1, <4>2, AccountAppears
      <3> QED
        BY <3>1, <3>2
    <2> QED
      BY <1>1, <2>1, <2>2, RequestEnds, GrantsKept DEF GrantInv
  <1>3. CASE ~(found[r] \/ (account[person[r]] = "none" /\ person[r] \notin taken))
    <2>1. /\ lost' = lost \cup {grant[r]} /\ UNCHANGED <<account, overtaken>>
      BY <1>3 DEF Exchange
    <2>2. grant[r] \in overtaken \/ subject[grant[r]] \in taken
      BY <1>1, <1>3 DEF FoundInv
    <2>3. GrantInv'
      <3>1. ASSUME NEW q \in Request, stage'[q] \in {"used", "found"}
            PROVE  /\ grant'[q] \in Grant /\ type'[grant'[q]] # "none"
                   /\ person'[q] = subject'[grant'[q]]
                   /\ stage'[q] = "found" => op'[q] = "edge"
        BY <1>1, <3>1, RequestEnds DEF NoneExchanges, GrantInv
      <3> QED
        BY <1>1, <2>1, <3>1 DEF GrantInv
    <2>4. FoundInv'
      BY <1>1, <2>1, RequestEnds DEF FoundInv, NoneExchanges
    <2>5. LostGrantsWereContested'
      BY <1>1, <2>1, <2>2 DEF LostGrantsWereContested
    <2> QED
      BY <2>3, <2>4, <2>5
  <1> QED
    BY <1>2, <1>3

-----------------------------------------------------------------------------
(* Every step.                                                              *)

LEMMA SessionRequest ==
  ASSUME TypeOK, SessionSafe, ApiSafe, NEW r \in Request, RequestStep(r)
  PROVE  SessionSafe'
  <1>1. ASSUME NEW p \in Person, ReadAddress(r, p)
        PROVE  SessionSafe'
    <2>2. NoneBegins
      BY <1>1 DEF ReadAddress, Start, NoneBegins, TypeOK, SessionOp
    <2> QED
      BY <1>1, <2>2, SessionsKept DEF ReadAddress, rows, history
  <1>2. ASSUME NEW c \in Credential, Register(r, c)
        PROVE  SessionSafe'
    <2>1. Finish(r)
      BY <1>2 DEF Register
    <2>2. NoneBegins
      BY <2>1, RequestEnds DEF NoneBegins, SessionOp
    <2>3. CASE kind' = kind
      BY <1>2, <2>2, <2>3, SessionsKept DEF Register, IssueSession, Fresh, TypeOK
    <2>4. CASE kind' # kind
      <3>1. IssueSession(c, person[r], c) /\ UNCHANGED <<revoked, raced, ended, outdated>>
        BY <1>2, <2>4 DEF Register
      <3> QED
        BY <2>2, <3>1, SessionBegins
    <2> QED
      BY <2>3, <2>4
  <1>3. ASSUME NEW o \in SessionOp, NEW c \in Credential, ReadToken(r, o, c)
        PROVE  SessionSafe'
    BY <1>3, SessionIsRead
  <1>4. ASSUME NEW c \in Credential, Refresh(r, c)
        PROVE  SessionSafe'
    BY <1>4, SessionIsRefreshed
  <1>5. CASE Logout(r)
    BY <1>5, SessionIsEnded
  <1>6. ASSUME NEW g \in Grant, Consume(r, g)
        PROVE  SessionSafe'
    <2>2. NoneBegins
      BY <1>6 DEF Consume, Valid, NoneBegins, TypeOK, SessionOp
    <2> QED
      BY <1>6, <2>2, SessionsKept DEF Consume, rows, history
  <1>7. CASE Find(r)
    <2>2. NoneBegins
      BY <1>7 DEF Find, Valid, NoneBegins, TypeOK, SessionOp
    <2> QED
      BY <1>7, <2>2, SessionsKept DEF Find, rows, history
  <1>8. ASSUME NEW c \in Credential, Exchange(r, c)
        PROVE  SessionSafe'
    <2>1. Finish(r)
      BY <1>8 DEF Exchange
    <2>2. NoneBegins
      BY <2>1, RequestEnds DEF NoneBegins, SessionOp
    <2>3. CASE kind' = kind
      BY <1>8, <2>2, <2>3, SessionsKept DEF Exchange, IssueSession, Fresh, TypeOK
    <2>4. CASE kind' # kind
      <3>1. IssueSession(c, person[r], c) /\ UNCHANGED <<revoked, raced, ended, outdated>>
        BY <1>8, <2>4 DEF Exchange
      <3> QED
        BY <2>2, <3>1, SessionBegins
    <2> QED
      BY <2>3, <2>4
  <1>9. CASE AnswerWyv(r)
    <2>1. Finish(r)
      BY <1>9 DEF AnswerWyv
    <2>2. NoneBegins
      BY <2>1, RequestEnds DEF NoneBegins, SessionOp
    <2> QED
      BY <1>9, <2>2, SessionsKept DEF AnswerWyv, rows, history
  <1>10. ASSUME NEW o \in ApiOp, NEW p \in Person, ReadApi(r, o, p)
        PROVE  SessionSafe'
    <2>1. PICK C \in Selections(o, p) : Start(r, o, p, C)
      BY <1>10 DEF ReadApi
    <2>2. NoneBegins
      BY <2>1 DEF Start, NoneBegins, TypeOK, SessionOp, ApiOp
    <2> QED
      BY <1>10, <2>2, SessionsKept DEF ReadApi, rows, history
  <1>11. CASE Revoke(r)
    <2>1. Finish(r)
      BY <1>11 DEF Revoke
    <2>2. NoneBegins
      BY <2>1, RequestEnds DEF NoneBegins, SessionOp
    <2>3. \A c \in about[r] : kind[c] = "api"
      BY <1>11 DEF Revoke, ApiSafe, ApiInv, Api, ApiOp
    <2> QED
      BY <1>11, <2>2, <2>3, SessionsKept DEF Revoke
  <1>12. ASSUME NEW S \in SUBSET Credential, Rotate(r, S)
        PROVE  SessionSafe'
    <2>1. Finish(r)
      BY <1>12 DEF Rotate
    <2>2. NoneBegins
      BY <2>1, RequestEnds DEF NoneBegins, SessionOp
    <2>3. \A c \in about[r] : kind[c] = "api"
      BY <1>12 DEF Rotate, ApiSafe, ApiInv, Api, ApiOp
    <2>4. \A c \in Credential : /\ kind'[c] = "session" <=> kind[c] = "session"
                                /\ kind[c] = "session" => kind'[c] = kind[c]
      BY <1>12 DEF Rotate, IssueApi, Fresh
    <2> QED
      BY <1>12, <2>2, <2>3, <2>4, SessionsKept DEF Rotate, IssueApi
  <1>13. CASE Fail(r)
    <2>1. Finish(r)
      BY <1>13 DEF Fail
    <2>2. NoneBegins
      BY <2>1, RequestEnds DEF NoneBegins, SessionOp
    <2> QED
      BY <1>13, <2>2, SessionsKept DEF Fail, rows, history
  <1>14. ASSUME NEW c \in Credential, LogoutSpent(r, c)
         PROVE  SessionSafe'
    BY <1>14, SessionIsLeft
  <1> QED
    BY <1>1, <1>2, <1>3, <1>4, <1>5, <1>6, <1>7, <1>8, <1>9, <1>10, <1>11, <1>12, <1>13, <1>14
    DEF RequestStep

LEMMA SessionStep ==
  ASSUME TypeOK, SessionSafe, ApiSafe, [Next]_vars
  PROVE  SessionSafe'
  <1>1. ASSUME NEW p \in Person, NEW c \in Credential, Login(p, c)
        PROVE  SessionSafe'
    <2>1. NoneBegins
      BY <1>1 DEF Login, rows, request, history, NoneBegins
    <2> QED
      BY <1>1, <2>1, SessionBegins DEF Login, history
  <1>2. ASSUME NEW p \in Person, NEW c \in Credential, CreateToken(p, c)
        PROVE  SessionSafe'
    <2>1. NoneBegins
      BY <1>2 DEF CreateToken, rows, request, history, NoneBegins
    <2>2. \A x \in Credential : /\ kind'[x] = "session" <=> kind[x] = "session"
                                /\ kind[x] = "session" => kind'[x] = kind[x]
      BY <1>2 DEF CreateToken, IssueApi, Fresh
    <2> QED
      BY <1>2, <2>1, <2>2, SessionsKept DEF CreateToken, IssueApi
  <1>3. ASSUME NEW p \in Person, Replicate(p)
        PROVE  SessionSafe'
    <2>1. NoneBegins
      BY <1>3 DEF Replicate, rows, request, history, NoneBegins
    <2> QED
      BY <1>3, <2>1, SessionsKept DEF Replicate, rows, request, history
  <1>4. ASSUME NEW c \in Credential, Expire(c)
        PROVE  SessionSafe'
    <2>1. NoneBegins
      BY <1>4 DEF Expire, rows, request, history, NoneBegins
    <2> QED
      BY <1>4, <2>1, SessionsKept DEF Expire, rows, request, history
  <1>5. ASSUME NEW g \in Grant, NEW t \in {"edge", "wyv"}, NEW p \in Person, CreateGrant(g, t, p)
        PROVE  SessionSafe'
    <2>1. NoneBegins
      BY <1>5 DEF CreateGrant, rows, request, history, NoneBegins
    <2> QED
      BY <1>5, <2>1, SessionsKept DEF CreateGrant, rows, request, history
  <1>6. CASE Tick
    <2>1. NoneBegins
      BY <1>6 DEF Tick, rows, request, history, NoneBegins
    <2> QED
      BY <1>6, <2>1, SessionsKept DEF Tick, rows, request, history
  <1>7. CASE UNCHANGED vars
    <2>1. NoneBegins
      BY <1>7 DEF vars, rows, request, history, NoneBegins
    <2> QED
      BY <1>7, <2>1, SessionsKept DEF vars, rows, request, history
  <1> QED
    BY <1>1, <1>2, <1>3, <1>4, <1>5, <1>6, <1>7, SessionRequest
    DEF Next

LEMMA TokenRequest ==
  ASSUME TypeOK, SessionSafe, ApiSafe, GrantSafe, NEW r \in Request, RequestStep(r)
  PROVE  ApiSafe'
  <1>1. ASSUME NEW p \in Person, ReadAddress(r, p)
        PROVE  ApiSafe'
    <2>1. NoneCalls
      BY <1>1 DEF ReadAddress, Start, NoneCalls, ApiSafe, ApiInv, TypeOK, SessionOp, ApiOp, history
    <2> QED
      BY <1>1, <2>1, TokensKept DEF ReadAddress, rows, history
  <1>2. ASSUME NEW c \in Credential, Register(r, c)
        PROVE  ApiSafe'
    <2>0. Finish(r) /\ op[r] \notin ApiOp /\ UNCHANGED alone
      BY <1>2 DEF Register, history, ApiOp, ApiSafe, ApiInv
    <2>1. NoneCalls
      BY <2>0, RequestEnds DEF NoneCalls, ApiSafe, ApiInv, TypeOK, ApiOp
    <2>2. \A x \in Credential : /\ kind'[x] = "api" <=> kind[x] = "api"
                                /\ kind[x] = "api" => owner'[x] = owner[x]
      BY <1>2 DEF Register, IssueSession, Fresh, TypeOK
    <2> QED
      BY <1>2, <2>1, <2>2, TokensKept DEF Register
  <1>3. ASSUME NEW o \in SessionOp, NEW c \in Credential, ReadToken(r, o, c)
        PROVE  ApiSafe'
    <2>1. NoneCalls
      BY <1>3 DEF ReadToken, Start, NoneCalls, ApiSafe, ApiInv, TypeOK, SessionOp, ApiOp
    <2> QED
      BY <1>3, <2>1, TokensKept DEF ReadToken, rows, history
  <1>4. ASSUME NEW c \in Credential, Refresh(r, c)
        PROVE  ApiSafe'
    <2>0. Finish(r) /\ op[r] \notin ApiOp /\ UNCHANGED alone
      BY <1>4 DEF Refresh, history, ApiOp, ApiSafe, ApiInv
    <2>1. NoneCalls
      BY <2>0, RequestEnds DEF NoneCalls, ApiSafe, ApiInv, TypeOK, ApiOp
    <2>2. \A x \in Credential : /\ kind'[x] = "api" <=> kind[x] = "api"
                                /\ kind[x] = "api" => owner'[x] = owner[x]
      BY <1>4 DEF Refresh, IssueSession, Fresh, TypeOK
    <2>3. \A x \in about[r] : kind[x] = "session"
      BY <1>4 DEF Refresh, SessionSafe, SessionInv, Session, SessionOp
    <2> QED
      BY <1>4, <2>1, <2>2, <2>3, TokensKept DEF Refresh, Spent, history
  <1>5. CASE Logout(r)
    <2>0. Finish(r) /\ op[r] \notin ApiOp /\ UNCHANGED alone
      BY <1>5 DEF Logout, history, ApiOp, ApiSafe, ApiInv
    <2>1. NoneCalls
      BY <2>0, RequestEnds DEF NoneCalls, ApiSafe, ApiInv, TypeOK, ApiOp
    <2>3. \A x \in about[r] : kind[x] = "session"
      BY <1>5 DEF Logout, SessionSafe, SessionInv, Session, SessionOp
    <2> QED
      BY <1>5, <2>1, <2>3, TokensKept DEF Logout, Closed
  <1>6. ASSUME NEW g \in Grant, Consume(r, g)
        PROVE  ApiSafe'
    <2>1. NoneCalls
      <3>1. /\ op'[r] = type[g] /\ type[g] \in {"edge", "wyv"} /\ op'[r] \notin ApiOp
            /\ alone' = alone
        BY <1>6 DEF Consume, Valid, TypeOK, history, ApiOp
      <3>2. \A q \in Request \ {r} :
              /\ op'[q] = op[q] /\ stage'[q] = stage[q]
              /\ person'[q] = person[q] /\ about'[q] = about[q]
        BY <1>6 DEF Consume, TypeOK
      <3>3. r \notin alone
        BY <1>6 DEF Consume, ApiSafe, ApiInv
      <3>4. alone \subseteq Request
        BY DEF TypeOK
      <3> QED
        BY <3>1, <3>2, <3>3, <3>4 DEF NoneCalls
    <2> QED
      BY <1>6, <2>1, TokensKept DEF Consume, rows, history
  <1>7. CASE Find(r)
    <2>1. NoneCalls
      BY <1>7 DEF Find, NoneCalls, ApiSafe, ApiInv, TypeOK, history, ApiOp
    <2> QED
      BY <1>7, <2>1, TokensKept DEF Find, rows, history
  <1>8. ASSUME NEW c \in Credential, Exchange(r, c)
        PROVE  ApiSafe'
    <2>0. Finish(r) /\ op[r] \notin ApiOp /\ UNCHANGED alone
      BY <1>8 DEF Exchange, history, ApiOp, ApiSafe, ApiInv, GrantSafe, GrantInv
    <2>1. NoneCalls
      BY <2>0, RequestEnds DEF NoneCalls, ApiSafe, ApiInv, TypeOK, ApiOp
    <2>2. \A x \in Credential : /\ kind'[x] = "api" <=> kind[x] = "api"
                                /\ kind[x] = "api" => owner'[x] = owner[x]
      BY <1>8 DEF Exchange, IssueSession, Fresh, TypeOK
    <2> QED
      BY <1>8, <2>1, <2>2, TokensKept DEF Exchange
  <1>9. CASE AnswerWyv(r)
    <2>0. Finish(r) /\ op[r] \notin ApiOp /\ UNCHANGED alone
      BY <1>9 DEF AnswerWyv, history, ApiOp, ApiSafe, ApiInv
    <2>1. NoneCalls
      BY <2>0, RequestEnds DEF NoneCalls, ApiSafe, ApiInv, TypeOK, ApiOp
    <2> QED
      BY <1>9, <2>1, TokensKept DEF AnswerWyv, rows, history
  <1>10. ASSUME NEW o \in ApiOp, NEW p \in Person, ReadApi(r, o, p)
        PROVE  ApiSafe'
    BY <1>10, TokensAreRead
  <1>11. CASE Revoke(r)
    BY <1>11, TokensAreRevoked
  <1>12. ASSUME NEW S \in SUBSET Credential, Rotate(r, S)
        PROVE  ApiSafe'
    BY <1>12, TokensAreRotated
  <1>13. CASE Fail(r)
    <2>0. Finish(r) /\ alone' = alone \ {r}
      BY <1>13 DEF Fail, history, ApiOp, ApiSafe, ApiInv
    <2>1. NoneCalls
      BY <2>0, RequestEnds DEF NoneCalls, ApiSafe, ApiInv, TypeOK, ApiOp
    <2> QED
      BY <1>13, <2>1, TokensKept DEF Fail, rows, history
  <1>14. ASSUME NEW c \in Credential, LogoutSpent(r, c)
         PROVE  ApiSafe'
    <2>0. Finish(r) /\ op[r] \notin ApiOp /\ UNCHANGED alone
      BY <1>14 DEF LogoutSpent, ApiSafe, ApiInv
    <2>1. NoneCalls
      BY <2>0, RequestEnds DEF NoneCalls, ApiSafe, ApiInv, TypeOK, ApiOp
    <2> QED
      BY <1>14, <2>1, TokensKept DEF LogoutSpent, rows
  <1> QED
    BY <1>1, <1>2, <1>3, <1>4, <1>5, <1>6, <1>7, <1>8, <1>9, <1>10, <1>11, <1>12, <1>13, <1>14
    DEF RequestStep

LEMMA TokenStep ==
  ASSUME TypeOK, SessionSafe, ApiSafe, GrantSafe, [Next]_vars
  PROVE  ApiSafe'
  <1>1. ASSUME NEW p \in Person, NEW c \in Credential, Login(p, c)
        PROVE  ApiSafe'
    <2>1. NoneCalls
      BY <1>1 DEF Login, rows, request, history, NoneCalls
    <2>2. \A x \in Credential : /\ kind'[x] = "api" <=> kind[x] = "api"
                                /\ kind[x] = "api" => owner'[x] = owner[x]
      BY <1>1 DEF Login, IssueSession, Fresh, TypeOK
    <2> QED
      BY <1>1, <2>1, <2>2, TokensKept DEF Login, history
  <1>2. ASSUME NEW p \in Person, NEW c \in Credential, CreateToken(p, c)
        PROVE  ApiSafe'
    BY <1>2, TokenIsCreated
  <1>3. ASSUME NEW p \in Person, Replicate(p)
        PROVE  ApiSafe'
    <2>1. NoneCalls
      BY <1>3 DEF Replicate, rows, request, history, NoneCalls
    <2> QED
      BY <1>3, <2>1, TokensKept DEF Replicate, rows, request, history
  <1>4. ASSUME NEW c \in Credential, Expire(c)
        PROVE  ApiSafe'
    <2>1. NoneCalls
      BY <1>4 DEF Expire, rows, request, history, NoneCalls
    <2> QED
      BY <1>4, <2>1, TokensKept DEF Expire, rows, request, history
  <1>5. ASSUME NEW g \in Grant, NEW t \in {"edge", "wyv"}, NEW p \in Person, CreateGrant(g, t, p)
        PROVE  ApiSafe'
    <2>1. NoneCalls
      BY <1>5 DEF CreateGrant, rows, request, history, NoneCalls
    <2> QED
      BY <1>5, <2>1, TokensKept DEF CreateGrant, rows, request, history
  <1>6. CASE Tick
    <2>1. NoneCalls
      BY <1>6 DEF Tick, rows, request, history, NoneCalls
    <2> QED
      BY <1>6, <2>1, TokensKept DEF Tick, rows, request, history
  <1>7. CASE UNCHANGED vars
    <2>1. NoneCalls
      BY <1>7 DEF vars, rows, request, history, NoneCalls
    <2> QED
      BY <1>7, <2>1, TokensKept DEF vars, rows, request, history
  <1> QED
    BY <1>1, <1>2, <1>3, <1>4, <1>5, <1>6, <1>7, TokenRequest
    DEF Next

LEMMA GrantRequest ==
  ASSUME TypeOK, GrantSafe, NEW r \in Request, RequestStep(r)
  PROVE  GrantSafe'
  <1>1. ASSUME NEW p \in Person, ReadAddress(r, p)
        PROVE  GrantSafe'
    <2>1. NoneExchanges
      BY <1>1 DEF ReadAddress, Start, NoneExchanges, TypeOK
    <2>2. Overtaking
      BY <1>1 DEF ReadAddress, rows, history, Overtaking
    <2> QED
      BY <1>1, <2>1, <2>2, GrantsKept DEF ReadAddress, rows, grants, history, GrantSafe, GrantInv
  <1>2. ASSUME NEW c \in Credential, Register(r, c)
        PROVE  GrantSafe'
    <2>1. NoneExchanges
      BY <1>2, RequestEnds DEF Register
    <2>2. Overtaking
      <3>1. CASE account[person[r]] # "none"
        BY <1>2, <3>1 DEF Register, Overtaking
      <3>2. CASE account[person[r]] = "none"
        <4>1. Overtake(person[r], Request) /\ account' = [account EXCEPT ![person[r]] = "local"]
          BY <1>2, <3>2 DEF Register
        <4>2. person[r] \in Person \cup {NoPerson}
          BY DEF TypeOK
        <4> QED
          BY <4>1, <4>2, AccountAppears
      <3> QED
        BY <3>1, <3>2
    <2> QED
      BY <1>2, <2>1, <2>2, GrantsKept DEF Register, rows, grants, history, GrantSafe, GrantInv
  <1>3. ASSUME NEW o \in SessionOp, NEW c \in Credential, ReadToken(r, o, c)
        PROVE  GrantSafe'
    <2>1. NoneExchanges
      BY <1>3 DEF ReadToken, Start, NoneExchanges, TypeOK
    <2>2. Overtaking
      BY <1>3 DEF ReadToken, rows, history, Overtaking
    <2> QED
      BY <1>3, <2>1, <2>2, GrantsKept DEF ReadToken, rows, grants, history, GrantSafe, GrantInv
  <1>4. ASSUME NEW c \in Credential, Refresh(r, c)
        PROVE  GrantSafe'
    <2>1. NoneExchanges
      BY <1>4, RequestEnds DEF Refresh
    <2>2. Overtaking
      BY <1>4 DEF Refresh, rows, history, Overtaking
    <2> QED
      BY <1>4, <2>1, <2>2, GrantsKept DEF Refresh, rows, grants, history, GrantSafe, GrantInv
  <1>5. CASE Logout(r)
    <2>1. NoneExchanges
      BY <1>5, RequestEnds DEF Logout
    <2>2. Overtaking
      BY <1>5 DEF Logout, rows, history, Overtaking
    <2> QED
      BY <1>5, <2>1, <2>2, GrantsKept DEF Logout, rows, grants, history, GrantSafe, GrantInv
  <1>6. ASSUME NEW g \in Grant, Consume(r, g)
        PROVE  GrantSafe'
    BY <1>6, GrantIsUsed
  <1>7. CASE Find(r)
    BY <1>7, AccountIsLookedFor
  <1>8. ASSUME NEW c \in Credential, Exchange(r, c)
        PROVE  GrantSafe'
    BY <1>8, GrantIsExchanged
  <1>9. CASE AnswerWyv(r)
    <2>1. NoneExchanges
      BY <1>9, RequestEnds DEF AnswerWyv
    <2>2. Overtaking
      BY <1>9 DEF AnswerWyv, rows, history, Overtaking
    <2> QED
      BY <1>9, <2>1, <2>2, GrantsKept DEF AnswerWyv, rows, grants, history, GrantSafe, GrantInv
  <1>10. ASSUME NEW o \in ApiOp, NEW p \in Person, ReadApi(r, o, p)
        PROVE  GrantSafe'
    <2>1. NoneExchanges
      BY <1>10 DEF ReadApi, Start, NoneExchanges, TypeOK
    <2>2. Overtaking
      BY <1>10 DEF ReadApi, rows, history, Overtaking
    <2> QED
      BY <1>10, <2>1, <2>2, GrantsKept DEF ReadApi, rows, grants, history, GrantSafe, GrantInv
  <1>11. CASE Revoke(r)
    <2>1. NoneExchanges
      BY <1>11, RequestEnds DEF Revoke
    <2>2. Overtaking
      BY <1>11 DEF Revoke, rows, history, Overtaking
    <2> QED
      BY <1>11, <2>1, <2>2, GrantsKept DEF Revoke, rows, grants, history, GrantSafe, GrantInv
  <1>12. ASSUME NEW S \in SUBSET Credential, Rotate(r, S)
        PROVE  GrantSafe'
    <2>1. NoneExchanges
      BY <1>12, RequestEnds DEF Rotate
    <2>2. Overtaking
      BY <1>12 DEF Rotate, rows, history, Overtaking
    <2> QED
      BY <1>12, <2>1, <2>2, GrantsKept DEF Rotate, rows, grants, history, GrantSafe, GrantInv
  <1>13. CASE Fail(r)
    <2>1. NoneExchanges
      BY <1>13, RequestEnds DEF Fail
    <2>2. Overtaking
      BY <1>13 DEF Fail, rows, history, Overtaking
    <2> QED
      BY <1>13, <2>1, <2>2, GrantsKept DEF Fail, rows, grants, history, GrantSafe, GrantInv
  <1>14. ASSUME NEW c \in Credential, LogoutSpent(r, c)
         PROVE  GrantSafe'
    <2>1. NoneExchanges
      BY <1>14, RequestEnds DEF LogoutSpent
    <2>2. Overtaking
      BY <1>14 DEF LogoutSpent, rows, Overtaking
    <2> QED
      BY <1>14, <2>1, <2>2, GrantsKept DEF LogoutSpent, rows, grants, GrantSafe, GrantInv
  <1> QED
    BY <1>1, <1>2, <1>3, <1>4, <1>5, <1>6, <1>7, <1>8, <1>9, <1>10, <1>11, <1>12, <1>13, <1>14
    DEF RequestStep

LEMMA GrantStep ==
  ASSUME TypeOK, GrantSafe, [Next]_vars
  PROVE  GrantSafe'
  <1>1. ASSUME NEW p \in Person, NEW c \in Credential, Login(p, c)
        PROVE  GrantSafe'
    <2>1. NoneExchanges
      BY <1>1 DEF Login, rows, grants, request, history, NoneExchanges
    <2>2. Overtaking
      BY <1>1 DEF Login, rows, grants, request, history, Overtaking
    <2> QED
      BY <1>1, <2>1, <2>2, GrantsKept DEF Login, rows, grants, request, history, GrantSafe, GrantInv
  <1>2. ASSUME NEW p \in Person, NEW c \in Credential, CreateToken(p, c)
        PROVE  GrantSafe'
    <2>1. NoneExchanges
      BY <1>2 DEF CreateToken, rows, grants, request, history, NoneExchanges
    <2>2. Overtaking
      BY <1>2 DEF CreateToken, rows, grants, request, history, Overtaking
    <2> QED
      BY <1>2, <2>1, <2>2, GrantsKept
      DEF CreateToken, rows, grants, request, history, GrantSafe, GrantInv
  <1>3. ASSUME NEW p \in Person, Replicate(p)
        PROVE  GrantSafe'
    <2>1. NoneExchanges
      BY <1>3 DEF Replicate, rows, grants, request, history, NoneExchanges
    <2>2. Overtaking
      BY <1>3, AccountAppears DEF Replicate, request
    <2> QED
      BY <1>3, <2>1, <2>2, GrantsKept
      DEF Replicate, rows, grants, request, history, GrantSafe, GrantInv
  <1>4. ASSUME NEW c \in Credential, Expire(c)
        PROVE  GrantSafe'
    <2>1. NoneExchanges
      BY <1>4 DEF Expire, rows, grants, request, history, NoneExchanges
    <2>2. Overtaking
      BY <1>4 DEF Expire, rows, grants, request, history, Overtaking
    <2> QED
      BY <1>4, <2>1, <2>2, GrantsKept
      DEF Expire, rows, grants, request, history, GrantSafe, GrantInv
  <1>5. ASSUME NEW g \in Grant, NEW t \in {"edge", "wyv"}, NEW p \in Person, CreateGrant(g, t, p)
        PROVE  GrantSafe'
    <2>1. NoneExchanges
      BY <1>5 DEF CreateGrant, rows, grants, request, history, NoneExchanges
    <2>2. Overtaking
      BY <1>5 DEF CreateGrant, rows, grants, request, history, Overtaking
    <2>3. \A x \in Grant : /\ type[x] # "none" => type'[x] = type[x] /\ subject'[x] = subject[x]
                           /\ type'[x] # "none" => subject'[x] \in Person
      BY <1>5 DEF CreateGrant, GrantSafe, GrantInv, TypeOK
    <2> QED
      BY <1>5, <2>1, <2>2, <2>3, GrantsKept DEF CreateGrant, rows, grants, request, history
  <1>6. CASE Tick
    <2>1. NoneExchanges
      BY <1>6 DEF Tick, rows, grants, request, history, NoneExchanges
    <2>2. Overtaking
      BY <1>6 DEF Tick, rows, grants, request, history, Overtaking
    <2> QED
      BY <1>6, <2>1, <2>2, GrantsKept DEF Tick, rows, grants, request, history, GrantSafe, GrantInv
  <1>7. CASE UNCHANGED vars
    <2>1. NoneExchanges
      BY <1>7 DEF vars, rows, grants, request, history, NoneExchanges
    <2>2. Overtaking
      BY <1>7 DEF vars, rows, grants, request, history, Overtaking
    <2> QED
      BY <1>7, <2>1, <2>2, GrantsKept DEF vars, rows, grants, request, history, GrantSafe, GrantInv
  <1> QED
    BY <1>1, <1>2, <1>3, <1>4, <1>5, <1>6, <1>7, GrantRequest
    DEF Next

-----------------------------------------------------------------------------
(* After its first use Redis remembers a grant up to the second it expires  *)
(* in; after a second one, which only that second allows, beyond it.        *)
UsesInv ==
  \A g \in Grant :
    /\ type[g] = "none" => uses[g] = <<>>
    /\ Len(uses[g]) \in 0 .. 2
    /\ Len(uses[g]) \in {1, 2} => mark[g] >= expires[g] * Second
    /\ Len(uses[g]) = 2 => /\ uses[g][2] = expires[g]
                           /\ mark[g] >= (expires[g] + 1) * Second

LEMMA QuotientBounds ==
  ASSUME NEW n \in Nat, NEW s \in Nat \ {0}
  PROVE  /\ (n \div s) * s <= n
         /\ n < (n \div s + 1) * s
  BY Z3

LEMMA ProductOrder ==
  ASSUME NEW a \in Nat, NEW b \in Nat, NEW s \in Nat, a <= b
  PROVE  a * s <= b * s
  BY Z3

LEMMA ProductSum ==
  ASSUME NEW a \in Nat, NEW b \in Nat, NEW s \in Nat
  PROVE  (a + b) * s = a * s + b * s
  BY Z3

(* In ticks: the second a has begun if, and only if, the clock shows it.    *)
LEMMA ClockReaches ==
  ASSUME GrantsOK, NEW a \in Nat
  PROVE  /\ a * Second <= now => a <= Clock
         /\ a <= Clock => a * Second <= now
  <1>1. now \in Nat /\ Second \in Nat \ {0} /\ Clock \in Nat /\ Clock = now \div Second
    BY TimeAssumption, ClockType DEF GrantsOK, Clock
  <1>2. Clock * Second <= now /\ now < (Clock + 1) * Second
    BY <1>1, QuotientBounds
  <1>3. /\ a * Second \in Nat /\ Clock * Second \in Nat /\ (Clock + 1) * Second \in Nat
    BY <1>1, ProductType
  <1>4. ASSUME a * Second <= now, ~(a <= Clock)
        PROVE  FALSE
    <2>1. Clock + 1 \in Nat /\ Clock + 1 <= a
      BY <1>1, <1>4
    <2>2. (Clock + 1) * Second <= a * Second
      BY <1>1, <2>1, ProductOrder
    <2> QED
      BY <1>1, <1>2, <1>3, <1>4, <2>2
  <1>5. ASSUME a <= Clock
        PROVE  a * Second <= now
    <2>1. a * Second <= Clock * Second
      BY <1>1, <1>5, ProductOrder
    <2> QED
      BY <1>1, <1>2, <1>3, <2>1
  <1> QED
    BY <1>4, <1>5

(* The mark of a use lasts up to the second the grant expires in, that of a *)
(* use within this second beyond it.                                        *)
LEMMA MarkLasts ==
  ASSUME GrantsOK, NEW g \in Grant, Valid(g)
  PROVE  /\ now + TimeToLive(g) * Second >= expires[g] * Second
         /\ Clock = expires[g] => now + TimeToLive(g) * Second >= (expires[g] + 1) * Second
  <1> DEFINE ttl == TimeToLive(g)
  <1>1. /\ now \in Nat /\ Clock \in Nat /\ ttl \in Nat /\ expires[g] \in Nat
        /\ Second \in Nat /\ MinTtl \in Nat \ {0} /\ Clock <= expires[g]
    BY ClockType, TimeAssumption DEF GrantsOK, Valid
  <1>2. /\ Clock + ttl >= expires[g]
        /\ Clock = expires[g] => Clock + ttl >= expires[g] + 1
    BY <1>1 DEF TimeToLive
  <1> HIDE DEF ttl
  <1>3. now + ttl * Second >= (Clock + ttl) * Second
    <2>1. Clock * Second <= now
      BY <1>1, ClockReaches
    <2>2. (Clock + ttl) * Second = Clock * Second + ttl * Second
      BY <1>1, ProductSum
    <2>3. Clock * Second \in Nat /\ ttl * Second \in Nat
      BY <1>1, ProductType
    <2> QED
      BY <1>1, <2>1, <2>2, <2>3
  <1>4. ASSUME NEW e \in Nat, Clock + ttl >= e
        PROVE  now + ttl * Second >= e * Second
    <2>1. e * Second <= (Clock + ttl) * Second
      BY <1>1, <1>4, ProductOrder
    <2>2. /\ e * Second \in Nat /\ (Clock + ttl) * Second \in Nat /\ ttl * Second \in Nat
      BY <1>1, <1>4, ProductType
    <2> QED
      BY <1>1, <1>3, <2>1, <2>2
  <1>5. expires[g] + 1 \in Nat
    BY <1>1
  <1>6. now + ttl * Second >= expires[g] * Second
    BY <1>1, <1>2, <1>4
  <1>7. Clock = expires[g] => now + ttl * Second >= (expires[g] + 1) * Second
    BY <1>1, <1>2, <1>4, <1>5
  <1> QED
    BY <1>6, <1>7 DEF ttl

LEMMA Between ==
  ASSUME NEW a \in Nat, NEW b \in Nat, NEW c \in Nat, a >= b, a <= c
  PROVE  b <= c
  OBVIOUS

(* A grant whose mark is there no more, and that still decodes, is not      *)
(* marked beyond the second it expires in.                                  *)
LEMMA UsedAgain ==
  ASSUME GrantsOK, UsesInv, NEW g \in Grant, Valid(g), Unused(g), uses[g] # <<>>
  PROVE  Len(uses[g]) = 1 /\ Clock = expires[g]
  <1>1. /\ now \in Nat /\ Clock \in Nat /\ expires[g] \in Nat /\ mark[g] \in Nat
        /\ Second \in Nat /\ Clock <= expires[g] /\ mark[g] <= now
        /\ expires[g] + 1 \in Nat
    BY ClockType, TimeAssumption DEF GrantsOK, Valid, Unused
  <1>2. uses[g] \in Seq(Nat) /\ Len(uses[g]) \in {1, 2}
    BY DEF GrantsOK, UsesInv
  <1>3. expires[g] * Second \in Nat /\ (expires[g] + 1) * Second \in Nat
    BY <1>1, ProductType
  <1>4. expires[g] <= Clock
    <2>1. expires[g] * Second <= now
      <3>1. mark[g] >= expires[g] * Second
        BY <1>2 DEF UsesInv
      <3> QED
        BY <1>1, <1>3, <3>1, Between
    <2> QED
      BY <1>1, <2>1, ClockReaches
  <1>5. Len(uses[g]) # 2
    <2>1. SUFFICES ASSUME Len(uses[g]) = 2
                   PROVE  FALSE
      OBVIOUS
    <2>2. (expires[g] + 1) * Second <= now
      <3>1. mark[g] >= (expires[g] + 1) * Second
        BY <2>1 DEF UsesInv
      <3> QED
        BY <1>1, <1>3, <3>1, Between
    <2>3. expires[g] + 1 <= Clock
      BY <1>1, <2>2, ClockReaches
    <2> QED
      BY <1>1, <2>3
  <1> QED
    BY <1>1, <1>2, <1>4, <1>5

LEMMA UseIsMarked ==
  ASSUME GrantsOK, UsesInv, NEW r \in Request, NEW g \in Grant, Consume(r, g)
  PROVE  UsesInv'
  <1>1. /\ UNCHANGED <<type, expires>> /\ type[g] # "none" /\ Valid(g) /\ Unused(g)
        /\ mark'[g] = now + TimeToLive(g) * Second
        /\ uses'[g] = Append(uses[g], Clock)
        /\ \A x \in Grant \ {g} : mark'[x] = mark[x] /\ uses'[x] = uses[x]
    BY DEF Consume, Valid, GrantsOK
  <1>2. /\ uses[g] \in Seq(Nat) /\ Clock \in Nat /\ Len(uses[g]) \in 0 .. 2
    BY ClockType DEF GrantsOK, UsesInv
  <1>3. uses[g] = <<>> \/ (Len(uses[g]) = 1 /\ Clock = expires[g])
    BY <1>1, UsedAgain
  <1>4. /\ Len(uses'[g]) \in {1, 2}
        /\ Len(uses'[g]) = 2 => uses'[g][2] = Clock /\ Clock = expires[g]
    <2>1. PICK u \in Seq(Nat) : u = uses[g]
      BY <1>2
    <2>2. PICK n \in Nat : n = Clock
      BY <1>2
    <2>3. uses'[g] = Append(u, n) /\ (u = <<>> \/ (Len(u) = 1 /\ n = expires[g]))
      BY <1>1, <1>3, <2>1, <2>2
    <2>4. CASE u = <<>>
      <3>1. Len(Append(u, n)) = 1
        BY <2>4
      <3> QED
        BY <2>3, <3>1
    <2>5. CASE Len(u) = 1 /\ n = expires[g]
      <3>1. Len(Append(u, n)) = Len(u) + 1 /\ Append(u, n)[Len(u) + 1] = n
        OBVIOUS
      <3>2. Len(Append(u, n)) = 2 /\ Append(u, n)[2] = n
        BY <2>5, <3>1
      <3> QED
        BY <2>2, <2>3, <2>5, <3>2
    <2> QED
      BY <2>3, <2>4, <2>5
  <1>5. /\ mark'[g] >= expires[g] * Second
        /\ Clock = expires[g] => mark'[g] >= (expires[g] + 1) * Second
    BY <1>1, MarkLasts
  <1>6. /\ type'[g] # "none" /\ Len(uses'[g]) \in 0 .. 2
        /\ mark'[g] >= expires'[g] * Second
        /\ Len(uses'[g]) = 2 => /\ uses'[g][2] = expires'[g]
                                /\ mark'[g] >= (expires'[g] + 1) * Second
    BY <1>1, <1>4, <1>5
  <1>7. ASSUME NEW x \in Grant, x # g
        PROVE  /\ type'[x] = type[x] /\ expires'[x] = expires[x]
               /\ mark'[x] = mark[x] /\ uses'[x] = uses[x]
    BY <1>1, <1>7
  <1> QED
    BY <1>6, <1>7 DEF UsesInv

LEMMA UsesStep ==
  ASSUME TypeOK, UsesInv, [Next]_vars
  PROVE  UsesInv'
  <1>1. GrantsOK
    BY TypeParts
  <1>2. ASSUME NEW r \in Request, NEW g \in Grant, Consume(r, g)
        PROVE  UsesInv'
    BY <1>1, <1>2, UseIsMarked
  <1>3. ASSUME NEW g \in Grant, NEW t \in {"edge", "wyv"}, NEW p \in Person, CreateGrant(g, t, p)
        PROVE  UsesInv'
    <2>1. /\ UNCHANGED <<mark, uses>> /\ uses[g] = <<>>
          /\ \A x \in Grant \ {g} : type'[x] = type[x] /\ expires'[x] = expires[x]
      BY <1>1, <1>3 DEF CreateGrant, UsesInv, GrantsOK
    <2>2. Len(uses[g]) = 0
      BY <2>1
    <2> QED
      BY <2>1, <2>2 DEF UsesInv
  <1>4. CASE UNCHANGED <<type, expires, mark, uses>>
    BY <1>4 DEF UsesInv
  <1>5. ASSUME NEW r \in Request, RequestStep(r)
        PROVE  UNCHANGED <<type, expires, mark, uses>> \/ \E g \in Grant : Consume(r, g)
    BY <1>5 DEF RequestStep, ReadAddress, Register, ReadToken, Refresh, Logout, LogoutSpent,
                Find, Exchange, AnswerWyv, ReadApi, Revoke, Rotate, Fail, grants
  <1>6. \/ UNCHANGED <<type, expires, mark, uses>>
        \/ \E r \in Request, g \in Grant : Consume(r, g)
        \/ \E g \in Grant, t \in {"edge", "wyv"}, p \in Person : CreateGrant(g, t, p)
    BY <1>5 DEF Next, vars, grants, Login, CreateToken, Replicate, Expire, Tick
  <1> QED
    BY <1>2, <1>3, <1>4, <1>6

-----------------------------------------------------------------------------
IInv == TypeOK /\ SessionSafe /\ ApiSafe /\ GrantSafe /\ UsesInv

LEMMA InvInit ==
  ASSUME Init
  PROVE  IInv
  <1>1. SessionSafe
    BY DEF Init, SessionSafe, FamilyInv, SessionInv, SessionsDoNotFork, LogoutEndsSession,
           Session, SessionOp
  <1>2. ApiSafe
    BY DEF Init, ApiSafe, ApiInv, SweptInv, RevokeAllLeavesNone, Api, ApiOp
  <1>3. GrantSafe
    BY DEF Init, GrantSafe, GrantInv, FoundInv, LostGrantsWereContested
  <1>4. UsesInv
    BY DEF Init, UsesInv
  <1> QED
    BY <1>1, <1>2, <1>3, <1>4, TypeInit DEF IInv

LEMMA InvStep ==
  ASSUME IInv, [Next]_vars
  PROVE  IInv'
  BY TypeStep, SessionStep, TokenStep, GrantStep, UsesStep DEF IInv, ApiSafe

LEMMA Invariant == Spec => []IInv
  BY InvInit, InvStep, PTL DEF Spec

(* Every variable has its type in every reachable state.                    *)
THEOREM TypeCorrect == Spec => []TypeOK
  BY Invariant, PTL DEF IInv

(* However requests overlap: a session about which no two did has one live  *)
(* refresh token (refresh_tokens).                                          *)
THEOREM Sessions == Spec => []SessionsDoNotFork
  <1>1. IInv => SessionsDoNotFork
    BY DEF IInv, SessionSafe
  <1> QED
    BY <1>1, Invariant, PTL

(* A session about which no two requests overlapped is over after a logout  *)
(* with its live refresh token (logout); one with a token that is revoked   *)
(* already may leave its successor live.                                    *)
THEOREM Logouts == Spec => []LogoutEndsSession
  <1>1. IInv => LogoutEndsSession
    BY DEF IInv, SessionSafe
  <1> QED
    BY <1>1, Invariant, PTL

(* A grant is used once, but perhaps again in the second it expires in      *)
(* (consume_edge_handoff_grant, consume_wyv_handoff_grant), whatever its    *)
(* time to live, the time a mark is kept and the order of the requests.     *)
THEOREM GrantUses == Spec => []GrantsAreUsedOnce
  <1>1. ASSUME TypeOK, UsesInv
        PROVE  GrantsAreUsedOnce
    <2>1. SUFFICES ASSUME NEW g \in Grant, NEW i \in 2 .. Len(uses[g])
                   PROVE  i = 2 /\ uses[g][i] = expires[g]
      BY DEF GrantsAreUsedOnce
    <2> DEFINE n == Len(uses[g])
    <2>2. n \in 0 .. 2
      BY <1>1 DEF UsesInv
    <2> HIDE DEF n
    <2>3. i = 2 /\ n = 2
      <3>1. i \in 2 .. n
        BY DEF n
      <3> QED
        BY <2>2, <3>1
    <2> USE DEF n
    <2> QED
      BY <1>1, <2>3 DEF UsesInv
  <1> QED
    BY <1>1, Invariant, PTL DEF IInv

(* An exchange that the unique constraints refuse was overtaken, or its     *)
(* subject's name was taken before (edge_exchange).                         *)
THEOREM LostGrants == Spec => []LostGrantsWereContested
  <1>1. IInv => LostGrantsWereContested
    BY DEF IInv, GrantSafe
  <1> QED
    BY <1>1, Invariant, PTL

(* After a "revoke all" that no request about the person's tokens           *)
(* overlapped, none is live until one is made (revoke_all_api_tokens).      *)
THEOREM RevokeAll == Spec => []RevokeAllLeavesNone
  <1>1. IInv => RevokeAllLeavesNone
    BY DEF IInv, ApiSafe
  <1> QED
    BY <1>1, Invariant, PTL

-----------------------------------------------------------------------------
(* The MCP server: the inductive invariant                                                  *)

(* What is true of a request at each of its stages: nobody is its principal *)
(* before the tool begins; from then on what the principal can read is      *)
(* among what he could read at some time, and so are the channels that were *)
(* looked up; nothing is shown before the answer.                           *)
CallInv(r) ==
    /\ at[r] \in {"idle", "mounted"} => principal[r] = NoUser
    /\ at[r] = "mounted" => tool[r] \in {"search", "fetch"}
    /\ at[r] = "mounted" /\ tool[r] = "fetch" => wanted[r] \in Document
    /\ at[r] = "access" => wanted[r] \in Document
    /\ at[r] \in {"channels", "documents", "access"} =>
          principal[r] \in legal /\ Reads(principal[r]) \subseteq reached[r]
    /\ at[r] = "documents" => lookup[r] \subseteq reached[r]
    /\ at[r] # "answered" => shown[r] = {}
    /\ \A d \in shown[r] :
          Home[d] \in reached[r] /\ Owner[d] \in {NoUser, principal[r]} /\ principal[r] \in legal

(* Requests that are in the process together have met; one that met no      *)
(* other finds its own caller noted.                                        *)
NoteInv ==
    /\ \A r, q \in Call : r # q /\ Mounted(r) /\ Mounted(q) => r \in crossed
    /\ \A r \in Call : Mounted(r) /\ r \notin crossed => current = caller[r]
    /\ UncrossedAnswersAreTheCallers

(* Who was answered is stored; who got tokens can refresh them.             *)
ConnectionInv == told \subseteq stored /\ connected \subseteq refresh

McpInv ==
    /\ McpTypeOK
    /\ ConnectionInv
    /\ \A r \in Call : CallInv(r)
    /\ NoteInv

LEMMA InitInv == McpInit => McpInv
<1> SUFFICES ASSUME McpInit PROVE McpInv
    OBVIOUS
<1>1. McpTypeOK
    BY DEF McpInit, McpTypeOK, Stage
<1>2. ConnectionInv
    BY DEF McpInit, ConnectionInv
<1>3. \A r \in Call : CallInv(r)
    BY DEF McpInit, CallInv
<1>4. NoteInv
    BY DEF McpInit, NoteInv, Mounted, UncrossedAnswersAreTheCallers
<1> QED
    BY <1>1, <1>2, <1>3, <1>4 DEF McpInv

-----------------------------------------------------------------------------
(* Clients, tokens and data                                                 *)

(* A step that leaves the requests and the data alone.                      *)
LEMMA CallsRest ==
    ASSUME McpInv, UNCHANGED <<data, current, at, fixed, work, crossed, reached>>
    PROVE  (\A r \in Call : CallInv(r)') /\ NoteInv'
<1>1. UNCHANGED <<legal, member, current, at, tool, caller, previous, wanted,
                  principal, lookup, shown, crossed, reached>>
    BY DEF data, fixed, work
<1>2. \A r \in Call : CallInv(r)'
    BY <1>1 DEF McpInv, CallInv, Reads
<1>3. NoteInv'
    BY <1>1 DEF McpInv, NoteInv, Mounted, UncrossedAnswersAreTheCallers
<1> QED
    BY <1>2, <1>3

LEMMA ClientInv ==
    ASSUME McpInv, NEW c \in Client, ClientStep(c)
    PROVE  McpInv'
<1>1. UNCHANGED <<data, current, at, fixed, work, crossed, reached>>
    BY DEF ClientStep, RegisterClient, PersistClient,
           PersistFails, Authorize,
           ExchangeRefresh, ExpireToken
<1>2. /\ stored' \subseteq Client /\ cached' \subseteq Client
      /\ pending' \subseteq Client /\ told' \subseteq Client
      /\ told' \subseteq stored'
    BY DEF McpInv, McpTypeOK, ConnectionInv, ClientStep, RegisterClient, PersistClient,
           PersistFails, Persisted, Authorize, ExchangeRefresh, GetClient, ExpireToken, clients
<1> DEFINE TokensOK == /\ access' \subseteq Client \X User
                       /\ refresh' \subseteq Client \X User /\ connected' \subseteq Client \X User
                       /\ connected' \subseteq refresh'
<1>3. TokensOK
    <2>1. CASE UNCHANGED tokens
        BY <2>1 DEF McpInv, McpTypeOK, ConnectionInv, tokens
    <2>2. ASSUME NEW u \in User, Authorize(c, u) PROVE TokensOK
        BY <2>2 DEF Authorize, Issue, McpInv, McpTypeOK, ConnectionInv
    <2>3. ASSUME NEW u \in User, NEW answered \in BOOLEAN, ExchangeRefresh(c, u, answered)
          PROVE  TokensOK
        BY <2>3 DEF ExchangeRefresh, Used, McpInv, McpTypeOK, ConnectionInv
    <2>4. ASSUME NEW u \in User, ExpireToken(<<c, u>>) PROVE TokensOK
        BY <2>4 DEF ExpireToken, McpInv, McpTypeOK, ConnectionInv
    <2> QED
        BY <2>1, <2>2, <2>3, <2>4 DEF ClientStep, RegisterClient, PersistClient, PersistFails
<1>4. McpTypeOK'
    BY <1>1, <1>2, <1>3 DEF McpInv, McpTypeOK, data, fixed, work
<1> QED
    BY <1>1, <1>2, <1>3, <1>4, CallsRest DEF McpInv, ConnectionInv

(* What u can read after he joined or left a channel.                       *)
LEMMA JoinInv ==
    ASSUME McpInv, NEW u \in User, NEW c \in Text, Join(u, c)
    PROVE  McpInv'
<1>1. McpTypeOK /\ c \in Channel
    BY DEF McpInv, Channel
<1>2. UNCHANGED <<clients, tokens, legal, current, at, fixed, work, crossed>>
    BY DEF Join
<1>3. reached' = [r \in Call |-> IF principal[r] = u /\ at[r] # "answered"
                                    THEN reached[r] \cup {c} ELSE reached[r]]
    BY DEF Join
<1>4. McpTypeOK'
    <2>1. member' \subseteq User \X Text
        BY <1>1 DEF Join, McpTypeOK
    <2>2. reached' \in [Call -> SUBSET Channel]
        BY <1>1, <1>3 DEF McpTypeOK
    <2> QED
        BY <1>1, <1>2, <2>1, <2>2 DEF McpTypeOK, clients, tokens, fixed, work
<1>5. ASSUME NEW r \in Call PROVE CallInv(r)'
    <2>1. CallInv(r) /\ reached[r] \subseteq reached'[r]
        BY <1>3 DEF McpInv
    <2>2. at[r] \in {"channels", "documents", "access"}
             => Reads(principal[r])' \subseteq reached'[r]
        <3> SUFFICES ASSUME at[r] \in {"channels", "documents", "access"}
                     PROVE  Reads(principal[r])' \subseteq reached'[r]
            OBVIOUS
        <3>1. Reads(principal[r]) \subseteq reached[r] /\ principal' = principal
            BY <1>2, <2>1 DEF CallInv, work
        <3>2. CASE principal[r] = u
            <4>1. reached'[r] = reached[r] \cup {c}
                BY <1>3, <3>2
            <4>2. Reads(principal[r])' \subseteq Reads(principal[r]) \cup {c}
                BY <3>1, <3>2 DEF Reads, Join
            <4> QED
                BY <3>1, <4>1, <4>2
        <3>3. CASE principal[r] # u
            <4>1. Reads(principal[r])' \subseteq Reads(principal[r])
                BY <3>1, <3>3 DEF Reads, Join
            <4> QED
                BY <2>1, <3>1, <4>1
        <3> QED
            BY <3>2, <3>3
    <2> QED
        BY <1>2, <2>1, <2>2 DEF CallInv, fixed, work
<1>6. NoteInv'
    BY <1>2 DEF McpInv, NoteInv, Mounted, UncrossedAnswersAreTheCallers, fixed, work
<1>7. ConnectionInv'
    BY <1>2 DEF McpInv, ConnectionInv, clients, tokens
<1> QED
    BY <1>4, <1>5, <1>6, <1>7 DEF McpInv

LEMMA DataInv ==
    ASSUME McpInv, NEW u \in User, AcceptTerms(u) \/ \E c \in Text : Leave(u, c)
    PROVE  McpInv'
<1>1. /\ UNCHANGED <<clients, tokens, current, at, fixed, work, crossed, reached>>
      /\ member' \subseteq member
      /\ legal \subseteq legal' /\ legal' \subseteq User
    BY DEF AcceptTerms, Leave, McpInv, McpTypeOK
<1>2. McpTypeOK'
    BY <1>1 DEF McpInv, McpTypeOK, clients, tokens, fixed, work
<1>3. ASSUME NEW r \in Call PROVE CallInv(r)'
    <2>1. Reads(principal[r])' \subseteq Reads(principal[r])
        BY <1>1 DEF Reads, work
    <2> QED
        BY <1>1, <2>1 DEF McpInv, CallInv, fixed, work
<1>4. NoteInv'
    BY <1>1 DEF McpInv, NoteInv, Mounted, UncrossedAnswersAreTheCallers, fixed, work
<1>5. ConnectionInv'
    BY <1>1 DEF McpInv, ConnectionInv, clients, tokens
<1> QED
    BY <1>2, <1>3, <1>4, <1>5 DEF McpInv

-----------------------------------------------------------------------------
(* Requests                                                                 *)

(* A request that another one's step leaves alone.                          *)
LEMMA OtherRests ==
    ASSUME NEW q \in Call, CallInv(q), UNCHANGED data,
           at'[q] = at[q], tool'[q] = tool[q], wanted'[q] = wanted[q],
           principal'[q] = principal[q], lookup'[q] = lookup[q], shown'[q] = shown[q],
           reached'[q] = reached[q]
    PROVE  CallInv(q)'
BY DEF CallInv, Reads, data

LEMMA ReadsChannels == McpTypeOK => \A u \in User : Reads(u) \subseteq Channel
BY DEF McpTypeOK, Reads, Channel

LEMMA MountInv ==
    ASSUME McpInv, NEW r \in Call, NEW c \in Client, NEW u \in User, NEW o \in {"search", "fetch"},
           NEW d \in Document \cup {NoDocument}, o = "fetch" => d \in Document, Mount(r, c, u, o, d)
    PROVE  McpInv'
<1>1. McpTypeOK /\ NoteInv /\ CallInv(r) /\ at[r] = "idle"
    BY DEF McpInv, Mount
<1>2. /\ current' = u
      /\ previous' = [previous EXCEPT ![r] = current]
      /\ caller' = [caller EXCEPT ![r] = u]
      /\ tool' = [tool EXCEPT ![r] = o]
      /\ wanted' = [wanted EXCEPT ![r] = d]
      /\ at' = [at EXCEPT ![r] = "mounted"]
      /\ UNCHANGED <<clients, tokens, data, work, reached>>
    BY DEF Mount, Goto
<1>3. crossed' = IF \E q \in Call : Mounted(q)
                 THEN crossed \cup {q \in Call : Mounted(q)} \cup {r} ELSE crossed
    BY DEF Mount
<1>4. McpTypeOK'
    <2>1. crossed' \subseteq Call
        BY <1>1, <1>3 DEF McpTypeOK
    <2> QED
        BY <1>1, <1>2, <2>1 DEF McpTypeOK, Stage, clients, tokens, data, work
<1>5. ASSUME NEW q \in Call PROVE CallInv(q)'
    <2>1. CASE q = r
        BY <1>1, <1>2, <2>1 DEF McpTypeOK, CallInv, work, data
    <2>2. CASE q # r
        BY <1>1, <1>2, <2>2, OtherRests DEF McpInv, McpTypeOK, work, data
    <2> QED
        BY <2>1, <2>2
<1>6. \A q \in Call : Mounted(q)' <=> q = r \/ Mounted(q)
    BY <1>1, <1>2 DEF McpTypeOK, Mounted
<1>7. ~Mounted(r)
    BY <1>1 DEF Mounted
<1>8. \A q, p \in Call : q # p /\ Mounted(q)' /\ Mounted(p)' => q \in crossed'
    BY <1>1, <1>3, <1>6, <1>7 DEF NoteInv
<1>9. \A q \in Call : Mounted(q)' /\ q \notin crossed' => q = r
    BY <1>3, <1>6
<1>10. caller'[r] = u /\ \A q \in Call : q # r => caller'[q] = caller[q]
    BY <1>1, <1>2 DEF McpTypeOK
<1>11. UncrossedAnswersAreTheCallers'
    <2>1. principal' = principal /\ principal[r] = NoUser /\ crossed \subseteq crossed'
        BY <1>1, <1>2, <1>3 DEF CallInv, work
    <2> QED
        BY <1>1, <1>10, <2>1 DEF NoteInv, UncrossedAnswersAreTheCallers
<1>12. NoteInv'
    BY <1>2, <1>8, <1>9, <1>10, <1>11 DEF NoteInv
<1> QED
    BY <1>2, <1>4, <1>5, <1>12 DEF McpInv, ConnectionInv, clients, tokens

(* A tool or a link of u begins.                                            *)
LEMMA BeginEffect ==
    ASSUME McpTypeOK, NEW r \in Call, NEW u \in User, NEW o, Begin(r, u, o)
    PROVE  /\ u \in legal
           /\ principal' = [principal EXCEPT ![r] = u]
           /\ reached' = [reached EXCEPT ![r] = Reads(u)]
           /\ at' = [at EXCEPT ![r] = IF o = "search" THEN "channels" ELSE "access"]
           /\ principal' \in [Call -> User \cup {NoUser}]
           /\ reached' \in [Call -> SUBSET Channel]
           /\ at' \in [Call -> Stage]
<1>1. Reads(u) \subseteq Channel
    BY ReadsChannels
<1>2. /\ u \in legal
      /\ principal' = [principal EXCEPT ![r] = u]
      /\ reached' = [reached EXCEPT ![r] = Reads(u)]
      /\ at' = [at EXCEPT ![r] = IF o = "search" THEN "channels" ELSE "access"]
    BY DEF Begin, Goto
<1> QED
    BY <1>1, <1>2 DEF McpTypeOK, Stage

LEMMA CallToolInv ==
    ASSUME McpInv, NEW r \in Call, CallTool(r)
    PROVE  McpInv'
<1>1. McpTypeOK /\ NoteInv /\ CallInv(r) /\ at[r] = "mounted" /\ current \in User
    BY DEF McpInv, CallTool, Acting, McpTypeOK
<1>2. /\ Begin(r, current, tool[r])
      /\ UNCHANGED <<clients, tokens, data, current, fixed, lookup, shown, crossed>>
    BY DEF CallTool, Acting
<1>3. /\ current \in legal
      /\ principal' = [principal EXCEPT ![r] = current]
      /\ reached' = [reached EXCEPT ![r] = Reads(current)]
      /\ at' = [at EXCEPT ![r] = IF tool[r] = "search" THEN "channels" ELSE "access"]
      /\ principal' \in [Call -> User \cup {NoUser}]
      /\ reached' \in [Call -> SUBSET Channel]
      /\ at' \in [Call -> Stage]
    BY <1>1, <1>2, BeginEffect
<1>4. McpTypeOK'
    BY <1>1, <1>2, <1>3 DEF McpTypeOK, clients, tokens, data, fixed
<1>5. ASSUME NEW q \in Call PROVE CallInv(q)'
    <2>1. CASE q = r
        <3>1. /\ principal'[r] = current /\ reached'[r] = Reads(current)
              /\ at'[r] = IF tool[r] = "search" THEN "channels" ELSE "access"
            BY <1>1, <1>3 DEF McpTypeOK
        <3>2. Reads(current)' = Reads(current)
            BY <1>2 DEF Reads, data
        <3> QED
            BY <1>1, <1>2, <1>3, <2>1, <3>1, <3>2 DEF CallInv, fixed, data
    <2>2. CASE q # r
        BY <1>1, <1>2, <1>3, <2>2, OtherRests DEF McpInv, McpTypeOK, fixed
    <2> QED
        BY <2>1, <2>2
<1>6. \A q \in Call : Mounted(q)' <=> Mounted(q)
    BY <1>1, <1>2, <1>3 DEF McpTypeOK, Mounted, fixed
<1>7. Mounted(r)
    BY <1>1 DEF Mounted, CallInv
<1>8. UncrossedAnswersAreTheCallers'
    <2>1. r \notin crossed => current = caller[r]
        BY <1>1, <1>7 DEF NoteInv
    <2>2. \A q \in Call : principal'[q] = IF q = r THEN current ELSE principal[q]
        BY <1>1, <1>3 DEF McpTypeOK
    <2> QED
        BY <1>1, <1>2, <2>1, <2>2 DEF NoteInv, UncrossedAnswersAreTheCallers, fixed
<1>9. NoteInv'
    BY <1>1, <1>2, <1>6, <1>8 DEF NoteInv, fixed
<1> QED
    BY <1>2, <1>4, <1>5, <1>9 DEF McpInv, ConnectionInv, clients, tokens

LEMMA OpenLinkInv ==
    ASSUME McpInv, NEW r \in Call, NEW u \in User, NEW d \in Document, OpenLink(r, <<u, d>>)
    PROVE  McpInv'
<1>1. McpTypeOK /\ NoteInv /\ CallInv(r) /\ at[r] = "idle"
    BY DEF McpInv, OpenLink
<1>2. /\ tool' = [tool EXCEPT ![r] = "link"]
      /\ caller' = [caller EXCEPT ![r] = u]
      /\ wanted' = [wanted EXCEPT ![r] = d]
      /\ Begin(r, u, "link")
      /\ UNCHANGED <<clients, tokens, data, current, previous, lookup, shown, crossed>>
    BY DEF OpenLink
<1>3. /\ u \in legal
      /\ principal' = [principal EXCEPT ![r] = u]
      /\ reached' = [reached EXCEPT ![r] = Reads(u)]
      /\ at' = [at EXCEPT ![r] = "access"]
      /\ principal' \in [Call -> User \cup {NoUser}]
      /\ reached' \in [Call -> SUBSET Channel]
      /\ at' \in [Call -> Stage]
    BY <1>1, <1>2, BeginEffect
<1>4. McpTypeOK'
    BY <1>1, <1>2, <1>3 DEF McpTypeOK, clients, tokens, data
<1>5. ASSUME NEW q \in Call PROVE CallInv(q)'
    <2>1. CASE q = r
        <3>1. /\ principal'[r] = u /\ reached'[r] = Reads(u) /\ at'[r] = "access"
              /\ wanted'[r] = d
            BY <1>1, <1>2, <1>3 DEF McpTypeOK
        <3>2. Reads(u)' = Reads(u)
            BY <1>2 DEF Reads, data
        <3> QED
            BY <1>1, <1>2, <1>3, <2>1, <3>1, <3>2 DEF CallInv, data
    <2>2. CASE q # r
        BY <1>1, <1>2, <1>3, <2>2, OtherRests DEF McpInv, McpTypeOK
    <2> QED
        BY <2>1, <2>2
<1>6. \A q \in Call : Mounted(q)' <=> Mounted(q)
    BY <1>1, <1>2, <1>3 DEF McpTypeOK, Mounted
<1>7. ~Mounted(r) /\ \A q \in Call : q # r => caller'[q] = caller[q]
    BY <1>1, <1>2 DEF McpTypeOK, Mounted
<1>8. UncrossedAnswersAreTheCallers'
    BY <1>1, <1>2, <1>3 DEF McpTypeOK, NoteInv, UncrossedAnswersAreTheCallers
<1>9. NoteInv'
    BY <1>1, <1>2, <1>6, <1>7, <1>8 DEF NoteInv
<1> QED
    BY <1>2, <1>4, <1>5, <1>9 DEF McpInv, ConnectionInv, clients, tokens

(* A request that goes on, its caller and its principal known.              *)
LEMMA GoingOn ==
    ASSUME McpInv, NEW r \in Call, NEW s \in Stage, at[r] \notin {"idle", "mounted"},
           s \notin {"idle", "mounted"}, Goto(r, s),
           UNCHANGED <<clients, tokens, data, current, fixed, principal, crossed, reached>>,
           lookup' \in [Call -> SUBSET Channel], shown' \in [Call -> SUBSET Document],
           \A q \in Call : q # r => lookup'[q] = lookup[q] /\ shown'[q] = shown[q],
           CallInv(r)'
    PROVE  McpInv'
<1>1. McpTypeOK /\ at' = [at EXCEPT ![r] = s]
    BY DEF McpInv, Goto
<1>2. McpTypeOK'
    BY <1>1 DEF McpTypeOK, clients, tokens, data, fixed
<1>3. ASSUME NEW q \in Call PROVE CallInv(q)'
    BY <1>1, OtherRests DEF McpInv, McpTypeOK, fixed
<1>4. \A q \in Call : Mounted(q)' <=> Mounted(q)
    BY <1>1 DEF McpTypeOK, Mounted, fixed
<1>5. NoteInv'
    BY <1>4 DEF McpInv, NoteInv, UncrossedAnswersAreTheCallers, fixed
<1> QED
    BY <1>2, <1>3, <1>5 DEF McpInv, ConnectionInv, clients, tokens

LEMMA LookUpInv ==
    ASSUME McpInv, NEW r \in Call, LookUp(r)
    PROVE  McpInv'
<1>1. McpTypeOK /\ CallInv(r) /\ at[r] = "channels"
    BY DEF McpInv, LookUp
<1>2. /\ lookup' = [lookup EXCEPT ![r] = Reads(principal[r])]
      /\ Goto(r, "documents")
      /\ UNCHANGED <<clients, tokens, data, current, fixed, principal, shown, crossed, reached>>
    BY DEF LookUp
<1>3. principal[r] \in User /\ Reads(principal[r]) \subseteq Channel
    BY <1>1, ReadsChannels DEF McpTypeOK, CallInv
<1>4. lookup' \in [Call -> SUBSET Channel] /\ lookup'[r] = Reads(principal[r])
    BY <1>1, <1>2, <1>3 DEF McpTypeOK
<1>5. CallInv(r)'
    <2>1. at'[r] = "documents" /\ Reads(principal[r])' = Reads(principal[r])
        BY <1>1, <1>2 DEF Goto, McpTypeOK, Reads, data
    <2> QED
        BY <1>1, <1>2, <1>4, <2>1 DEF CallInv, fixed, data
<1> QED
    BY <1>1, <1>2, <1>4, <1>5, GoingOn DEF Stage, McpTypeOK

LEMMA SearchInv ==
    ASSUME McpInv, NEW r \in Call, Search(r)
    PROVE  McpInv'
<1>1. McpTypeOK /\ CallInv(r) /\ at[r] = "documents"
    BY DEF McpInv, Search
<1>2. PICK S \in SUBSET (WorkspaceHits(r) \cup MessageHits(r)) : shown' = [shown EXCEPT ![r] = S]
    BY DEF Search
<1>3. /\ Goto(r, "answered")
      /\ UNCHANGED <<clients, tokens, data, current, fixed, principal, lookup, crossed, reached>>
    BY DEF Search
<1>4. /\ S \subseteq Document
      /\ \A d \in S : Home[d] \in lookup[r] /\ Owner[d] \in {NoUser, principal[r]}
    BY <1>2, DataAssumption DEF WorkspaceHits, MessageHits, Document
<1>5. shown' \in [Call -> SUBSET Document] /\ shown'[r] = S
    BY <1>1, <1>2, <1>4 DEF McpTypeOK
<1>6. CallInv(r)'
    <2>1. at'[r] = "answered"
        BY <1>1, <1>3 DEF Goto, McpTypeOK
    <2> QED
        BY <1>1, <1>3, <1>4, <1>5, <2>1 DEF CallInv, fixed, data
<1> QED
    BY <1>1, <1>2, <1>3, <1>5, <1>6, GoingOn DEF Stage, McpTypeOK

LEMMA FetchInv ==
    ASSUME McpInv, NEW r \in Call, Fetch(r)
    PROVE  McpInv'
<1>1. McpTypeOK /\ CallInv(r) /\ at[r] = "access" /\ wanted[r] \in Document
    BY DEF McpInv, Fetch, CallInv
<1>2. /\ shown' = [shown EXCEPT ![r] = {wanted[r]}]
      /\ Goto(r, "answered")
      /\ UNCHANGED <<clients, tokens, data, current, fixed, principal, lookup, crossed, reached>>
    BY DEF Fetch
<1>3. Home[wanted[r]] \in Reads(principal[r]) /\ Owner[wanted[r]] \in {NoUser, principal[r]}
    <2>1. CASE wanted[r] \in Message
        BY <1>1, <2>1, DataAssumption DEF Fetch, MayFetchMessage, Accessible
    <2>2. CASE wanted[r] \notin Message
        BY <2>2 DEF Fetch, MayFetchWorkspace, Accessible
    <2> QED
        BY <2>1, <2>2
<1>4. shown' \in [Call -> SUBSET Document] /\ shown'[r] = {wanted[r]}
    BY <1>1, <1>2 DEF McpTypeOK
<1>5. CallInv(r)'
    <2>1. at'[r] = "answered"
        BY <1>1, <1>2 DEF Goto, McpTypeOK
    <2> QED
        BY <1>1, <1>2, <1>3, <1>4, <2>1 DEF CallInv, fixed, data
<1> QED
    BY <1>1, <1>2, <1>4, <1>5, GoingOn DEF Stage, McpTypeOK

(* A request that is over.                                                  *)
LEMMA IdleCall ==
    ASSUME NEW r, at'[r] = "idle", principal'[r] = NoUser, shown'[r] = {}
    PROVE  CallInv(r)'
BY DEF CallInv

LEMMA ReturnInv ==
    ASSUME McpInv, NEW r \in Call, Return(r)
    PROVE  McpInv'
<1>1. McpTypeOK /\ NoteInv
    BY DEF McpInv
<1>2. /\ current' = IF Mounted(r) THEN previous[r] ELSE current
      /\ at' = [at EXCEPT ![r] = "idle"]
      /\ tool' = [tool EXCEPT ![r] = "none"]
      /\ caller' = [caller EXCEPT ![r] = NoUser]
      /\ previous' = [previous EXCEPT ![r] = NoUser]
      /\ wanted' = [wanted EXCEPT ![r] = NoDocument]
      /\ principal' = [principal EXCEPT ![r] = NoUser]
      /\ lookup' = [lookup EXCEPT ![r] = {}]
      /\ shown' = [shown EXCEPT ![r] = {}]
      /\ reached' = [reached EXCEPT ![r] = {}]
      /\ crossed' = crossed \ {r}
      /\ UNCHANGED <<clients, tokens, data>>
    BY DEF Return, Goto
<1>3. McpTypeOK'
    BY <1>1, <1>2 DEF McpTypeOK, Stage, clients, tokens, data
<1>4. ASSUME NEW q \in Call PROVE CallInv(q)'
    <2>1. CASE q = r
        BY <1>1, <1>2, <2>1, IdleCall DEF McpTypeOK
    <2>2. CASE q # r
        BY <1>1, <1>2, <2>2, OtherRests DEF McpInv, McpTypeOK
    <2> QED
        BY <2>1, <2>2
<1>5. /\ \A q \in Call : Mounted(q)' <=> q # r /\ Mounted(q)
      /\ \A q \in Call : q # r => caller'[q] = caller[q] /\ principal'[q] = principal[q]
      /\ principal'[r] = NoUser
    BY <1>1, <1>2 DEF McpTypeOK, Mounted
<1>6. \A q, p \in Call : q # p /\ Mounted(q)' /\ Mounted(p)' => q \in crossed'
    BY <1>1, <1>2, <1>5 DEF NoteInv
<1>7. \A q \in Call : Mounted(q)' /\ q \notin crossed' => current' = caller'[q]
    BY <1>1, <1>2, <1>5 DEF NoteInv
<1>8. UncrossedAnswersAreTheCallers'
    BY <1>1, <1>2, <1>5 DEF NoteInv, UncrossedAnswersAreTheCallers
<1>9. NoteInv'
    BY <1>6, <1>7, <1>8 DEF NoteInv
<1> QED
    BY <1>2, <1>3, <1>4, <1>9 DEF McpInv, ConnectionInv, clients, tokens

LEMMA RestartInv ==
    ASSUME McpInv, Restart
    PROVE  McpInv'
<1>1. McpTypeOK'
    BY DEF McpInv, Restart, McpTypeOK, Stage, tokens
<1>2. \A r \in Call : CallInv(r)'
    BY IdleCall DEF Restart
<1>3. NoteInv'
    BY DEF Restart, NoteInv, Mounted, UncrossedAnswersAreTheCallers
<1>4. ConnectionInv'
    BY DEF McpInv, Restart, ConnectionInv, tokens
<1> QED
    BY <1>1, <1>2, <1>3, <1>4 DEF McpInv

LEMMA CallStepInv ==
    ASSUME McpInv, NEW r \in Call, CallStep(r)
    PROVE  McpInv'
<1>1. ASSUME NEW c \in Client, NEW u \in User,
             Mount(r, c, u, "search", NoDocument) \/ \E d \in Document : Mount(r, c, u, "fetch", d)
      PROVE  McpInv'
    BY <1>1, MountInv
<1>2. ASSUME NEW ticket \in Ticket, OpenLink(r, ticket)
      PROVE  McpInv'
    <2>1. PICK u \in User, d \in Document : ticket = <<u, d>>
        BY DEF Ticket
    <2> QED
        BY <1>2, <2>1, OpenLinkInv
<1> QED
    BY <1>1, <1>2, CallToolInv, LookUpInv, SearchInv, FetchInv, ReturnInv DEF CallStep

LEMMA NextInv == McpInv /\ [McpNext]_mcpVars => McpInv'
<1> SUFFICES ASSUME McpInv, [McpNext]_mcpVars PROVE McpInv'
    OBVIOUS
<1>1. CASE UNCHANGED mcpVars
    <2>1. UNCHANGED <<clients, tokens, data, current, at, fixed, work, crossed, reached>>
        BY <1>1 DEF mcpVars
    <2>2. McpTypeOK' /\ ConnectionInv'
        BY <2>1 DEF McpInv, McpTypeOK, ConnectionInv, clients, tokens, data, fixed, work
    <2> QED
        BY <2>1, <2>2, CallsRest DEF McpInv
<1>2. CASE McpNext
    BY <1>2, ClientInv, CallStepInv, JoinInv, DataInv, RestartInv DEF McpNext
<1> QED
    BY <1>1, <1>2

-----------------------------------------------------------------------------
(* The invariants                                                           *)

THEOREM Invariance == McpSpec => []McpInv
<1>1. McpInit => McpInv
    BY InitInv
<1>2. McpInv /\ [McpNext]_mcpVars => McpInv'
    BY NextInv
<1> QED
    BY <1>1, <1>2, PTL DEF McpSpec

(* Every variable keeps its type.                                           *)
THEOREM McpTypeCorrect == McpSpec => []McpTypeOK
<1>1. McpInv => McpTypeOK
    BY DEF McpInv
<1> QED
    BY <1>1, Invariance, PTL

(* A tool works for the person whose token came with its request, unless    *)
(* the request met another one in the process.                              *)
THEOREM CallersAnswered == McpSpec => []UncrossedAnswersAreTheCallers
<1>1. McpInv => UncrossedAnswersAreTheCallers
    BY DEF McpInv, NoteInv
<1> QED
    BY <1>1, Invariance, PTL

(* A tool or a link shows its principal only what he may see, whatever      *)
(* changes between its statements.                                          *)
THEOREM Permitted == McpSpec => []ShownIsPermitted
<1>1. McpInv => ShownIsPermitted
    BY DEF McpInv, CallInv, ShownIsPermitted
<1> QED
    BY <1>1, Invariance, PTL

(* A client that was answered stays known, and one that got tokens can      *)
(* refresh them, after restarts and lost answers.                           *)
THEOREM ConnectionsLast == McpSpec => []ConnectionsOutlastFaults
<1>1. McpInv => ConnectionsOutlastFaults
    BY DEF McpInv, ConnectionInv, ConnectionsOutlastFaults, KnownClient
<1> QED
    BY <1>1, Invariance, PTL
=============================================================================
