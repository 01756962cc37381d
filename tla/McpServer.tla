------------------------------ MODULE McpServer ------------------------------
(***************************************************************************)
(* The MCP server of a node (app/services/mcp_server.py): clients that     *)
(* register, persons who connect them, and the two tools, search and       *)
(* fetch, by which a client reads a person's messages and workspaces.      *)
(*                                                                         *)
(* Who a tool works for is kept in one variable of the process, set when a *)
(* request enters and put back when it leaves; between any two awaits      *)
(* other requests run.  Each statement of a tool is a step and sees what   *)
(* is committed by then.                                                   *)
(*                                                                         *)
(* What is abstracted.                                                     *)
(*  - Codes and tokens are signed and not stored.  Of an authorization the *)
(*    model keeps whether its client holds an access and a refresh token   *)
(*    that have not run out; they say whose they are.                      *)
(*  - A client known by the URL of its metadata is looked up elsewhere and *)
(*    needs no registration: it is left out.                               *)
(*  - The query and the limit of a search, and which documents have a row: *)
(*    a search shows some of what it may, and a fetch may find nothing.    *)
(*  - A link shows its document to the person it was made for.  Links run  *)
(*    out, and which were ever made is not kept: any may be opened.        *)
(***************************************************************************)
EXTENDS Naturals

CONSTANTS
    Client, User,
    Call,          \* the requests at work at one time (bound)
    Text, Dm,      \* channels: of the server, and between persons
    Participant,   \* the persons of each direct message
    Message, Workspace,
    Home,          \* the channel a message or workspace is in
    Owner,         \* of a private workspace, else NoUser
    NoUser, NoDocument

Document == Message \cup Workspace
Channel  == Text \cup Dm
Ticket   == User \X Document      \* what the link to a document says

ASSUME McpNullAssumption == NoUser \notin User /\ NoDocument \notin Document
ASSUME DataAssumption ==
    /\ Message \cap Workspace = {} /\ Text \cap Dm = {}
    /\ Participant \in [Dm -> SUBSET User]
    /\ Home \in [Document -> Channel]
    /\ Owner \in [Document -> User \cup {NoUser}]
    /\ \A d \in Message : Owner[d] = NoUser

VARIABLES
    stored,      \* clients with a row of oauth_client_registrations
    cached,      \* _registered_clients
    pending,     \* clients that are being registered
    told,        \* history: clients that were answered
    access, refresh,  \* pairs of a client and a person: what it holds
    connected,   \* history: pairs that got tokens and have not run out
    legal,       \* users who have accepted the current terms
    member,      \* pairs of a user and a channel of a server he is in
    current,     \* whom current_access_token is of
    at, tool, caller, previous,
    principal, wanted, lookup, shown,
    crossed,     \* history: requests that met another one in the process
    reached      \* history: channels each request's principal could read
                 \* at some time since it is known

clients == <<stored, cached, pending, told>>
tokens  == <<access, refresh, connected>>
data    == <<legal, member>>
fixed   == <<tool, caller, previous, wanted>>      \* of a request: its call
work    == <<principal, lookup, shown>>
mcpVars == <<clients, tokens, data, current, at, fixed, work, crossed, reached>>

Stage == {"idle", "mounted", "channels", "documents", "access", "answered"}
Mounted(r) == at[r] # "idle" /\ tool[r] # "link"

(* The channels a user can read.                                            *)
Reads(u) == {c \in Dm : u \in Participant[c]} \cup {c \in Text : <<u, c>> \in member}

McpInit ==
    /\ stored = {} /\ cached = {} /\ pending = {} /\ told = {}
    /\ access = {} /\ refresh = {} /\ connected = {}
    /\ legal = User
    /\ member \in SUBSET (User \X Text)
    /\ current = NoUser
    /\ at = [r \in Call |-> "idle"]
    /\ tool = [r \in Call |-> "none"]
    /\ caller = [r \in Call |-> NoUser]
    /\ previous = [r \in Call |-> NoUser]
    /\ principal = [r \in Call |-> NoUser]
    /\ wanted = [r \in Call |-> NoDocument]
    /\ lookup = [r \in Call |-> {}]
    /\ shown = [r \in Call |-> {}]
    /\ crossed = {}
    /\ reached = [r \in Call |-> {}]

-----------------------------------------------------------------------------
(* Clients                                                                  *)

KnownClient(c) == c \in cached \cup stored

(* register_client; the identifier is new.                                  *)
RegisterClient(c) ==
    /\ ~KnownClient(c)
    /\ cached' = cached \cup {c}
    /\ pending' = pending \cup {c}
    /\ UNCHANGED <<stored, told, tokens, data, current, at, fixed, work, crossed,
                   reached>>

(* Mutant: the client is kept in the process only.                          *)
Persisted_None(c) == {}

Persisted(c) == {c}

PersistClient(c) ==
    /\ c \in pending
    /\ stored' = stored \cup Persisted(c)
    /\ told' = told \cup {c}
    /\ pending' = pending \ {c}
    /\ UNCHANGED <<cached, tokens, data, current, at, fixed, work, crossed, reached>>

(* The database fails; the client is not answered, and stays in the cache.  *)
PersistFails(c) ==
    /\ c \in pending
    /\ pending' = pending \ {c}
    /\ UNCHANGED <<stored, cached, told, tokens, data, current, at, fixed, work,
                   crossed, reached>>

(* get_client, at the head of every request of the authorization.           *)
GetClient(c) ==
    /\ KnownClient(c) /\ c \in told
    /\ cached' = cached \cup {c}
    /\ UNCHANGED <<stored, pending, told>>

-----------------------------------------------------------------------------
(* Tokens                                                                   *)

(* The screen is submitted by somebody who signs in, or is remembered, and  *)
(* has accepted the current terms.                                          *)
Submits(u) == u \in legal

(* exchange_authorization_code.                                             *)
Issue(c, u) ==
    /\ access' = access \cup {<<c, u>>}
    /\ refresh' = refresh \cup {<<c, u>>}
    /\ connected' = connected \cup {<<c, u>>}

(* authorize, the screen and the exchange of the code it gives.  A code is  *)
(* good for any number of exchanges while it lasts: that the answer of one  *)
(* is lost changes nothing.  Terms that change before the exchange might as *)
(* well change after it.                                                    *)
Authorize(c, u) ==
    /\ GetClient(c)
    /\ Submits(u)
    /\ Issue(c, u)
    /\ UNCHANGED <<data, current, at, fixed, work, crossed, reached>>

(* Mutant: a refresh token is good for one use.                             *)
Used_Once(c, u) == {<<c, u>>}

(* The refresh tokens an exchange makes invalid.                            *)
Used(c, u) == {}

(* exchange_refresh_token, with its answer or without.                      *)
ExchangeRefresh(c, u, answered) ==
    /\ GetClient(c)
    /\ <<c, u>> \in refresh
    /\ IF answered
       THEN /\ access' = access \cup {<<c, u>>}
            /\ refresh' = (refresh \ Used(c, u)) \cup {<<c, u>>}
       ELSE /\ refresh' = refresh \ Used(c, u)
            /\ UNCHANGED access
    /\ UNCHANGED <<connected, data, current, at, fixed, work, crossed, reached>>

(* An access token runs out after an hour, a refresh token after thirty     *)
(* days.                                                                    *)
ExpireToken(x) ==
    /\ \/ /\ x \in access
          /\ access' = access \ {x}
          /\ UNCHANGED <<refresh, connected>>
       \/ /\ x \in refresh \ access
          /\ refresh' = refresh \ {x}
          /\ connected' = connected \ {x}
          /\ UNCHANGED access
    /\ UNCHANGED <<clients, data, current, at, fixed, work, crossed, reached>>

-----------------------------------------------------------------------------
(* The data the tools read                                                  *)

Join(u, c) ==
    /\ <<u, c>> \notin member
    /\ member' = member \cup {<<u, c>>}
    /\ reached' = [r \in Call |-> IF principal[r] = u /\ at[r] # "answered"
                                  THEN reached[r] \cup {c} ELSE reached[r]]
    /\ UNCHANGED <<clients, tokens, legal, current, at, fixed, work, crossed>>

Leave(u, c) ==
    /\ <<u, c>> \in member
    /\ member' = member \ {<<u, c>>}
    /\ UNCHANGED <<clients, tokens, legal, current, at, fixed, work, crossed, reached>>

AcceptTerms(u) ==
    /\ u \notin legal
    /\ legal' = legal \cup {u}
    /\ UNCHANGED <<clients, tokens, member, current, at, fixed, work, crossed, reached>>

-----------------------------------------------------------------------------
(* Requests                                                                 *)

Goto(r, s) == at' = [at EXCEPT ![r] = s]

(* load_access_token                                                        *)
Accepted(c, u) == <<c, u>> \in access

(* _AuthenticatedMcpMount: the token is good, and noted.                    *)
Mount(r, c, u, o, d) ==
    /\ at[r] = "idle"
    /\ Accepted(c, u)
    /\ o \in {"search", "fetch"}
    /\ current' = u
    /\ previous' = [previous EXCEPT ![r] = current]
    /\ caller' = [caller EXCEPT ![r] = u]
    /\ tool' = [tool EXCEPT ![r] = o]
    /\ wanted' = [wanted EXCEPT ![r] = d]
    /\ Goto(r, "mounted")
    /\ LET met == {q \in Call : Mounted(q)} IN
       crossed' = IF met = {} THEN crossed ELSE crossed \cup met \cup {r}
    /\ UNCHANGED <<clients, tokens, data, work, reached>>

(* Mutant: the caller is taken from where it was put back.                  *)
Acting_Previous(r) == previous[r]

(* require_mcp_principal.                                                   *)
Acting(r) == current

(* A tool or a link of u begins: _require_existing_user.                    *)
Begin(r, u, o) ==
    /\ u \in legal
    /\ principal' = [principal EXCEPT ![r] = u]
    /\ reached' = [reached EXCEPT ![r] = Reads(u)]
    /\ Goto(r, IF o = "search" THEN "channels" ELSE "access")

CallTool(r) ==
    /\ at[r] = "mounted"
    /\ Acting(r) # NoUser
    /\ Begin(r, Acting(r), tool[r])
    /\ UNCHANGED <<clients, tokens, data, current, fixed, lookup, shown, crossed>>

(* serve_mcp_document                                                       *)
OpenLink(r, ticket) ==
    /\ at[r] = "idle"
    /\ tool' = [tool EXCEPT ![r] = "link"]
    /\ caller' = [caller EXCEPT ![r] = ticket[1]]
    /\ wanted' = [wanted EXCEPT ![r] = ticket[2]]
    /\ Begin(r, ticket[1], "link")
    /\ UNCHANGED <<clients, tokens, data, current, previous, lookup, shown, crossed>>

(* _accessible_channel_lookup; who is in a direct message does not change,  *)
(* so its two statements are one step.                                      *)
LookUp(r) ==
    /\ at[r] = "channels"
    /\ lookup' = [lookup EXCEPT ![r] = Reads(principal[r])]
    /\ Goto(r, "documents")
    /\ UNCHANGED <<clients, tokens, data, current, fixed, principal, shown,
                   crossed, reached>>

(* _search_workspace_documents and _search_messages, in the channels that   *)
(* were looked up; a query gives some of them.                              *)
WorkspaceHits(r) ==
    {d \in Workspace : Home[d] \in lookup[r] /\ Owner[d] \in {NoUser, principal[r]}}
MessageHits(r) == {d \in Message : Home[d] \in lookup[r]}

Search(r) ==
    /\ at[r] = "documents"
    /\ \E S \in SUBSET (WorkspaceHits(r) \cup MessageHits(r)) :
         shown' = [shown EXCEPT ![r] = S]
    /\ Goto(r, "answered")
    /\ UNCHANGED <<clients, tokens, data, current, fixed, principal, lookup,
                   crossed, reached>>

(* ensure_channel_access                                                    *)
Accessible(c, u) == c \in Reads(u)

(* _fetch_message_document: the row is read, then the right to it.          *)
MayFetchMessage(d, u) == Accessible(Home[d], u)

(* Mutant: a workspace is refused to others than its owner only.            *)
MayFetchWorkspace_Own(d, u) == Owner[d] \in {NoUser, u}

(* _fetch_workspace_document                                                *)
MayFetchWorkspace(d, u) == Accessible(Home[d], u) /\ Owner[d] \in {NoUser, u}

Fetch(r) ==
    /\ at[r] = "access"
    /\ IF wanted[r] \in Message THEN MayFetchMessage(wanted[r], principal[r])
                                ELSE MayFetchWorkspace(wanted[r], principal[r])
    /\ shown' = [shown EXCEPT ![r] = {wanted[r]}]
    /\ Goto(r, "answered")
    /\ UNCHANGED <<clients, tokens, data, current, fixed, principal, lookup,
                   crossed, reached>>

(* The answer, a refusal at any stage, or an exception; a request that came *)
(* through the mount puts back what it found.                               *)
Return(r) ==
    /\ at[r] # "idle"
    /\ current' = IF Mounted(r) THEN previous[r] ELSE current
    /\ Goto(r, "idle")
    /\ tool' = [tool EXCEPT ![r] = "none"]
    /\ caller' = [caller EXCEPT ![r] = NoUser]
    /\ previous' = [previous EXCEPT ![r] = NoUser]
    /\ wanted' = [wanted EXCEPT ![r] = NoDocument]
    /\ principal' = [principal EXCEPT ![r] = NoUser]
    /\ lookup' = [lookup EXCEPT ![r] = {}]
    /\ shown' = [shown EXCEPT ![r] = {}]
    /\ reached' = [reached EXCEPT ![r] = {}]
    /\ crossed' = crossed \ {r}
    /\ UNCHANGED <<clients, tokens, data>>

(* The process is started again, perhaps with new terms.                    *)
Restart ==
    /\ cached' = {} /\ pending' = {}
    /\ legal' \in {legal, {}}
    /\ current' = NoUser
    /\ at' = [r \in Call |-> "idle"]
    /\ tool' = [r \in Call |-> "none"]
    /\ caller' = [r \in Call |-> NoUser]
    /\ previous' = [r \in Call |-> NoUser]
    /\ wanted' = [r \in Call |-> NoDocument]
    /\ principal' = [r \in Call |-> NoUser]
    /\ lookup' = [r \in Call |-> {}]
    /\ shown' = [r \in Call |-> {}]
    /\ reached' = [r \in Call |-> {}]
    /\ crossed' = {}
    /\ UNCHANGED <<stored, told, tokens, member>>

-----------------------------------------------------------------------------
ClientStep(c) ==
    \/ RegisterClient(c) \/ PersistClient(c) \/ PersistFails(c)
    \/ \E u \in User :
          \/ Authorize(c, u)
          \/ \E answered \in BOOLEAN : ExchangeRefresh(c, u, answered)
          \/ ExpireToken(<<c, u>>)

CallStep(r) ==
    \/ \E c \in Client, u \in User :
          \/ Mount(r, c, u, "search", NoDocument)
          \/ \E d \in Document : Mount(r, c, u, "fetch", d)
    \/ CallTool(r)
    \/ \E ticket \in Ticket : OpenLink(r, ticket)
    \/ LookUp(r) \/ Search(r)
    \/ Fetch(r) \/ Return(r)

McpNext ==
    \/ \E c \in Client : ClientStep(c)
    \/ \E r \in Call : CallStep(r)
    \/ \E u \in User, c \in Text : Join(u, c) \/ Leave(u, c)
    \/ \E u \in User : AcceptTerms(u)
    \/ Restart

McpSpec == McpInit /\ [][McpNext]_mcpVars

-----------------------------------------------------------------------------
(* Properties                                                               *)

McpTypeOK ==
    /\ stored \subseteq Client /\ cached \subseteq Client
    /\ pending \subseteq Client /\ told \subseteq Client
    /\ access \subseteq Client \X User
    /\ refresh \subseteq Client \X User /\ connected \subseteq Client \X User
    /\ legal \subseteq User /\ member \subseteq User \X Text
    /\ current \in User \cup {NoUser}
    /\ at \in [Call -> Stage]
    /\ tool \in [Call -> {"none", "search", "fetch", "link"}]
    /\ caller \in [Call -> User \cup {NoUser}]
    /\ previous \in [Call -> User \cup {NoUser}]
    /\ wanted \in [Call -> Document \cup {NoDocument}]
    /\ principal \in [Call -> User \cup {NoUser}]
    /\ lookup \in [Call -> SUBSET Channel]
    /\ shown \in [Call -> SUBSET Document]
    /\ crossed \subseteq Call
    /\ reached \in [Call -> SUBSET Channel]

(* A tool works for the person whose token came with its request, unless    *)
(* requests were in the process at once: then it works for whoever was      *)
(* noted last (_AuthenticatedMcpMount, mcp_server.py:1410).                 *)
UncrossedAnswersAreTheCallers ==
    \A r \in Call :
        principal[r] # NoUser /\ r \notin crossed => principal[r] = caller[r]

(* What a tool or a link shows is in a channel its principal could read at  *)
(* some time since the request has known him, private to nobody else, and   *)
(* the principal has accepted the terms, although the channels, the rows    *)
(* and the right to them are read one after the other.                      *)
ShownIsPermitted ==
    \A r \in Call : \A d \in shown[r] :
        /\ Home[d] \in reached[r]
        /\ Owner[d] \in {NoUser, principal[r]}
        /\ principal[r] \in legal

(* A client that was answered is known for ever, restarts included, and     *)
(* once it has tokens it has a refresh token until thirty days have passed, *)
(* whatever answers are lost (register_client, exchange_refresh_token).     *)
ConnectionsOutlastFaults ==
    /\ \A c \in told : KnownClient(c)
    /\ connected \subseteq refresh
=============================================================================
