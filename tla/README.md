# A verification model of the Wyvern backend

Wyvern is a chat service: servers with text and voice channels, direct
messages, reactions, presence and calls, served by a FastAPI application
(`src/wyvern-backend/app`) over PostgreSQL and Redis. Two *nodes* run the same
code: `main`, the stable one, and `edge`, where features are tried first. Each
has its own database; a *replication bridge* keeps the rows they share in step.

This directory holds TLA+ modules for the parts of that backend in which order,
failure and concurrency matter, TLC configurations that check them on small
instances, and TLAPS proofs of the properties that matter most.

    tlc -config SyncBridgeFaults.cfg MCSyncBridge.tla     # one run
    tlapm SyncBridgeProofs.tla                            # one module's proofs

Paths below are relative to `src/wyvern-backend`.


## 1. The system

### What runs concurrently

One node is one Python process with one asyncio event loop. Between two awaits a
coroutine is never interrupted; at every await it may be. The coroutines are

- request handlers: one per HTTP request, each with a database session of its own;
- websocket handlers: one per socket, for as long as it is open;
- workers started in `main.py`: the replication worker, the Redis pub/sub
  listener, the recommendation worker;
- fire-and-forget tasks: one per realtime event sent to the other node, one per
  typing indicator that is to expire.

PostgreSQL runs at READ COMMITTED and no handler locks what it reads
(`SELECT ... FOR UPDATE` does not occur), so what a request has read may have
changed when it writes. Sessions are made with `expire_on_commit=False`
(`database.py`): an object that was read once keeps its old columns even after
the row is selected again.

### Components

| component | state | operations | interacts with |
|---|---|---|---|
| Replication bridge (`services/sync_bridge.py`, `routers/sync.py`, `models/sync.py`) | `replication_outbox`, `replication_inbound_ledger`, `sync_id` and `sync_version` of every replicated row; the last resync | `enqueue_*_event` in a request's transaction, `process_outbox_batch`, `apply_replication_events`, `build_bootstrap_events`, `maybe_resync_from_main` | called by every handler that changes a replicated row; posts to the peer's `/sync` |
| Websocket connections (`websocket/manager.py`, `websocket/handlers.py`, `services/presence.py`) | the registry of sockets, subscriptions and voice, keyed by user; presence keys in Redis | connect, serve one action, disconnect | told by pub/sub what to send; tells the live bridge about voice |
| Live bridge and voice (`services/live_bridge.py`, `services/voice_realtime.py`) | mirror of who talks on the other node | queue one event in a task of its own, receive one | the peer's `/sync` and the connection manager |
| Publish/subscribe (`services/pubsub.py`, `services/realtime.py`) | none but the listener task | publish to Redis, hand on to the sockets | every handler publishes after (or before) its commit |
| Messages (`routers/messages.py`, `routers/channels.py`) | messages, attachments, reactions, bookmarks, read marks | send, edit, delete, pin, react, bookmark, mark as read, list, search | outbox, pub/sub |
| Direct messages (`routers/dms.py`) | channels of type `dm`, participants, hidden states | open, close, list; sending reopens | outbox, pub/sub |
| Servers (`routers/servers.py`, `routers/channels.py`, `services/access.py`, `services/community.py`) | servers, members and roles, invites, channels, activity log | create, join, leave, invite, roles, delete | outbox, pub/sub |
| Sessions (`routers/auth.py`, `utils/security.py`, `services/wyv_bridge.py`, `routers/wyv_internal.py`) | accounts, refresh tokens, used hand-off grants in Redis | register, login, refresh, logout, hand-off between nodes | the bridge, which inserts accounts; every authenticated request |
| API tokens (`services/api_tokens.py`, `routers/ai.py`) | API tokens | issue, rotate and revoke one or all | a person's other requests |
| MCP (`services/mcp_server.py`, `models/oauth_client.py`) | registered clients, in the database and cached; whom the process works for | register, authorize, exchange codes and tokens, search, fetch, links | messages, workspaces (read only) |
| Identifiers and their migration (`utils/ids.py`, `alembic/versions/0012_partitioned_ids.py`, `scripts/migrate_partitioned_ids.py`, `main.py`) | every identifier, foreign key and named target; the schema's revision | upgrade in one transaction, validate, export the mapping, start in one of three modes | an app that was not stopped |
| Workspaces (`routers/workspaces.py`) | one document per channel and visibility, its revisions | read, save | pub/sub |
| Recommendations (`services/recommendations.py`) | embeddings with a stale mark, cached rankings | mark stale, embed, rank, refresh worker | called when profiles and servers change |
| Releases (`services/release_flags.py`, `routers/admin.py`, `routers/runtime.py`) | release flags, audit | promote, read | outbox |
| Users, webhooks, uploads, UI votes, legal pages, rate limits, configuration | their tables | CRUD | pub/sub |

### What is hard about it, and what correctness means

*Replication.* A post may time out although the peer goes on applying it; a retry
delivers again what has been applied; either node may restart between any two
steps; both may create the same row, or edit it, at once; a row may arrive before
the row it refers to; a snapshot is read query by query while deltas arrive.
Correct means: the sender's bookkeeping agrees with the peer's, nothing takes
effect twice, references hold, versions do not go backwards, what nobody
contradicted converges, and main's structure is not written by the edge.

*Connections.* All tables are keyed by user while a user may have more than one
socket; the handlers of two sockets interleave at each await, and an await may
raise. Correct means: whoever is subscribed, talking, registered or online has a
handler that will undo it, the two voice tables say the same, and those who leave
are forgotten.

*The voice mirror.* Events are sent once, each in a task of its own: lost and
reordered. Correct means: the mirror's tables agree with each other, are exact
where nothing was lost or overtaken, and catch up.

*Direct messages and messages.* Read, check, write and publish are separate
steps of each request. Correct means: no duplicate conversation without a race, a
message is not left in a hidden channel, nothing refers to a deleted message, and
clients show what the database holds once requests that did not overlap have
ended.

*Sessions and tokens.* A refresh, a logout or a "revoke all" reads tokens and
writes them an await later, a hand-off grant is used up before the account it is
for is looked for. Correct means: a session has one live token, a logout ends it,
"revoke all" leaves none, a grant is used once and is not lost without cause.

*MCP.* Whom a tool works for is kept in a variable of the process; rights are
checked one statement after the channels were read; clients lose answers. Correct
means: a tool works for its caller, shows what the caller could read, and a
client that was answered stays connected.

*The migration.* A revision rewrites every reference in one transaction that locks
one table after the other, against an app that may be running, and may be
interrupted. Correct means: every reference leads to the row it was written for.

*Servers.* A request checks the role it acts by, writes, shows an entry of the
activity feed, commits and tells clients, each a statement apart, and no row it
has read is locked. Correct means: a server keeps an owner, members are shown what
does take place, and clients list the servers their user is a member of.


## 2. The modules

| module | models | lines of code it stands for |
|---|---|---|
| `SyncBridge` | replication between two nodes | `services/sync_bridge.py`, `routers/sync.py`, `models/sync.py` |
| `Delivery` | abstract: each event is decided at most once by the peer and the sender learns the decision | refined by `SyncBridge` |
| `LiveConnections` | sockets, subscriptions, local voice and presence of one node | `websocket/manager.py`, `websocket/handlers.py`, `services/presence.py` |
| `VoiceMirror` | voice across both nodes | `services/live_bridge.py`, `services/voice_realtime.py`, the `remote_*` tables of the manager |
| `DirectMessages` | opening, closing and writing to direct-message channels | `routers/dms.py`, part of `send_message` |
| `Messages` | messages of a channel and what clients see of them | `routers/messages.py`, `mark_channel_read` |
| `Servers` | members, roles and channels of a server, and which clients list it | `routers/servers.py`, `routers/channels.py`, `services/community.py`, `services/realtime.py` |
| `Recommendations` | marking embeddings stale, and the worker that refreshes them | `services/recommendations.py`, part of `update_me` and `update_server` |
| `Credentials` | accounts, sessions, hand-off grants and API tokens | `routers/auth.py`, `routers/ai.py`, `services/api_tokens.py`, `services/wyv_bridge.py`, the grants of `sync_bridge.py` |
| `McpServer` | MCP clients and their tokens, and the tools that read for a person | `services/mcp_server.py` |
| `IdMigration` | the revision that replaces every identifier, its script, and an app beside it | `0012_partitioned_ids.py`, `migrate_partitioned_ids.py`, `lifespan` of `main.py` |
| `Voice` | the users and channels both of them speak about | |
| `...Proofs` | theorems about the module of that name; `ConnectionManagerProofs` about `LiveConnections` and `VoiceMirror`, `AccessProofs` about `Credentials` and `McpServer` | |
| `MC...` | instances for TLC | |

How they divide the system: `Messages`, `DirectMessages` and `Servers` are what
requests do to one node's rows, and end where a commit adds an outbox row;
`SyncBridge` takes over there. `Recommendations` is what some of those requests do besides, and the
worker that reads it. `Credentials` is how a request comes to have a user;
`McpServer` reads what `Messages` and `Servers` write, and `Replicate` in
`Credentials` is an inbound event of `SyncBridge`. `IdMigration` stands for all
tables at once. `LiveConnections` is one node's sockets, and ends where a voice event
is queued for the other node; `VoiceMirror` takes over there.

### SyncBridge

`store[n][s]` is the row in slot `s` (its primary or natural key) of node `n`'s
database: the number `gen` of the write that created it (its `sync_id`), its
`sync_version` and, in place of its columns, the write that produced them.
`log` holds the events of both outboxes, `row[i]` the state of event *i*'s outbox
row, `ledger[i]` its entry in the peer's inbound ledger, `call[n]` the batch node
*n*'s worker is posting and `orphans[n]` posts it gave up on which the peer still
works through.

| action | code |
|---|---|
| `Create` | a request that inserts a row, and its outbox row |
| `Begin`; `Edit`, `Delete` or `Withdraw` | a request that changes a row: it reads the row, and later does `bump_sync_version`, `enqueue_upsert_event` or `enqueue_delete_event` and commits, or is refused |
| `Post`, `Reply`, `Timeout`, `Wake` | `process_outbox_batch`: select, post, settle each row, back off |
| `Handle`, `HandleOrphan` | `apply_replication_events` → `apply_event` → `_apply_<entity>` → `_mark_rejected` / ledger row / authoritative echo |
| `StartResync` … `FinishResync` | `maybe_resync_from_main` and main's `build_bootstrap_events` |
| `Restart` | the process ends and starts; database and outbox survive |

`Verdict` spells out the order of the checks of `apply_event` and of the handlers
(owners missing, attachments, reply target missing, outdated, conflict). What the
ten entity types differ in is a record per type: may the edge write it, does it
have a natural key, which rows does it belong to.

`open` holds the requests that have read a row and not yet ended; other requests
about the row, and inbound events, may come in between. The request then counts
on from the version it read, and its event goes where its *start* puts it:
`process_outbox_batch` orders by `created_at`, which the database sets to the
start of the transaction (`sync_bridge.py:1508`, `Before`), so that of two
requests that overlap the later commit may be sent first. `overlapped` is history:
the slots on which that has happened.

`Delivery` knows nothing of batches, retries or answers: an event is queued, the
peer decides it once, the sender then learns the decision. `ImplementsDelivery`
is the refinement, with `pending` and `waiting` both mapped to "queued".

### LiveConnections

Each socket has a handler with a program counter; an action is what the handler
does from one await to the next. The tables are those of `ConnectionManager`,
keyed by user. `GreetFails`, `HandlerFails` and `FarewellFails` are awaits (of
Redis, of the database, of a send to a socket that is gone) that raise, before,
inside and after the `try`. `Drop` is a client or network that goes away.
`SendFails` and `PopStale` are the broadcasts, of the pub/sub listener and of the
handlers: several may be under way, each drops the users whose send failed, later
than it found that out, and so may drop a user another has dropped already.

### VoiceMirror

`local_voice_channel` is who joined on each node (`user_voice_channel` in the code),
`remote_user_voice_channel` and `remote_voice_participants` what the other node
believes. `flight` holds each node's events under way; `Deliver(n, i)` may take
any of them, `Lose` drops one. A session awaits
the database between changing its table and queuing each event, so two sessions
of a user interleave there. `disturbed` remembers for which users an event was
lost, overtaken, cut off by a restart, or queued by two sessions at once.

### DirectMessages and Messages

A request has a `stage` for each statement that reads or changes what another
request may change. `told` and `shown` are what clients display; a step that
publishes an event changes them for its recipients. `copy` in `Messages` is the
message as the request's database session holds it, which by
`expire_on_commit=False` is what it publishes after its commit; an UPDATE writes
only the columns the request changed. `overlaps`, `disturbed` and `late` are
history: which requests were in flight together, and whether one of them failed.

### Servers

A request is about one row, `on`: a member's, a channel's or the server's.
`Check` reads what it needs and picks the request; `Write` is its first flush;
`Log` is `mark_public_entity_stale`, where what is public changes, and
`record_server_activity`, which publishes its entry before the commit; `Remove`
deletes rows; `Commit` makes everything visible to others at once; `Tell` is the
broadcast that makes clients list the server or not. All requests but `Create`,
which nobody can meet before it commits, go through these steps, and differ in
`Allowed`, `Writes`, `Marks`, `Doomed`, `Commit` and `Told`.

What PostgreSQL adds is part of the model, since it decides which of these
interleavings there are. `locks` are the rows a transaction has updated, inserted
or deleted; `EmbeddingRow` is the server's row of `recommendation_embeddings`,
which changes of its channels and of itself mark as stale. The activity entry
refers to the server, so every transaction that has logged shares a lock on the
server's row, which its deletion must wait for (`WaitsFor`). So two deletions, or a
deletion and a member's leaving or a channel's deletion, can wait for each other;
and so can an edit of a channel, which has the channel's row and waits for the
embedding's (`channels.py:190-197`), and the deletion of that channel, which has
the embedding's, has been published, and waits for the channel's
(`channels.py:235-246`). One of them is aborted (`Abort`). `WriteFails` is an
UPDATE whose row is gone (`StaleDataError`), an INSERT whose key is there, or one
whose server is gone; `LogFails` an entry whose server is gone.

`Break` cuts a request off at any of its steps: the process ends, the connection to
PostgreSQL or Redis is lost, or a transaction of another component is in the way.
Before the commit nothing is left but what has been published ("broken"), after
it only the broadcast is missing ("untold").

`listed` is the set of users whose clients list the server, as
`static/wyvern-app.js` keeps it. `logged` and `met` are history.

The founder (`servers.owner_id`) and the owners by role are different things:
`update_member_role` asks for the role, `delete_server` for the founder
(`servers.py:495`, `:270`). An owner may make others owners, and each of these may
demote the founder, who can then still delete the server. `FAQ.md:127` says that
the owner role cannot be changed away from the owner account; no run checks that
sentence yet.

### Recommendations

`profile[p]` is what may be embedded of a user or server, `row[p]` its row of
`recommendation_embeddings`. A request has three steps, `Begin`, `Mark` (the flush
that locks the profile, and the look-up or DELETE of the row) and `Commit` (the
INSERT or UPDATE). The worker's batch is one transaction: `StartFull`,
`SelectStale`, per profile `Read`, then `Remove` or `Look` and `Embed`, at last
`EndBatch`; `Abort` is an INSERT or UPDATE that fails, which rolls back the batch.
`written` and `buffer` are what the transaction has written and not committed,
`held` the rows its session holds. `Marked` and `Flushed` name the columns an
UPDATE contains: those whose values differ from the ones the session has read. A
request that marks a row already marked writes no `stale` column. `disturbed`
remembers the profiles a request marked while the worker was at work on them.


### Credentials

Refresh tokens and API tokens are rows of one table here, told apart by `kind`; a
*session* is the chain of tokens that began with one login, named by its first
token (`family`). A request reads (`ReadAddress`, `ReadToken`, `ReadApi`,
`Consume`), and an await later writes and commits (`Register`, `Refresh`,
`Logout`, `Exchange`, `Revoke`, `Rotate`). `Fail` is a database error in between,
which rolls back; a grant used in Redis stays used. `LogoutSpent` is a logout with
a token that decodes and is revoked: no row is found, nothing changes, and the
answer is that of any logout. `Replicate` is main's row of
the account, inserted by the replication worker.

A grant is valid up to and including the second it expires in (`Valid`: both ends
are whole seconds), and the mark Redis keeps of its use is given the seconds that
were left, counted from the exact time of the use. The mark of a use that came
first thing in its second ends before the grant's last second does, so the grant
can be used once more: the one exception of `GrantsAreUsedOnce`.

There is one `mark` per grant, which takes the nodes to use one Redis.
`consume_edge_handoff_grant` does not ask which node a grant was made for
(`auth.py:257-260`): nodes with a Redis each would each accept it once.

`raced`, `alone`, `swept`, `overtaken`, `lost`, `ended` and `outdated` are history:
which requests overlapped others about the same thing, and what has ended.

### McpServer

`current` is `current_access_token`, a variable of the process that a request
sets when it enters (`Mount`) and puts back when it is finished; `previous` is
what it puts back. `CallTool` is `require_mcp_principal` and the look at the
user; then a search goes through `LookUp` and `Search`, a fetch and a link
through `Fetch`. `stored` is the table of clients, `cached` what the process
remembers, `pending` who is between the two. `Restart` forgets the process's
part, and may come with new terms, which everybody must accept again.

Codes and tokens are signed and not stored, so a code or a refresh token can be
exchanged again after an answer was lost; `connected` remembers who has tokens.

### IdMigration

An identifier is a pair. `OldId` is the number alone, and so means different rows
in different tables; a new one names the table as well. `target` and `subject`
remember which row a foreign key or a log's named target was written for, which is
what a reference must mean after the revision. `phase` and `at` are where the
revision is in its lists of tables; `newId`, `newRef` and `newSoft` are its new
columns, which nobody else sees before `Commit`; `locked` are the tables it has
altered, which nobody can write any more.

`app` is "old" (the release before, which writes integers), "new", "indexing"
(answers nothing) or "off". Nothing makes the operator stop the app: `Run` does
not look at it. A row that an old app writes into a table after the mapping was
read makes `StageId` or `StageRef` fail, which rolls everything back.


## 3. What the runs show

States are distinct states TLC found; every run finishes.

| run | states | question | answer |
|---|---|---|---|
| `sync_faults` | 1,205,000 | With timeouts, restarts and failing applies, do both sides agree, is anything applied twice, do echoes multiply, do rows converge? | agree, no, no, yes where no request was overtaken between reading and writing its row; and the bridge implements `Delivery` |
| `sync_channel` | 63,000 | With cascading deletes and a snapshot racing the posts, do references hold, do versions regress, is main's structure safe, is every event settled in the end? | hold, only where a request was overtaken, yes, yes unless the rows it refers to never reach the peer |
| `sync_edge_edits` | – | Does main apply only edge edits made on what main holds? | **no** |
| `live` | 98,000 | Two sockets of one user, two broadcasts, one failing await: is anybody left behind in a table? | no |
| `voice` | 24,000 | Is the mirror exact where nothing was lost, and does it catch up? | yes, yes |
| `dm` | 561,000 | Do duplicates need a race, do messages reopen channels, do clients agree? | yes |
| `messages` | 701,000 | Do clients show what is there, where requests did not overlap or fail? | yes |
| `servers` | 1,597,000 | Can a server lose its last owner, the feed show what the database then refuses, a client list a server wrongly? | only where requests overlapped: two that change roles or leave; one that deletes the server, or a channel's edit and deletion; two that each change what the client lists. And the list, where a request is cut off before it tells |
| `credentials` | 1,283,000 | Can a session fork or outlive a logout, a grant be used twice or be lost, a token outlive "revoke all"? | only where requests about the same session, account or tokens overlapped; a session also outlives a logout with a token it has replaced; a grant again in the second it expires in |
| `mcp` | 2,440,000 | Does a tool work for its caller, show only what the caller could read, and does a client stay connected? | yes, unless two requests were in the process at once; yes; yes |
| `ids` | 199,000 | Do references lead where they did, whatever is written and interrupted meanwhile, and is the revision applied in the end? | yes, yes |
| `recommendations` | 97,000 | Is a fresh embedding exact where no request met the worker, does only the worker make requests fail, is every mark served? | yes |

The run answered *no* checks what the documentation says: `changelog.md:76` makes
main authoritative for conflicts. The check (`sync_bridge.py:690`) compares version
numbers that both nodes count from the same start. After one edit on main and two
on the edge, the first edge edit is rejected and the second, whose base number
equals main's, overwrites it.

The other properties hold, and many name the one case in which the code does not
keep what a reader would expect of it. These cases are real: without its
exception each property is violated.

Why `RegistryHoldsLiveHandlers` speaks of live handlers and not of every socket:
the old socket's handler runs `_handle_disconnect(user_id)` after the new socket
has registered (`handlers.py:422`) and removes it by user; until the client
connects once more that socket gets nothing, although `FAQ.md:238` expects a
reconnect to help.

Why `VersionsNeverRegress` and `QuietMeansConverged` leave out rows that changed
between a request's reading and writing: `bump_sync_version` (`sync_bridge.py:187`)
adds one to the version the request read, so that after another request or an
inbound event the row may go back a version, or two contents share one. And the
peer may be sent the later of two commits first: an edit that follows the
deletion it was committed before brings the row back.

Why `QuietMeansConverged` says less of deleted rows (`Disputed`): `apply_event`
leaves no tombstone (`sync_bridge.py:776` and its like). An edit or an insertion
that was deferred, retried, written on the other node, or read into a snapshot
before the deletion puts the row back on one node, and no later snapshot removes
it (`sync_bridge.py:1590`). It takes no fault and no edge write of the row itself:
the edge has a message, main creates a reply to it, the edge deletes the message,
so that the reply is deferred there; main deletes the reply (the edge finds
nothing to delete) and edits the message, which puts it back on the edge; now the
reply's creation is retried and applied, after its deletion. `Disputed` therefore
looks at every row that `s` needs, its owners and what it replies to and theirs
(`Needed`): none may have been written by the edge, or by overlapping requests.

Why `DuplicatesNeedARace` has its exception: two requests at once both find no
channel of the pair (`dms.py:75`) and insert one each; `FAQ.md:148` says an
existing channel is reused.

Why `SessionsDoNotFork` and `LogoutEndsSession` have theirs: two refreshes with one
token both find it valid and both issue one (`auth.py:172`), and a refresh that
overlaps a logout issues a token the logout has not read. `LogoutEndsSession` has
another: a client that logs out with a token it has refreshed, say in a tab that
missed the refresh, is answered `logged_out`, although no row was found
(`auth.py:234-238`), and the successor stays live. Nothing overlaps here.
`FAQ.md:43` says "Your refresh token is revoked, which ends that session".

Why `LostGrantsWereContested` has its exception: the grant is used up in Redis
first. If the account is inserted between the exchange's look and its insert, by
the bridge or by a registration, the unique constraint refuses the insert, and
the next attempt with the same grant is refused as used.

Why `UncrossedAnswersAreTheCallers` has its exception: `current_access_token` is an
attribute of an object all requests share (`mcp_server.py:1410`), so a tool that
asks for it after another request entered finds the other's.

Why `ValidationFindsOnlyDanglers` has its exception: the log of a channel's
deletion is written with the channel's identifier (`channels.py:241`) and names a
row that is gone. The revision keeps such logs as they are. Step 5 of the runbook
(`PARTITIONED_ID_MIGRATION.md:23`) expects no such log; where there is one,
validation fails after the revision is committed, each time, and the mapping is not
exported.

Why `UndisturbedMessagesAgree` speaks of requests that did not overlap: of an edit
and a pin that overlap, the one published last shows the columns it read before
the other committed (`messages.py:687`), although `FAQ.md:229` says updates appear
to connected users; nothing is published later.

Why `OwnerlessNeedsARace` has its exception: two owners who demote each other both
find themselves owners, write different rows, and leave none
(`servers.py:494-517`). The same happens when an owner is demoted while about to
demote another.

Why `ListsAgree` has its exceptions: a request tells clients after its commit. An
update that is told after a member left, or a member's joining told before an
earlier leaving, leaves a client with the wrong list until it reloads; so does a
request whose process ends between the two.

Why `PhantomsLostADeadlock` has its exceptions: see `Abort` and `Break` above. An
entry is published before its commit (`community.py:47`). The deletion of a server
and the leaving of a member can deadlock after both have been shown in the feed,
and the deletion of a channel with an edit of it after the deletion has; one of
them then did not take place. Whatever cuts a request off between the entry and
the commit does the same, and there the property promises nothing; what it says is
that the database itself refuses nothing that was shown in any other case.

Why `UndisturbedEmbeddingsAreExact` speaks of undisturbed profiles: if a row is
stale, the worker is computing, and the profile is edited, the mark the request
sets is the mark the row already has and is not written; the worker's UPDATE then
clears it but leaves the digest the request has written. The embedding is that of
the old text and looks fresh to the full pass, until the profile changes again.
Also, the worker reads `directory_opt_in`, computes and inserts without looking
again (`recommendations.py:391`): a user who opts out meanwhile finds no row to
delete and is embedded after all, although `README.md:152` says otherwise.

### The bounds, and why they are enough

Every bound is a constant whose name starts with `Max`, or a finite set of
requests, sockets or slots.

- Writes (`MaxWrites`, the requests begun): a conflict needs one on each node, an
  overtaking needs two on one node, or one and an inbound event, and the version collision of `sync_edge_edits` needs three.
- Faults (`MaxFaults = 2` in `sync_faults`): a lost answer followed by a restart
  or a second loss is the shortest way to deliver an event three times.
- `BatchSize = 2` with up to four events: batches that hold an event and its
  successor, and events left for the next batch.
- Two sockets, or two sessions, of one user: every table is keyed by user, so
  sockets of different users meet only in a broadcast.
- Two broadcasts: each may drop the user the other has dropped, before or after the
  user's new socket registered; a third does what one of these does.
- Three requests about two messages, four about two direct-message channels: two
  to overlap and one to come before, between or after. There is room for two
  channels, which is what a duplicate takes.
- Three requests of three users about one server, with one channel: two owners who
  act on each other and a request that made one of them an owner, or two requests
  that overlap and a third before, between or after; the third user is the one
  who only watches. Roles are given as `owner` or `admin`; a moderator can manage
  channels only and no property tells channels apart.
- Two requests about one profile, and one change that marks nothing: profiles meet
  only in that a failed write rolls back the batch for all of them, and a profile
  whose refresh was rolled back is as if it had not been refreshed.
- Three requests about one person, three tokens, one grant: a session to overlap
  in needs a login, two readers and a token each; a lost grant needs an exchange and
  one other insert; a fork seen by a third request needs three. Persons meet only in
  the uniqueness of names (`taken`). Four ticks are two seconds, so that a use, the
  end of its mark and a second use fall into different ticks.
- Two MCP requests of two users with one client: to cross, one must enter before
  the other has asked whom it works for. One message, one private workspace, one
  text channel and one direct message: every kind of right there is.
- Five rows in four tables, with numbers that repeat across tables, a nullable
  and an obligatory foreign key, a table without identifiers and a log; one
  interruption (`MaxAborts`), after which the revision starts from the beginning.
- One snapshot: two do not overlap, since one task reads and applies them.

Deadlock is checked in `ids`, where the app can always be started or stopped; the
other modules stop when their bounds are used up.

### Fairness

- `SyncBridge`: requests of the peer and the answers to them are weakly fair, and
  so is the end of a back-off. That a row which is due again and again gets into a
  batch is strong fairness: the shortest back-off is as long as the poll interval
  and it doubles, so rows behind a deferred one get their turn. This holds while
  the worker lives; a database error outside the inner `try` ends the task, and
  nothing starts it again (listed as a hazard, no property covers it).
- `LiveConnections`: a handler that can run does (asyncio's loop). That a handler
  notices a dead socket (`Disconnect`) is strong fairness: uvicorn pings
  websockets and the receive then raises, but the handler may first have messages
  to serve. Nothing forces a client to send or to go.
- `VoiceMirror`: a client in a voice channel polls `voice.status` every four
  seconds (`static/wyvern-app.js`) and each poll queues the join again. The event
  that has been under way longest arrives in the end. Queueing needs strong
  fairness only because `MaxFlight` bounds the events under way.
- `Recommendations`: the worker polls for ever (`_recommendation_worker` catches
  every exception) and makes a full pass each time its hours are over, and a
  waiting lock is granted: requests that hold it end. That the model runtime
  answers now and then, for a profile under computation again and again, is
  assumed; where it is not installed nothing is ever embedded.
- `IdMigration`: the database works on (`Upgrade`), and the operator runs the
  script again until the revision is applied (`Run`), as the runbook says
  (`PARTITIONED_ID_MIGRATION.md:39`). Nothing is assumed of the app, which may stay
  up and write as long as there are rows left to write.


## 4. What is proved

TLAPS checks these for all values of the constants that satisfy the modules'
assumptions: any number of rows, entity types, writes, faults, users, sockets,
channels and requests.

**`SyncBridgeProofs`.** `TypeCorrect`, `Agreement` (`SenderAgreesWithLedger`),
`AtMostOnce` (`AppliedAtMostOnce`) and `Refinement` (`ImplementsDelivery`).
Agreement is not inductive: between the peer's commit and the sender's, the
answer exists only in the post. `DeliveryInv` therefore says of a post that its
events are the sender's own and still due, and that an answer not read yet is
what the ledger holds; of the log, that only an event on its way is decided and
that it took effect exactly if the ledger says so; of orphaned posts, that they
hold known events only. `IInv` is `TypeOK /\ DeliveryInv`. The refinement uses it
step by step: `Handle` maps to a decision or a stutter (the ledger answers what it
knows), `Reply` to the sender's learning of decisions made, everything else to a
stutter.

Of the rows, `References` (`ReferencesHold`), `StableContent`
(`StableContentIsMains`), `NoStorm` (`NoReplicationStorm`) and `Versions`
(`VersionsNeverRegress`). `RowsInv` collects what they need. An event, of a post or
of a snapshot, names every owner of its row (`NeedsInv`), is deferred while one is
missing, and whatever deletes an owner deletes all below it (`References`). The
storm bound is not inductive as it stands: a request may still log when it ends, and main may
still answer an undecided event of the edge with an echo, so the invariant is
`Len(log) + 2 * |open requests| + |edge events not applied| <= 2 * writes`
(`BudgetInv`). Versions go back nowhere but in a request's count: `Outdated` refuses
whatever is older than the row that is there.

`Convergence` (`QuietMeansConverged`) is proved in two halves. `UndeletedConverge`
is about rows that were never deleted (`Steady`), with any faults and snapshots.
`SteadyInv` describes one such row while nothing is quiet yet: main holds the
latest of the versions main ever told of (`MainLeads`); the edge holds one of these
or a row of its own (`EdgeFollows`), and so does a snapshot (`Copied`); the edge has
come at least as far as each version that has arrived there, and main has taken over, or gone
beyond, what the edge told it and it did not refuse (`Heard`). When all events have
arrived, the edge can be neither behind nor ahead.

For rows that were deleted this is not enough: there is no version to compare
with, and what the edge does with an event of `s` depends on the rows `s` refers to.
The second half is therefore about a set `N` of rows that refer to no others
(`Closed`; the rows `s` needs are one) while it is `Calm`: only main wrote them,
nothing failed, no requests overlapped. `CalmAt` has three parts.

- *The book* (`BookAt`): main's log about `N` says how main's rows came about. Each
  row is what the latest event that touches it says, the deletion of an owner
  touching all below; each event is `InPlace`: no earlier event that touches its
  row comes from a later request, a row written after its deletion is a new one, a row
  written on has a later version, and what an event refers to was there.
- *The post* (`PostAt`): no event about `N` is rejected, or decided before the edge
  has answered it; nothing is orphaned and no snapshot is taken.
- *The order* (`InOrder`): the outbox is sent in the order in which requests began,
  which is not the order of the log. Of two events that agree in both orders the
  earlier arrives first; those that disagree cannot touch each other's rows. So
  what the edge holds is what the events that have arrived say, taken in the
  order of the log (`Arrived`).

The order ends with the first event that is deferred. All that came before it has
arrived, and yet a row it needs is not on the edge: the row was deleted by a request
that began earlier and committed later, and the deletion went out first. Main does
not have the row either, and no identifier is used again. `Trapped` says that there is a
set `L` of rows that are gone on both nodes, which only events that themselves need
one of `L` would bring back, and such an event that has not arrived. This stays so:
the event is deferred at every retry, and the bridge is never `Quiet`. A quiet one
is in order with everything arrived, and both nodes hold what the log says.

**`ConnectionManagerProofs`**, about one node's tables (`LiveConnections`):
`NobodyLeftBehind` (`NoGhosts`), `VoiceAgreement` (`VoiceTablesAgree`),
`RegistryIsLive` (`RegistryHoldsLiveHandlers`) and `OnlineIsHandled`
(`OnlineMeansHandled`). Here the conjunction of the properties with `TypeOK` is
inductive; the work is that a handler which cleans up for its user leaves the
other handlers of the same user with what they need.

About the mirror (`VoiceMirror`): `MirrorTypeCorrect`, `MirrorTables`
(`MirrorTablesAgree`) and `MirrorExact` (`UndisturbedMirrorIsExact`), for any number
of users, sessions, channels, losses and restarts. The property speaks of users
whose events have arrived; the invariant (`MirrorInv`) of those whose have not.
While a user is undisturbed at most one handler has events of theirs to queue
(`Alone`), and the node's events under way followed by those take the user from
the channel the mirror shows to the one they are in (`Catching`). What a sequence
of events leads to (`Leads`) is said without recursion, which the prover cannot
follow: the last join decides, unless a leave of its channel comes after it. The
lemmas say what becomes of it when an event is put at the end (`JoinLeads`,
`LeaveLeads`), when the first event of the user is applied (`FirstTaken`), and that
events of other users in between change nothing (`LeadsElsewhere`). A leave of a
channel the user is not in must be ignored for this, as `leave_remote_voice` does:
moving from one channel to another tells the join before the leave.

**`DirectMessagesProofs`.** `TypeCorrect`, `DuplicatesRace`
(`DuplicatesNeedARace`), `MessagesReopen` (`MessagesReopenChannels`) and
`ClientsHear` (`ClientsAgree`). The invariant adds that requests in flight at once know each other (`OverlapInv`),
that one about to insert a channel overlaps the creator of every channel of its
pair (`CreationInv`), and what a sending request has locked (`SendingInv`). For the clients, `ChannelInv`
says which channel a request in flight is about and who takes part in it, and
`AgreeInv` that, unless requests about a channel overlapped or failed, the one at
work on it, if there is one, still owes its users exactly what it has changed.

**`MessagesProofs`.** `TypeCorrect`, `References` (`NoOrphans`), `Agreement`
(`UndisturbedMessagesAgree`), `Deletions` (`DeletionsReachClients`) and
`VersionSteps` (`VersionsGrow`). The core of `AgreeInv`: while a message is
undisturbed, at most one request others see the outcome of is at work on it, so
that request's copy *is* the row, and when nobody is at work clients show the
row. `DeletedInv` says who still has to announce a deletion.

**`RecommendationsProofs`.** `TypeCorrect`, `Exactness`
(`UndisturbedEmbeddingsAreExact`) and `Failures` (`UpdatesFailOnlyInARace`). The
invariant says that of an undisturbed profile either one request or the worker is
at work (`TurnsInv`, `ApartInv`), so each finds the row as it last saw it, and that
what the worker has read of it is so still (`ReadInv`); then comparing columns
with those the session has read is comparing them with the row.

**`ServersProofs`.** `TypeCorrect`, `Ownerless` (`OwnerlessNeedsARace`), `Phantoms`
(`PhantomsLostADeadlock`) and `Lists` (`ListsAgree`). `BooksInv` says that requests in
flight together have met, `LockInv` and `HeldInv` what each has locked and that no
row is locked twice. `DeadlockExplained` is about a deadlock: each request in it
waits for another and is waited for. One that has been shown waits only for rows it
is to delete; whoever has locked one of these and waits as well either deletes the
server, or has changed the same channel and waits for the embedding's row. `OwnerInv`: while no two requests that change roles or leave
have overlapped, what such a request has checked holds until it commits, so an
owner who acts remains one. `ListsInv`: unless two requests that touch a user have
met, at most one is in flight, and `Sound` says what its event will do; commits of
all others leave that user's membership alone because they have locked other rows.

**`AccessProofs`**, about `Credentials`: `TypeCorrect`, `Sessions` (`SessionsDoNotFork`), `Logouts`
(`LogoutEndsSession`), `LostGrants` (`LostGrantsWereContested`), `RevokeAll`
(`RevokeAllLeavesNone`) and `GrantUses` (`GrantsAreUsedOnce`). `SessionInv`: a request about a session is about one of
its tokens, which is live unless two such requests have overlapped; so a refresh
revokes the live token it replaces. `ApiInv` and `SweptInv`: a "revoke all" that
is alone with the tokens of its person has read every live one, and a person who
has revoked all has no rotation under way. `GrantInv` and `FoundInv`: an exchange
that found no account still finds none, or has been overtaken. The three groups
of invariants are kept by the steps one after the other: tokens of one kind are
rows the requests about the other kind do not touch. `UsesInv` follows the mark of a
grant: after its first use the mark lasts until the second the grant expires in,
after a second one beyond it.

**`AccessProofs`**, about `McpServer`: `McpTypeCorrect`, `CallersAnswered`
(`UncrossedAnswersAreTheCallers`), `Permitted` (`ShownIsPermitted`) and
`ConnectionsLast` (`ConnectionsOutlastFaults`). `NoteInv`: requests in the process
together have met, and one that has met no other finds its own caller noted.
`CallInv` says of each stage of a tool what has been looked up so far: what the
principal can read now, and every channel that was looked up, he could read at some
time since the request has known him. `ConnectionInv` is the third property, in
terms of the rows. Messages are assumed to belong to nobody alone (`DataAssumption`):
the code asks for the owner of a private workspace only.

**`IdMigrationProofs`.** `TypeCorrect`, `Follow` (`ReferencesFollow`) and
`Validation` (`ValidationFindsOnlyDanglers`). The invariant has two halves.
`IdInv`, `RefInv` and `SoftInv` say what the columns hold: a row's identifier is its
`Name` under the schema there is, a foreign key is the `Name` of a row that is
there, and a log has the `Name` of its subject or, if that is gone, perhaps still its
old number. `NewIdInv`, `NewRefInv` and `NewSoftInv` say the same of the columns
the revision fills, for the tables it has come to: each row in them is mapped and
has its new name, and that stays so because the revision has their locks
(`LockInv`), which the app's writes need. So `Commit` replaces names by names.
`Names` is the lemma about identifiers: within a table no two rows share one, and an
old one is no new one, so a log left with an old number cannot come to name
another row (`Meaning`, `NoMeaning`). `Constraints`: where the revision makes the
foreign keys again they hold, so what an app wrote meanwhile turns it back before
that or never. Numbers are assumed to be unique in their table, and the tables with a
foreign key to be the ones the revision lists (`SchemaAssumption`).

Assumptions on constants are named `...Assumption` in the modules that declare
the constants; TLC evaluates each in some run. The important ones: null values are
not members of the sets they stand beside, and foreign keys form no cycle.

### Model-checked only

Liveness (`EventsSettle`, `LeaversAreForgotten`, `MirrorCatchesUp`,
`MarksAreServed`, `ProfilesAreEmbedded`, `MigrationSettles`) is out of the
prover's reach.

Every invariant some run checks is a theorem. The other way round, type invariants, `DeliveryInv`, `UpdatesFailOnlyInARace` and
`MirrorTablesAgree` are theorems and in no run any more.


## 5. What is not modelled

- *Inside the components modelled*: contents of rows and messages, wording,
  pagination, search, listing; signatures of replication requests; call signals,
  which change no state of the node that relays them; typing indicators.
- *In `SyncBridge`*, `Delete` looks for the write (`sync_id`) the request has read,
  while the UPDATE or DELETE of the ORM goes by the primary key; the two differ only
  where requests overlap in a slot, and no property depends on it there. An apply
  that raises is modelled in a post (`Handle`), not in a snapshot or an orphaned
  post, where it ends that event alone (`sync_bridge.py:1455-1458`).
- *In `Recommendations`*, batches are unlimited: `limit(100)`
  (`recommendations.py:685-697`) only leaves profiles to the next pass.
- *In `IdMigration`*, a reference that is changed or set to null counts as one row
  deleted and one written; of the checks of the validation the one for a wrong
  prefix, which no identifier the revision makes can fail, is left out.
- *Database transactions* of the inbound side are one step in `SyncBridge`: an
  inbound event may come between a request's reading and writing, and not a
  request between the reading and the writing of `apply_event`. Two requests that
  overlap are taken to change the same columns; `Messages` has them apart.
- *The listener and the worker* are taken to live on. Both tasks end on an
  exception outside their inner `try`.
- *Workspaces and the promotion of releases*: one row each, the last writer wins.
- *Sessions and tokens*: passwords, signatures, secrets, and what an account
  contains beyond that it exists. *MCP*: clients known by the URL of their
  metadata, the OAuth library, the text of a search and of the pages.
- *The migration*: the layout of identifiers and the clock in them (`utils/ids.py`
  is a function of table and number here, or fresh), the backup, the mapping's files.
- *Ranking*: floating-point arithmetic over embeddings, signals and counts, and a
  cache of rankings that no handler reads.
- *Read-only or single-row CRUD*: legal pages, user directory, UI votes, webhooks,
  uploads, runtime configuration, admin pages, the disabled OpenAI gateway. They
  have no interleaving beyond "the last writer wins", or no state.
- *The other revisions, the export script, static pages and the JavaScript client*,
  except where a
  client's behaviour justifies fairness. A client is what it has been told.


## 6. Plan

Done, in this order: `SyncBridge` with `Delivery`; `LiveConnections`;
`VoiceMirror`; `DirectMessages`; `Messages`; `Recommendations`; `Servers`;
`Credentials`; `McpServer`; `IdMigration`; the proofs of every invariant.

To come, the most important first:

1. Typing indicators in `LiveConnections`: expiry tasks and tokens.
