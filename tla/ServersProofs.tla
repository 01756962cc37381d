---------------------------- MODULE ServersProofs ----------------------------
(* What overlapping requests cannot break, for any number of users, channels*)
(* and requests.                                                            *)
EXTENDS Servers, TLAPS

Raced(r, s) == r # s /\ {r, s} \in met

(* A request that has begun knows what it is about; nothing happens before  *)
(* there is a server; and who is in flight together has met.                *)
BooksInv ==
  /\ \A r \in Request :
       /\ stage[r] = "idle" => op[r] = "none"
       /\ stage[r] # "idle" => op[r] \in Ops /\ life # "none"
       /\ op[r] = "update" => on[r] = ServerRow
       /\ op[r] \in {"join", "leave", "role"} => on[r] \in User
       /\ op[r] \in {"addChannel", "editChannel", "dropChannel"} => on[r] \in Channel
  /\ \A r, s \in InFlight : r # s => {r, s} \in met
  /\ \A r, s \in Request : {r, s} \in met => stage[r] # "idle"

(* What a request has locked, and whether its entry has been published.     *)
LockInv ==
  \A r \in Request :
    /\ stage[r] \in {"idle", "checked", "committed", "done", "failed", "broken", "untold"}
         => locks[r] = {}
    /\ stage[r] = "written" => locks[r] = Writes(r)
    /\ stage[r] = "logged"
         => Writes(r) \subseteq locks[r] /\ locks[r] \subseteq Writes(r) \cup Marks(r)
    /\ stage[r] = "removed" => Removes(r)
    /\ r \in logged => stage[r] \notin {"idle", "checked", "written"}

(* What a request does after its first step.                                *)
Later(r) ==
  \/ Write(r) \/ WriteFails(r) \/ Log(r) \/ LogFails(r) \/ Remove(r)
  \/ Abort(r) \/ Commit(r) \/ Tell(r) \/ Break(r)

-----------------------------------------------------------------------------
LEMMA TypeInit ==
  ASSUME Init
  PROVE  TypeOK
  <1>1. /\ life \in {"none", "live", "deleted"}
        /\ role \in [User -> Role \cup {"none"}]
        /\ channels \subseteq Channel
    BY RankAssumption DEF Init, Role
  <1>2. /\ listed \subseteq User /\ logged \subseteq Request
        /\ met \subseteq SUBSET Request
    BY DEF Init, Members
  <1>3. /\ stage \in [Request -> {"idle", "checked", "written", "logged", "removed",
                                "committed", "done", "failed", "broken", "untold"}]
        /\ op \in [Request -> Ops \cup {"none"}]
        /\ on \in [Request -> User \cup Channel \cup {ServerRow}]
        /\ rank \in [Request -> Role \cup {"none"}]
    BY DEF Init
  <1>4. /\ audience \in [Request -> SUBSET User]
        /\ locks \in [Request -> SUBSET (User \cup Channel \cup {ServerRow, EmbeddingRow})]
    BY DEF Init
  <1> QED
    BY <1>1, <1>2, <1>3, <1>4 DEF TypeOK

LEMMA TypeStep ==
  ASSUME TypeOK, BooksInv, Next
  PROVE  TypeOK'
  <1> USE DEF request, rows
  <1>1. ASSUME NEW r \in Request, Create(r) PROVE TypeOK'
    BY <1>1, FounderAssumption DEF Create, Goto, TypeOK, Role, Ops
  <1>2. ASSUME NEW r \in Request, NEW o \in Ops, NEW u \in User,
               NEW x \in User \cup Channel \cup {ServerRow}, NEW k \in Rank \cup {"none"},
               Check(r, o, u, x, k)
        PROVE  TypeOK'
    <2>1. met' \in SUBSET (SUBSET Request)
      BY <1>2 DEF Check, InFlight, TypeOK
    <2>2. audience' \in [Request -> SUBSET User]
      BY <1>2 DEF Check, Members, TypeOK
    <2> QED
      BY <1>2, <2>1, <2>2, RankAssumption DEF Check, Goto, TypeOK
  <1>3. ASSUME NEW r \in Request,
               NEW t \in {"failed", "broken", "untold"}, End(r, t)
        PROVE  TypeOK'
    BY <1>3 DEF End, Goto, TypeOK
  <1>4. ASSUME NEW r \in Request, Write(r) \/ Log(r) PROVE TypeOK'
    <2>1. /\ Writes(r) \in SUBSET (User \cup Channel \cup {ServerRow, EmbeddingRow})
          /\ Marks(r) \in SUBSET (User \cup Channel \cup {ServerRow, EmbeddingRow})
      BY DEF Writes, Marks, TypeOK
    <2>2. CASE Write(r)
      BY <2>1, <2>2 DEF Write, Goto, TypeOK
    <2>3. CASE Log(r)
      <3>1. PICK marked \in SUBSET Marks(r) : locks' = [locks EXCEPT ![r] = @ \cup marked]
        BY <2>3 DEF Log
      <3>2. locks' \in [Request -> SUBSET (User \cup Channel \cup {ServerRow, EmbeddingRow})]
        BY <2>1, <3>1 DEF TypeOK
      <3> QED
        BY <2>3, <3>2 DEF Log, Goto, TypeOK
    <2> QED
      BY <1>4, <2>2, <2>3
  <1>5. ASSUME NEW r \in Request, Remove(r) PROVE TypeOK'
    <2>1. Doomed(r) \in SUBSET (User \cup Channel \cup {ServerRow, EmbeddingRow})
      BY DEF Doomed, Members, TypeOK
    <2> QED
      BY <1>5, <2>1 DEF Remove, Goto, TypeOK
  <1>6. ASSUME NEW r \in Request, Commit(r) PROVE TypeOK'
    <2>1. role' \in [User -> Role \cup {"none"}]
      BY <1>6 DEF Commit, TypeOK, BooksInv, Role
    <2>2. channels' \subseteq Channel
      BY <1>6 DEF Commit, TypeOK, BooksInv
    <2> QED
      BY <1>6, <2>1, <2>2 DEF Commit, Goto, TypeOK
  <1>7. ASSUME NEW r \in Request, Tell(r) PROVE TypeOK'
    <2>1. Told(r) \subseteq User
      BY DEF Told, Members, TypeOK
    <2> QED
      BY <1>7, <2>1 DEF Tell, Goto, TypeOK
  <1> QED
    BY <1>1, <1>2, <1>3, <1>4, <1>5, <1>6, <1>7
    DEF Next, RequestStep, WriteFails, LogFails, Abort, Fail, Break

-----------------------------------------------------------------------------
(* Each of those in a deadlock waits for another of them.                   *)
LEMMA WaitsInDeadlock ==
  ASSUME NEW S, Deadlocked(S), NEW r \in S, S # {r}
  PROVE  \E s \in S \ {r} : WaitsFor(r, s)
  <1>1. {r} \in SUBSET S /\ {r} # {}
    OBVIOUS
  <1>2. {r} # S
    <2>1. ASSUME {r} = S PROVE FALSE
      <3>1. S = {r}
        BY <2>1, Zenon
      <3> QED
        BY <3>1
    <2> QED
      BY <2>1
  <1>3. \E q \in {r}, s \in S \ {r} : WaitsFor(q, s)
    BY <1>1, <1>2 DEF Deadlocked
  <1> QED
    BY <1>3

(* A step after the first neither starts a request nor forgets one.         *)
LEMMA LaterStep ==
  ASSUME TypeOK, NEW r \in Request, Later(r)
  PROVE  /\ UNCHANGED <<op, on, met>>
         /\ r \in InFlight /\ stage'[r] \notin {"idle", "checked"}
         /\ InFlight' \subseteq InFlight
         /\ \A s \in Request \ {r} : stage'[s] = stage[s] /\ locks'[s] = locks[s]
         /\ life' # life => life' = "deleted"
  <1>1. CASE Abort(r)
    <2>1. PICK S \in SUBSET Request : r \in S /\ S # {r} /\ Deadlocked(S)
      BY <1>1 DEF Abort
    <2>2. PICK s \in S : WaitsFor(r, s)
      BY <2>1, WaitsInDeadlock
    <2> QED
      BY <1>1, <2>2 DEF Abort, WaitsFor, Fail, End, Goto, TypeOK, InFlight, rows
  <1>2. CASE ~Abort(r)
    <2>1. /\ UNCHANGED <<op, on, met>>
          /\ stage[r] \notin {"idle", "done", "failed", "broken", "untold"}
          /\ stage'[r] \notin {"idle", "checked"}
          /\ \A s \in Request \ {r} : stage'[s] = stage[s] /\ locks'[s] = locks[s]
          /\ life' # life => life' = "deleted"
      BY <1>2
      DEF Later, Write, WriteFails, Log, LogFails, Break, Fail, End, Remove, Commit, Tell,
          Goto, TypeOK, InFlight, rows
    <2> QED
      BY <2>1 DEF InFlight
  <1> QED
    BY <1>1, <1>2

(* Nothing has been asked of a server that is not there yet.                *)
LEMMA CreateStep ==
  ASSUME TypeOK, BooksInv, NEW r \in Request, Create(r)
  PROVE  /\ \A s \in Request : stage[s] = "idle" /\ op[s] = "none"
         /\ InFlight = {} /\ InFlight' = {r}
         /\ \A s, t \in Request : {s, t} \notin met
         /\ stage' = [stage EXCEPT ![r] = "committed"] /\ op' = [op EXCEPT ![r] = "create"]
         /\ life' = "live" /\ UNCHANGED <<channels, on, rank, audience, locks, listed, met>>
         /\ role' = [role EXCEPT ![Founder] = "owner"]
         /\ logged' = logged \cup {r}
  <1>1. \A s \in Request : stage[s] = "idle" /\ op[s] = "none"
    BY DEF Create, BooksInv
  <1>2. /\ stage' = [stage EXCEPT ![r] = "committed"] /\ op' = [op EXCEPT ![r] = "create"]
        /\ life' = "live" /\ UNCHANGED <<channels, on, rank, audience, locks, listed, met>>
        /\ role' = [role EXCEPT ![Founder] = "owner"]
        /\ logged' = logged \cup {r}
    BY DEF Create, Goto
  <1>3. InFlight = {} /\ InFlight' = {r}
    BY <1>1, <1>2 DEF InFlight, TypeOK
  <1>4. \A s, t \in Request : {s, t} \notin met
    BY <1>1 DEF BooksInv
  <1> QED
    BY <1>1, <1>2, <1>3, <1>4

LEMMA BooksStep ==
  ASSUME TypeOK, BooksInv, Next
  PROVE  BooksInv'
  <1> USE DEF request, rows
  <1>1. ASSUME NEW r \in Request, Create(r) PROVE BooksInv'
    BY <1>1, CreateStep DEF BooksInv, TypeOK, Ops
  <1>2. ASSUME NEW r \in Request, NEW o \in Ops, NEW u \in User,
               NEW x \in User \cup Channel \cup {ServerRow}, NEW k \in Rank \cup {"none"},
               Check(r, o, u, x, k)
        PROVE  BooksInv'
    <2>1. /\ stage[r] = "idle" /\ life = "live" /\ life' = life
          /\ stage' = [stage EXCEPT ![r] = "checked"]
          /\ op' = [op EXCEPT ![r] = o] /\ on' = [on EXCEPT ![r] = x]
          /\ met' = met \cup {{r, s} : s \in InFlight}
      BY <1>2 DEF Check, Goto
    <2>2. /\ o = "update" => x = ServerRow
          /\ o \in {"join", "leave", "role"} => x \in User
          /\ o \in {"addChannel", "editChannel", "dropChannel"} => x \in Channel
      BY <1>2 DEF Check, Allowed, MayChange, Members, Ops, TypeOK
    <2>3. \A s \in Request :
            /\ stage'[s] = "idle" => op'[s] = "none"
            /\ stage'[s] # "idle" => op'[s] \in Ops /\ life' # "none"
            /\ op'[s] = "update" => on'[s] = ServerRow
            /\ op'[s] \in {"join", "leave", "role"} => on'[s] \in User
            /\ op'[s] \in {"addChannel", "editChannel", "dropChannel"} => on'[s] \in Channel
      BY <2>1, <2>2, RankAssumption DEF BooksInv, TypeOK
    <2>4. InFlight' = InFlight \cup {r} /\ r \notin InFlight
      BY <2>1 DEF InFlight, TypeOK
    <2>5. \A s, t \in InFlight' : s # t => {s, t} \in met'
      <3> TAKE s, t \in InFlight'
      <3>1. CASE s \in InFlight /\ t \in InFlight
        BY <2>1, <3>1 DEF BooksInv
      <3>2. CASE s = r /\ t \in InFlight
        BY <2>1, <3>2
      <3>3. CASE s \in InFlight /\ t = r
        <4>1. {s, t} = {r, s}
          BY <3>3
        <4> QED
          BY <2>1, <3>3, <4>1
      <3> QED
        BY <2>4, <3>1, <3>2, <3>3
    <2>6. ASSUME NEW s \in Request, NEW t \in Request, {s, t} \in met'
          PROVE  stage'[s] # "idle"
      <3>1. CASE {s, t} \in met
        BY <2>1, <3>1 DEF BooksInv, TypeOK
      <3>2. ASSUME NEW v \in InFlight, {s, t} = {r, v} PROVE stage'[s] # "idle"
        <4>1. s = r \/ s = v
          BY <3>2
        <4> QED
          BY <2>1, <4>1 DEF InFlight, TypeOK
      <3> QED
        BY <2>1, <2>6, <3>1, <3>2
    <2> QED
      BY <2>3, <2>5, <2>6 DEF BooksInv
  <1>3. ASSUME NEW r \in Request, Later(r) PROVE BooksInv'
    <2>1. /\ op' = op /\ on' = on /\ met' = met
          /\ InFlight' \subseteq InFlight
          /\ stage[r] # "idle" /\ stage'[r] # "idle"
          /\ \A s \in Request \ {r} : stage'[s] = stage[s]
          /\ life # "none" => life' # "none"
      BY <1>3, LaterStep DEF InFlight
    <2> QED
      BY <2>1 DEF BooksInv
  <1> QED
    BY <1>1, <1>2, <1>3 DEF Next, RequestStep, Later

LEMMA LockStep ==
  ASSUME TypeOK, BooksInv, LockInv, Next
  PROVE  LockInv'
  <1> USE DEF request, rows
  <1>1. ASSUME NEW r \in Request, Create(r) PROVE LockInv'
    <2>1. \A s \in Request : locks'[s] = {}
      BY <1>1, CreateStep DEF LockInv
    <2>2. \A s \in Request : stage'[s] \in {"idle", "committed"} /\ (s \in logged' => s = r)
      BY <1>1, CreateStep DEF LockInv, TypeOK
    <2>3. stage'[r] = "committed"
      BY <1>1, CreateStep DEF TypeOK
    <2> QED
      BY <2>1, <2>2, <2>3 DEF LockInv
  <1>2. ASSUME NEW r \in Request, NEW o \in Ops, NEW u \in User,
               NEW x \in User \cup Channel \cup {ServerRow}, NEW k \in Rank \cup {"none"},
               Check(r, o, u, x, k)
        PROVE  LockInv'
    <2>1. /\ stage' = [stage EXCEPT ![r] = "checked"] /\ op' = [op EXCEPT ![r] = o]
          /\ on' = [on EXCEPT ![r] = x] /\ UNCHANGED <<locks, logged>> /\ stage[r] = "idle"
      BY <1>2 DEF Check, Goto
    <2>2. \A s \in Request \ {r} :
            /\ stage'[s] = stage[s] /\ locks'[s] = locks[s] /\ (s \in logged' <=> s \in logged)
            /\ Writes(s)' = Writes(s) /\ Removes(s)' = Removes(s) /\ Marks(s)' = Marks(s)
      BY <2>1 DEF Writes, Removes, Marks, TypeOK
    <2>3. stage'[r] = "checked" /\ locks'[r] = {} /\ r \notin logged'
      BY <2>1 DEF LockInv, TypeOK
    <2> QED
      BY <2>2, <2>3 DEF LockInv
  <1>3. ASSUME NEW r \in Request, Later(r) PROVE LockInv'
    <2>1. \A s \in Request :
             Writes(s)' = Writes(s) /\ Removes(s)' = Removes(s) /\ Marks(s)' = Marks(s)
      BY <1>3, LaterStep DEF Writes, Removes, Marks
    <2>2. \A s \in Request \ {r} :
            /\ stage'[s] = stage[s] /\ locks'[s] = locks[s]
            /\ s \in logged' <=> s \in logged
      BY <1>3, LaterStep
      DEF Later, Write, WriteFails, Log, LogFails, Break, Fail, End, Remove, Abort, Commit, Tell
    <2>3. stage'[r] \in {"committed", "done", "failed", "broken", "untold"} => locks'[r] = {}
      BY <1>3
      DEF Later, Write, WriteFails, Log, LogFails, Break, Fail, End, Remove, Abort, Commit, Tell,
          Goto, TypeOK, LockInv
    <2>4. stage'[r] = "written" => locks'[r] = Writes(r)
      BY <1>3
      DEF Later, Write, WriteFails, Log, LogFails, Break, Fail, End, Remove, Abort, Commit, Tell,
          Goto, TypeOK
    <2>5. stage'[r] = "logged"
            => Writes(r) \subseteq locks'[r] /\ locks'[r] \subseteq Writes(r) \cup Marks(r)
      <3>1. CASE Log(r)
        BY <3>1 DEF Log, LockInv, TypeOK
      <3>2. CASE ~Log(r)
        BY <1>3, <3>2
        DEF Later, Write, WriteFails, LogFails, Break, Fail, End, Remove, Abort, Commit, Tell,
            Goto, TypeOK
      <3> QED
        BY <3>1, <3>2
    <2>6. stage'[r] = "removed" => Removes(r)
      BY <1>3
      DEF Later, Write, WriteFails, Log, LogFails, Break, Fail, End, Remove, Abort, Commit, Tell,
          Goto, TypeOK
    <2>7. r \in logged' => stage'[r] # "written"
      BY <1>3
      DEF Later, Write, WriteFails, Log, LogFails, Break, Fail, End, Remove, Abort, Commit, Tell,
          Goto, TypeOK, LockInv
    <2>8. stage'[r] \notin {"idle", "checked"}
      BY <1>3, LaterStep
    <2> QED
      BY <2>1, <2>2, <2>3, <2>4, <2>5, <2>6, <2>7, <2>8 DEF LockInv
  <1> QED
    BY <1>1, <1>2, <1>3 DEF Next, RequestStep, Later

(* Does s explain why r, whose entry was shown, lost a deadlock?            *)
Explains(r, s) ==
  /\ {r, s} \in met
  /\ \/ "delete" \in {op[r], op[s]}
     \/ op[r] = "dropChannel" /\ op[s] = "editChannel" /\ on[s] = on[r]

(* Who has shown its entry waits only for rows that it is to delete.  Who   *)
(* has locked one of these and waits as well deletes the server, or has     *)
(* changed the channel and is about to mark the server as stale.            *)
LEMMA DeadlockExplained ==
  ASSUME TypeOK, BooksInv, LockInv, NEW r \in Request, r \in logged, Abort(r)
  PROVE  \E s \in Request \ {r} : Explains(r, s)
  <1>1. PICK S \in SUBSET Request : r \in S /\ S # {r} /\ Deadlocked(S)
    BY DEF Abort
  <1>2. PICK s \in S \ {r} : WaitsFor(r, s)
    BY <1>1, WaitsInDeadlock
  <1>3. PICK t \in S \ {s} : WaitsFor(s, t)
    BY <1>1, <1>2, WaitsInDeadlock
  <1>4. r \in InFlight /\ s \in InFlight /\ {r, s} \in met
    <2>1. r \in InFlight /\ s \in InFlight
      BY <1>2, <1>3 DEF WaitsFor, InFlight
    <2> QED
      BY <1>2, <2>1 DEF BooksInv
  <1>5. stage[r] # "written"
    BY DEF LockInv
  <1>6. CASE stage[r] = "removed" \/ op[r] = "delete" \/ op[s] = "delete"
    BY <1>2, <1>4, <1>5, <1>6 DEF WaitsFor, Explains
  <1>7. CASE stage[r] = "logged" /\ op[r] # "delete" /\ op[s] # "delete"
    <2>1. PICK x \in Doomed(r) : x \in locks[s] /\ x = on[r]
      BY <1>2, <1>7 DEF WaitsFor, Doomed, Removes
    <2>2. op[r] \in {"leave", "dropChannel"} /\ x \in User \cup Channel
      BY <1>2, <1>7, <2>1 DEF WaitsFor, Removes, Doomed, Members, TypeOK
    <2>3. stage[s] \in {"written", "logged"}
      BY <1>3, <1>7 DEF WaitsFor
    <2>4. stage[s] = "written"
      <3>1. stage[s] = "logged" => Writes(s) = {}
        BY <1>3 DEF WaitsFor, Removes, Writes
      <3>2. EmbeddingRow \notin User \cup Channel
        BY NullAssumption
      <3> QED
        BY <1>3, <2>1, <2>2, <2>3, <3>1, <3>2 DEF LockInv, Marks
    <2>5. op[s] \in {"update", "addChannel", "editChannel", "dropChannel"}
      BY <1>3, <2>4 DEF WaitsFor, Marks
    <2>6. x \in Writes(s)
      BY <2>1, <2>4 DEF LockInv
    <2>7. op[s] \in {"update", "editChannel"} /\ on[s] = on[r]
      BY <2>1, <2>5, <2>6 DEF Writes
    <2>8. op[s] = "editChannel" => op[r] = "dropChannel"
      BY <2>2, <2>7, NullAssumption DEF BooksInv
    <2>9. op[s] # "update"
      <3>1. op[s] = "update" => on[s] = ServerRow
        BY <1>4 DEF BooksInv, InFlight
      <3> QED
        BY <2>1, <2>2, <2>7, <3>1, NullAssumption
    <2> QED
      BY <1>2, <1>4, <2>7, <2>8, <2>9 DEF Explains
  <1> QED
    BY <1>2, <1>5, <1>6, <1>7 DEF WaitsFor

LEMMA PhantomStep ==
  ASSUME TypeOK, BooksInv, LockInv, PhantomsLostADeadlock, Next
  PROVE  PhantomsLostADeadlock'
  <1> USE DEF request, rows
  <1>1. ASSUME NEW r \in Request, Create(r) PROVE PhantomsLostADeadlock'
    <2>1. \A s \in Request : stage'[s] # "failed"
      BY <1>1, CreateStep DEF TypeOK
    <2> QED
      BY <1>1, <2>1, CreateStep DEF PhantomsLostADeadlock, TypeOK
  <1>2. ASSUME NEW r \in Request, NEW o \in Ops, NEW u \in User,
               NEW x \in User \cup Channel \cup {ServerRow}, NEW k \in Rank \cup {"none"},
               Check(r, o, u, x, k)
        PROVE  PhantomsLostADeadlock'
    <2>1. /\ stage[r] = "idle" /\ stage' = [stage EXCEPT ![r] = "checked"]
          /\ op' = [op EXCEPT ![r] = o] /\ on' = [on EXCEPT ![r] = x]
          /\ logged' = logged /\ met \subseteq met'
      BY <1>2 DEF Check, Goto
    <2>2. ASSUME NEW s \in logged, stage'[s] = "failed"
          PROVE  \E t \in Request \ {s} : Explains(s, t)'
      <3>1. s \in Request /\ s # r /\ stage[s] = "failed"
        BY <2>1, <2>2 DEF TypeOK
      <3>2. PICK t \in Request \ {s} : Explains(s, t)
        BY <2>2, <3>1 DEF PhantomsLostADeadlock, Explains
      <3>3. t # r
        <4>1. {t, s} = {s, t} /\ {s, t} \in met
          BY <3>2 DEF Explains
        <4> QED
          BY <2>1, <3>1, <3>2, <4>1 DEF BooksInv
      <3> QED
        BY <2>1, <3>1, <3>2, <3>3 DEF TypeOK, Explains
    <2> QED
      BY <2>1, <2>2 DEF PhantomsLostADeadlock, Explains
  <1>3. ASSUME NEW r \in Request, Later(r) PROVE PhantomsLostADeadlock'
    <2>1. UNCHANGED <<op, on, met>>
      BY <1>3, LaterStep
    <2>2. ASSUME NEW s \in Request \ {r}, s \in logged', stage'[s] = "failed"
          PROVE  s \in logged /\ stage[s] = "failed"
      BY <1>3, <2>2, LaterStep
      DEF Later, Write, WriteFails, Log, LogFails, Break, Fail, End, Remove, Abort, Commit, Tell
    <2>3. ASSUME stage'[r] = "failed", r \in logged'
          PROVE  \E s \in Request \ {r} : Explains(r, s)
      <3>1. Abort(r) /\ r \in logged
        BY <1>3, <2>3
        DEF Later, Write, WriteFails, Log, LogFails, Break, Fail, End, Remove, Abort, Commit, Tell,
            Goto, TypeOK, LockInv
      <3> QED
        BY <3>1, DeadlockExplained
    <2>4. logged' \subseteq Request
      BY <1>3
      DEF Later, Write, WriteFails, Log, LogFails, Break, Fail, End, Remove, Abort, Commit, Tell,
          TypeOK
    <2>5. ASSUME NEW s \in logged', stage'[s] = "failed"
          PROVE  \E t \in Request \ {s} : Explains(s, t)
      <3>1. CASE s = r
        BY <2>3, <2>5, <3>1
      <3>2. CASE s # r
        <4>1. s \in Request \ {r}
          BY <2>4, <2>5, <3>2
        <4>2. s \in logged /\ stage[s] = "failed"
          BY <2>2, <2>5, <4>1
        <4> QED
          BY <4>2 DEF PhantomsLostADeadlock, Explains
      <3> QED
        BY <3>1, <3>2
    <2> QED
      BY <2>1, <2>5 DEF PhantomsLostADeadlock, Explains
  <1> QED
    BY <1>1, <1>2, <1>3 DEF Next, RequestStep, Later

-----------------------------------------------------------------------------
(* No row is locked by two requests; a member who leaves locks no row but   *)
(* its own; and who is about to join has no row until then, and whose role  *)
(* is about to change has one.                                              *)
HeldInv ==
  /\ \A r, s \in Request : r # s => locks[r] \cap locks[s] = {}
  /\ \A r \in Request :
       /\ stage[r] = "removed" /\ op[r] = "leave" => locks[r] \subseteq {on[r]}
       /\ stage[r] \in {"written", "logged"} /\ op[r] \in {"join", "role"}
            => (role[on[r]] = "none" <=> op[r] = "join")

(* A request that goes on to write or to delete rows takes locks on those   *)
(* alone, which nobody has locked.                                          *)
LEMMA LocksStep ==
  ASSUME TypeOK, LockInv, HeldInv, NEW r \in Request, Later(r)
  PROVE  \A s, t \in Request : s # t => locks'[s] \cap locks'[t] = {}
  <1>1. ASSUME NEW s \in Request \ {r} PROVE locks'[r] \cap locks[s] = {}
    <2>1. CASE Log(r)
      <3>1. PICK marked \in SUBSET Marks(r) :
               /\ \A x \in marked : ~Locked(r, x)
               /\ locks' = [locks EXCEPT ![r] = @ \cup marked]
        BY <2>1 DEF Log
      <3> QED
        BY <3>1 DEF TypeOK, Locked, HeldInv
    <2>2. CASE ~Log(r)
      BY <2>2
      DEF Later, Write, WriteFails, LogFails, Break, Fail, End, Remove, Abort, Commit, Tell,
          TypeOK, Locked, HeldInv
    <2> QED
      BY <2>1, <2>2
  <1>2. \A s \in Request \ {r} : locks'[s] = locks[s]
    BY LaterStep
  <1> QED
    BY <1>1, <1>2 DEF HeldInv

(* What a request that joins or changes a role has locked.                  *)
LEMMA RowLocked ==
  ASSUME LockInv, NEW r \in Request, stage[r] \in {"written", "logged"},
         op[r] \in {"join", "role"}
  PROVE  locks[r] = {on[r]}
  BY DEF LockInv, Writes, Marks

(* A commit changes the role of the rows it has locked, or of all when it   *)
(* deletes the server, which waits for every other transaction.             *)
LEMMA RoleStep ==
  ASSUME TypeOK, BooksInv, LockInv, HeldInv, NEW r \in Request, Commit(r)
  PROVE  /\ op[r] = "delete" =>
              /\ life' = "deleted"
              /\ \A s \in Request \ {r} :
                   /\ stage[s] \notin {"logged", "removed"}
                   /\ stage[s] = "written" => op[s] \notin {"join", "role"}
         /\ op[r] # "delete" => \A u \in User : role'[u] # role[u] => u \in locks[r]
  <1>1. ASSUME op[r] = "delete", NEW s \in Request \ {r}
        PROVE  /\ life' = "deleted" /\ stage[s] \notin {"logged", "removed"}
               /\ stage[s] = "written" => op[s] \notin {"join", "role"}
    <2>1. life' = "deleted" /\ ~Refers(s) /\ Doomed(r) \cap locks[s] = {}
      BY <1>1 DEF Commit, WaitsFor, Removes, rows
    <2>2. stage[s] \notin {"logged", "removed"} /\ (stage[s] = "written" => op[s] # "join")
      BY <2>1 DEF Refers
    <2>3. ASSUME stage[s] = "written", op[s] = "role" PROVE FALSE
      <3>1. locks[s] = {on[s]} /\ on[s] \in User /\ role[on[s]] # "none"
        BY <2>3, RowLocked DEF BooksInv, HeldInv
      <3> QED
        BY <1>1, <2>1, <3>1 DEF Doomed, Members
    <2> QED
      BY <2>1, <2>2, <2>3
  <1>2. ASSUME op[r] # "delete", NEW u \in User, role'[u] # role[u]
        PROVE  u \in locks[r]
    <2>1. CASE op[r] \in {"join", "role"}
      <3>1. locks[r] = {on[r]} /\ on[r] \in User
        BY <2>1, RowLocked DEF Commit, Removes, BooksInv
      <3> QED
        BY <1>2, <2>1, <3>1 DEF Commit, TypeOK
    <2>2. CASE op[r] = "leave"
      BY <1>2, <2>2 DEF Commit
    <2>3. CASE op[r] \notin {"join", "role", "leave"}
      BY <1>2, <2>3 DEF Commit
    <2> QED
      BY <2>1, <2>2, <2>3
  <1>3. op[r] = "delete" => life' = "deleted"
    BY DEF Commit
  <1> QED
    BY <1>1, <1>2, <1>3

LEMMA HeldStep ==
  ASSUME TypeOK, BooksInv, LockInv, HeldInv, Next
  PROVE  HeldInv'
  <1> USE DEF request, rows
  <1>1. ASSUME NEW r \in Request, Create(r) PROVE HeldInv'
    <2>1. \A s \in Request : stage'[s] \in {"idle", "committed"}
      BY <1>1, CreateStep DEF TypeOK
    <2> QED
      BY <1>1, <2>1, CreateStep DEF HeldInv
  <1>2. ASSUME NEW r \in Request, NEW o \in Ops, NEW u \in User,
               NEW x \in User \cup Channel \cup {ServerRow}, NEW k \in Rank \cup {"none"},
               Check(r, o, u, x, k)
        PROVE  HeldInv'
    BY <1>2 DEF Check, Goto, TypeOK, HeldInv
  <1>3. ASSUME NEW r \in Request, Later(r) PROVE HeldInv'
    <2>1. \A s, t \in Request : s # t => locks'[s] \cap locks'[t] = {}
      BY <1>3, LocksStep
    <2>2. /\ op' = op /\ on' = on
          /\ \A s \in Request \ {r} : stage'[s] = stage[s] /\ locks'[s] = locks[s]
      BY <1>3, LaterStep
    <2>3. ASSUME NEW s \in Request, stage'[s] = "removed", op[s] = "leave"
          PROVE  locks'[s] \subseteq {on[s]}
      <3>1. CASE s # r
        BY <2>2, <2>3, <3>1 DEF HeldInv
      <3>2. CASE s = r
        <4>1. Remove(r)
          BY <1>3, <2>3, <3>2
          DEF Later, Write, WriteFails, Log, LogFails, Break, Fail, End, Abort, Commit, Tell,
              Goto, TypeOK
        <4>2. locks[r] = {}
          BY <2>3, <3>2, <4>1 DEF Remove, LockInv, Writes, Marks
        <4> QED
          BY <2>3, <3>2, <4>1, <4>2 DEF Remove, Doomed, TypeOK
      <3> QED
        BY <3>1, <3>2
    <2>4. ASSUME NEW s \in Request, stage'[s] \in {"written", "logged"},
                 op[s] \in {"join", "role"}
          PROVE  role'[on[s]] = "none" <=> op[s] = "join"
      <3>1. on[s] \in User
        BY <2>4 DEF BooksInv
      <3>2. CASE s = r
        <4>1. Write(r) \/ Log(r)
          BY <1>3, <2>4, <3>2
          DEF Later, WriteFails, LogFails, Break, Fail, End, Remove, Abort, Commit, Tell, Goto,
              TypeOK
        <4>2. CASE Write(r)
          BY <2>4, <3>1, <3>2, <4>2 DEF Write, Writable, Members
        <4>3. CASE Log(r)
          BY <2>4, <3>2, <4>3 DEF Log, HeldInv
        <4> QED
          BY <4>1, <4>2, <4>3
      <3>3. CASE s # r
        <4>1. /\ stage[s] \in {"written", "logged"} /\ locks[s] = {on[s]}
              /\ role[on[s]] = "none" <=> op[s] = "join"
          BY <2>2, <2>4, <3>3, RowLocked DEF HeldInv
        <4>2. CASE Commit(r)
          <5>1. op[r] # "delete" /\ on[s] \notin locks[r]
            BY <2>4, <3>3, <4>1, <4>2, RoleStep DEF HeldInv
          <5> QED
            BY <3>1, <4>1, <4>2, <5>1, RoleStep
        <4>3. CASE ~Commit(r)
          <5>1. role' = role
            BY <1>3, <4>3
            DEF Later, Write, WriteFails, Log, LogFails, Break, Fail, End, Remove, Abort, Tell
          <5> QED
            BY <4>1, <5>1
        <4> QED
          BY <4>2, <4>3
      <3> QED
        BY <3>2, <3>3
    <2> QED
      BY <2>1, <2>2, <2>3, <2>4 DEF HeldInv
  <1> QED
    BY <1>1, <1>2, <1>3 DEF Next, RequestStep, Later

-----------------------------------------------------------------------------
(* Have requests overlapped that change roles or leave?                     *)
RoleRace ==
  \E r, s \in Request : Raced(r, s) /\ op[r] \in {"role", "leave"} /\ op[s] \in {"role", "leave"}

(* Without such a race there is an owner, and what a request has checked    *)
(* holds until it commits: who changes a role is an owner other than whose  *)
(* role it is, and who leaves is none.                                      *)
OwnerBut(x) == \E u \in User : role[u] = "owner" /\ u # x

OwnerInv ==
  ~RoleRace /\ life = "live" =>
    /\ \E u \in User : role[u] = "owner"
    /\ \A r \in Request : stage[r] \in {"checked", "written", "logged", "removed"} =>
         /\ op[r] = "role" => OwnerBut(on[r])
         /\ op[r] = "leave" => role[on[r]] # "owner"

(* A commit that races with no other keeps all this.                        *)
LEMMA OwnerCommit ==
  ASSUME TypeOK, BooksInv, LockInv, HeldInv, OwnerInv, NEW r \in Request, Commit(r)
  PROVE  OwnerInv'
  <1>1. Later(r)
    BY DEF Later
  <1>2. UNCHANGED <<op, on, met>>
    BY <1>1, LaterStep
  <1> SUFFICES ASSUME ~RoleRace, life' = "live"
               PROVE  /\ \E u \in User : role'[u] = "owner"
                      /\ \A s \in Request :
                           stage'[s] \in {"checked", "written", "logged", "removed"} =>
                             /\ op[s] = "role" => \E u \in User : role'[u] = "owner" /\ u # on[s]
                             /\ op[s] = "leave" => role'[on[s]] # "owner"
    BY <1>2 DEF OwnerInv, OwnerBut, RoleRace, Raced
  <1>3. life = "live" /\ op[r] # "delete" /\ UNCHANGED life
    BY DEF Commit, rows
  <1>4. /\ r \in InFlight /\ stage[r] \in {"logged", "removed"} /\ stage'[r] = "committed"
        /\ \A s \in Request \ {r} : stage'[s] = stage[s]
    BY DEF Commit, Goto, TypeOK, InFlight
  <1>5. PICK w \in User : role[w] = "owner"
    BY <1>3 DEF OwnerInv
  <1>6. \A s \in Request :
          stage[s] \in {"checked", "written", "logged", "removed"} =>
            /\ op[s] = "role" => \E u \in User : role[u] = "owner" /\ u # on[s]
            /\ op[s] = "leave" => role[on[s]] # "owner"
    BY <1>3 DEF OwnerInv, OwnerBut
  <1>7. CASE op[r] \in {"role", "leave"}
    <2>1. \A s \in Request :
             stage'[s] \in {"checked", "written", "logged", "removed"}
               => op[s] \notin {"role", "leave"}
      <3> TAKE s \in Request
      <3> HAVE stage'[s] \in {"checked", "written", "logged", "removed"}
      <3>1. s # r /\ s \in InFlight
        BY <1>4 DEF InFlight
      <3>2. Raced(r, s)
        BY <1>4, <3>1 DEF BooksInv, Raced
      <3> QED
        BY <1>7, <3>2 DEF RoleRace
    <2>2. \E u \in User : role'[u] = "owner"
      <3>1. CASE op[r] = "role"
        <4>1. locks[r] = {on[r]}
          BY <3>1, RowLocked DEF Commit, Removes
        <4>2. PICK u \in User : role[u] = "owner" /\ u # on[r]
          BY <1>4, <1>6, <3>1
        <4> QED
          BY <1>3, <4>1, <4>2, RoleStep
      <3>2. CASE op[r] = "leave"
        <4>1. locks[r] \subseteq {on[r]}
          BY <1>4, <3>2 DEF Commit, Removes, HeldInv
        <4> QED
          BY <1>3, <1>4, <1>5, <1>6, <3>2, <4>1, RoleStep
      <3> QED
        BY <1>7, <3>1, <3>2
    <2> QED
      BY <2>1, <2>2
  <1>8. CASE op[r] = "join"
    <2>1. /\ role[on[r]] = "none" /\ on[r] \in User
          /\ role' = [role EXCEPT ![on[r]] = "member"]
      BY <1>4, <1>8 DEF Commit, Removes, HeldInv, BooksInv
    <2>2. \A u \in User : role[u] = "owner" <=> role'[u] = "owner"
      BY <2>1 DEF TypeOK
    <2> QED
      BY <1>4, <1>5, <1>6, <2>2 DEF BooksInv
  <1>9. CASE op[r] \notin {"role", "leave", "join"}
    <2>1. role' = role
      BY <1>3, <1>9 DEF Commit
    <2> QED
      BY <1>4, <1>5, <1>6, <2>1
  <1> QED
    BY <1>7, <1>8, <1>9

LEMMA OwnerStep ==
  ASSUME TypeOK, BooksInv, LockInv, HeldInv, OwnerInv, Next
  PROVE  OwnerInv'
  <1> USE DEF request, rows
  <1>1. ASSUME NEW r \in Request, Create(r) PROVE OwnerInv'
    <2>1. \A s \in Request : stage'[s] \in {"idle", "committed"}
      BY <1>1, CreateStep DEF TypeOK
    <2>2. role'[Founder] = "owner"
      BY <1>1, FounderAssumption DEF Create, TypeOK
    <2> QED
      BY <2>1, <2>2, FounderAssumption DEF OwnerInv
  <1>2. ASSUME NEW r \in Request, NEW o \in Ops, NEW u \in User,
               NEW x \in User \cup Channel \cup {ServerRow}, NEW k \in Rank \cup {"none"},
               Check(r, o, u, x, k)
        PROVE  OwnerInv'
    <2>1. /\ stage[r] = "idle" /\ stage' = [stage EXCEPT ![r] = "checked"]
          /\ op' = [op EXCEPT ![r] = o] /\ on' = [on EXCEPT ![r] = x]
          /\ UNCHANGED <<life, role>> /\ met \subseteq met'
      BY <1>2 DEF Check, Goto
    <2>2. RoleRace => RoleRace'
      <3> SUFFICES ASSUME NEW s \in Request, NEW t \in Request, Raced(s, t),
                          op[s] \in {"role", "leave"}, op[t] \in {"role", "leave"}
                   PROVE  RoleRace'
        BY DEF RoleRace
      <3>1. {s, t} \in met /\ {t, s} = {s, t}
        BY DEF Raced
      <3>2. s # r /\ t # r
        BY <2>1, <3>1 DEF BooksInv
      <3>3. Raced(s, t)'
        BY <2>1 DEF Raced
      <3> QED
        BY <2>1, <3>2, <3>3 DEF RoleRace, TypeOK
    <2>3. /\ o = "role" => role[u] = "owner" /\ u # x
          /\ o = "leave" => role[x] # "owner"
      BY <1>2 DEF Check, Allowed, MayChange
    <2> QED
      BY <2>1, <2>2, <2>3 DEF OwnerInv, OwnerBut, TypeOK
  <1>3. ASSUME NEW r \in Request, Later(r) PROVE OwnerInv'
    <2>1. CASE Commit(r)
      BY <2>1, OwnerCommit
    <2>2. CASE ~Commit(r)
      <3>1. UNCHANGED <<op, on, met>> /\ \A s \in Request \ {r} : stage'[s] = stage[s]
        BY <1>3, LaterStep
      <3>2. UNCHANGED <<life, role>>
        BY <1>3, <2>2
        DEF Later, Write, WriteFails, Log, LogFails, Break, Fail, End, Remove, Abort, Tell
      <3>3. stage'[r] \in {"checked", "written", "logged", "removed"}
              => stage[r] \in {"checked", "written", "logged", "removed"}
        BY <1>3, <2>2
        DEF Later, Write, WriteFails, Log, LogFails, Break, Fail, End, Remove, Abort, Tell, Goto,
            TypeOK
      <3> QED
        BY <3>1, <3>2, <3>3 DEF OwnerInv, OwnerBut, RoleRace, Raced
    <2> QED
      BY <2>1, <2>2
  <1> QED
    BY <1>1, <1>2, <1>3 DEF Next, RequestStep, Later

-----------------------------------------------------------------------------
(* Have two requests overlapped that can change whether u lists the server? *)
ListRace(u) == \E r, s \in Request : Raced(r, s) /\ Touches(r, u) /\ Touches(s, u)

Agrees(u) == u \in listed <=> u \in Members

(* What is so for u while a request that touches it, alone, is in flight.   *)
Sound(r, u) ==
  /\ stage[r] \in {"checked", "written", "logged", "removed"} =>
       /\ Agrees(u)
       /\ op[r] = "delete" => (u \in Members => u \in audience[r])
       /\ op[r] = "leave" => u \in Members
  /\ stage[r] = "removed" /\ op[r] = "leave" => u \in locks[r]
  /\ op[r] = "leave" => life = "live"
  /\ stage[r] = "committed" => (u \in Told(r) <=> u \in Members)

Settled(u) ==
  /\ \A r \in InFlight : Touches(r, u) => Sound(r, u)
  /\ (\A r \in InFlight : ~Touches(r, u)) => Agrees(u)

(* Was a request that can change it cut off before it told anybody?         *)
Untold(u) == \E r \in Request : stage[r] = "untold" /\ Touches(r, u)

ListsInv ==
  /\ life = "none" => Members = {} /\ listed = {}
  /\ \A u \in User : ~ListRace(u) /\ ~Untold(u) => Settled(u)

LEMMA Alone ==
  ASSUME BooksInv, NEW u \in User, ~ListRace(u), NEW r \in InFlight, NEW s \in InFlight,
         Touches(r, u), Touches(s, u)
  PROVE  r = s
  BY DEF BooksInv, ListRace, Raced, InFlight

LEMMA SameTouches ==
  ASSUME TypeOK, NEW r \in Request, Later(r), NEW u \in User
  PROVE  /\ \A s \in Request : Touches(s, u)' <=> Touches(s, u)
         /\ ListRace(u)' <=> ListRace(u)
         /\ Untold(u) => Untold(u)'
  <1>1. \A s \in Request : Touches(s, u)' <=> Touches(s, u)
    BY LaterStep DEF Touches
  <1>2. met' = met /\ \A s \in Request : stage[s] = "untold" => stage'[s] = "untold"
    BY LaterStep DEF InFlight
  <1> QED
    BY <1>1, <1>2 DEF ListRace, Raced, Untold

(* Before it commits, a request changes nothing that anybody lists.         *)
LEMMA ListsBefore ==
  ASSUME TypeOK, BooksInv, LockInv, NEW u \in User, ~ListRace(u), Settled(u),
         NEW r \in Request, ~Untold(u)',
         Write(r) \/ WriteFails(r) \/ Log(r) \/ LogFails(r) \/ Remove(r) \/ Abort(r) \/ Break(r)
  PROVE  Settled(u)'
  <1> USE DEF request, rows
  <1>1. Later(r)
    BY DEF Later
  <1>2. /\ UNCHANGED <<listed, life, role, op, on>> /\ InFlight' \subseteq InFlight
        /\ \A s \in Request \ {r} : stage'[s] = stage[s] /\ locks'[s] = locks[s]
    BY <1>1, LaterStep DEF Write, WriteFails, Log, LogFails, Break, Fail, End, Remove, Abort
  <1>3. Members' = Members /\ Agrees(u)' = Agrees(u)
    BY <1>2 DEF Members, Agrees
  <1>4. /\ r \in InFlight
        /\ \A s \in Request \ {r} : audience'[s] = audience[s]
        /\ stage'[r] \in {"written", "logged", "removed"} =>
             /\ stage[r] \in {"checked", "written", "logged"} /\ audience'[r] = audience[r]
        /\ stage'[r] \in {"written", "logged", "removed", "failed", "broken", "untold"}
        /\ stage'[r] = "removed" => Doomed(r) \subseteq locks'[r]
        /\ stage'[r] = "untold" <=> stage[r] = "committed"
    <2>1. r \in InFlight
      BY <1>1, LaterStep
    <2>2. /\ \A s \in Request \ {r} : audience'[s] = audience[s]
          /\ stage'[r] \in {"written", "logged", "removed"} =>
               /\ stage[r] \in {"checked", "written", "logged"} /\ audience'[r] = audience[r]
          /\ stage'[r] \in {"written", "logged", "removed", "failed", "broken", "untold"}
      BY DEF Write, WriteFails, Log, LogFails, Break, Fail, End, Remove, Abort, Goto, TypeOK
    <2>3. stage'[r] = "removed" => Doomed(r) \subseteq locks'[r]
      BY DEF Write, WriteFails, Log, LogFails, Break, Fail, End, Remove, Abort, Goto, TypeOK
    <2>4. stage'[r] = "untold" <=> stage[r] = "committed"
      <3>1. CASE Break(r)
        BY <3>1 DEF Break, End, Goto, TypeOK
      <3>2. CASE Abort(r)
        <4>1. PICK S \in SUBSET Request : r \in S /\ S # {r} /\ Deadlocked(S)
          BY <3>2 DEF Abort
        <4>2. PICK s \in S : WaitsFor(r, s)
          BY <4>1, WaitsInDeadlock
        <4> QED
          BY <3>2, <4>2 DEF Abort, WaitsFor, Fail, End, Goto, TypeOK
      <3>3. CASE ~Break(r) /\ ~Abort(r)
        BY <3>3 DEF Write, WriteFails, Log, LogFails, Fail, End, Remove, Goto, TypeOK
      <3> QED
        BY <3>1, <3>2, <3>3
    <2> QED
      BY <2>1, <2>2, <2>3, <2>4
  <1>5. ASSUME NEW s \in InFlight', Touches(s, u)' PROVE Sound(s, u)'
    <2>1. s \in InFlight /\ Touches(s, u) /\ s \in Request
      BY <1>1, <1>2, <1>5, SameTouches DEF InFlight
    <2>2. Sound(s, u)
      BY <2>1 DEF Settled
    <2>3. CASE s # r
      <3>1. audience'[s] = audience[s] /\ stage'[s] = stage[s] /\ locks'[s] = locks[s]
        BY <1>2, <1>4, <2>1, <2>3
      <3>2. Told(s)' = Told(s)
        BY <1>2, <1>3, <3>1 DEF Told
      <3> QED
        BY <1>2, <1>3, <2>2, <3>1, <3>2 DEF Sound
    <2>4. CASE s = r
      <3>1. stage'[r] \in {"written", "logged", "removed"}
        BY <1>4, <1>5, <2>4 DEF InFlight
      <3>2. stage'[r] = "removed" /\ op[r] = "leave" => u \in locks'[r]
        <4> HAVE stage'[r] = "removed" /\ op[r] = "leave"
        <4>1. on[r] = u /\ u \in Members
          BY <1>4, <2>1, <2>2, <2>4 DEF Touches, Sound
        <4> QED
          BY <1>4, <4>1 DEF Doomed
      <3> QED
        BY <1>2, <1>3, <1>4, <2>2, <2>4, <3>1, <3>2 DEF Sound
    <2> QED
      BY <2>3, <2>4
  <1>6. ASSUME \A s \in InFlight' : ~Touches(s, u)' PROVE Agrees(u)'
    <2>1. CASE Touches(r, u)
      <3>1. r \notin InFlight' /\ stage'[r] # "untold"
        BY <1>1, <1>6, <2>1, SameTouches DEF Untold
      <3>2. stage[r] \in {"checked", "written", "logged", "removed"}
        BY <1>4, <3>1 DEF InFlight, TypeOK
      <3> QED
        BY <1>3, <1>4, <2>1, <3>2 DEF Settled, Sound
    <2>2. CASE ~Touches(r, u)
      <3>1. \A s \in InFlight \ {r} : s \in InFlight' /\ s \in Request
        BY <1>2 DEF InFlight
      <3>2. \A s \in InFlight : ~Touches(s, u)
        BY <1>1, <1>6, <2>2, <3>1, SameTouches
      <3> QED
        BY <1>3, <3>2 DEF Settled
    <2> QED
      BY <2>1, <2>2
  <1> QED
    BY <1>5, <1>6 DEF Settled

(* A commit of what touches another member leaves u's membership alone.     *)
LEMMA CommitOfOthers ==
  ASSUME TypeOK, BooksInv, LockInv, HeldInv, NEW u \in User, NEW r \in Request, Commit(r),
         ~Touches(r, u)
  PROVE  life' = life /\ (u \in Members' <=> u \in Members)
  <1>1. op[r] # "delete" /\ life' = life
    BY DEF Touches, Commit
  <1>2. u \notin locks[r] \/ op[r] \notin {"join", "role", "leave"}
    <2>1. CASE op[r] \in {"join", "role"}
      BY <2>1, RowLocked DEF Commit, Removes, Touches
    <2>2. CASE op[r] = "leave"
      BY <2>2 DEF Commit, Removes, HeldInv, Touches
    <2> QED
      BY <2>1, <2>2
  <1>3. role'[u] = role[u]
    <2>1. CASE u \notin locks[r]
      BY <1>1, <2>1, RoleStep
    <2>2. CASE op[r] \notin {"join", "role", "leave"}
      BY <1>1, <2>2 DEF Commit
    <2> QED
      BY <1>2, <2>1, <2>2
  <1> QED
    BY <1>1, <1>3 DEF Members

(* A commit of what touches u leaves clients to be told what is so now.     *)
LEMMA CommitOfOwn ==
  ASSUME TypeOK, BooksInv, LockInv, HeldInv, NEW u \in User, NEW r \in Request, Commit(r),
         Touches(r, u), Sound(r, u)
  PROVE  /\ u \in Told(r)' <=> u \in Members'
         /\ op[r] = "leave" => life' = "live"
  <1>1. /\ op' = op /\ on' = on /\ audience' = audience /\ listed' = listed
        /\ op[r] # "delete" => life' = life
        /\ stage[r] = IF Removes(r) THEN "removed" ELSE "logged"
    BY DEF Commit
  <1>2. /\ Agrees(u) /\ (op[r] = "delete" => (u \in Members => u \in audience[r]))
        /\ op[r] = "leave" => life = "live" /\ u \in locks[r]
    BY <1>1 DEF Sound, Removes
  <1>3. CASE op[r] \in {"create", "update"}
    BY <1>1, <1>2, <1>3 DEF Commit, Told, Members, Agrees
  <1>4. CASE op[r] = "delete"
    BY <1>1, <1>2, <1>4 DEF Commit, Told, Members, Agrees
  <1>5. CASE op[r] = "join"
    <2>1. on[r] = u /\ role'[u] = "member"
      BY <1>5 DEF Commit, Touches, TypeOK
    <2> QED
      BY <1>1, <1>5, <2>1 DEF Told, Members
  <1>6. CASE op[r] = "role"
    <2>1. on[r] = u /\ role[u] # "none"
      BY <1>1, <1>6 DEF Removes, Touches, HeldInv
    <2>2. role' = role \/ (rank[r] # "none" /\ role' = [role EXCEPT ![on[r]] = rank[r]])
      BY <1>6 DEF Commit
    <2>3. role'[u] # "none"
      BY <2>1, <2>2 DEF TypeOK
    <2> QED
      BY <1>1, <1>6, <2>1, <2>3 DEF Told, Members
  <1>7. CASE op[r] = "leave"
    <2>1. on[r] = u /\ role'[u] = "none" /\ life' = "live"
      BY <1>1, <1>2, <1>7 DEF Commit, Touches
    <2> QED
      BY <1>1, <1>2, <1>7, <2>1 DEF Told, Members
  <1> QED
    BY <1>1, <1>2, <1>3, <1>4, <1>5, <1>6, <1>7 DEF Touches

LEMMA ListsCommit ==
  ASSUME TypeOK, BooksInv, LockInv, HeldInv, NEW u \in User, ~ListRace(u), Settled(u),
         NEW r \in Request, Commit(r)
  PROVE  Settled(u)'
  <1>1. Later(r) /\ r \in InFlight /\ r \in InFlight'
    BY DEF Later, Commit, InFlight, Goto, TypeOK
  <1>2. /\ op' = op /\ on' = on /\ audience' = audience /\ listed' = listed
        /\ InFlight' \subseteq InFlight /\ stage'[r] = "committed"
        /\ \A s \in Request \ {r} : stage'[s] = stage[s] /\ locks'[s] = locks[s]
    BY <1>1, LaterStep DEF Commit, Goto, TypeOK
  <1>3. ASSUME NEW s \in InFlight', Touches(s, u)' PROVE Sound(s, u)'
    <2>1. s \in InFlight /\ Touches(s, u) /\ s \in Request /\ Sound(s, u)
      BY <1>1, <1>2, <1>3, SameTouches DEF InFlight, Settled
    <2>2. CASE s = r
      BY <1>2, <2>1, <2>2, CommitOfOwn DEF Sound
    <2>3. CASE s # r
      <3>1. ~Touches(r, u)
        BY <1>1, <2>1, <2>3, Alone
      <3>2. life' = life /\ (u \in Members' <=> u \in Members)
        BY <3>1, CommitOfOthers
      <3>3. u \in Told(s)' <=> u \in Told(s)
        BY <1>2, <2>1, <3>2 DEF Told, Touches
      <3>4. stage'[s] = stage[s] /\ locks'[s] = locks[s]
        BY <1>2, <2>1, <2>3
      <3> QED
        BY <1>2, <2>1, <3>2, <3>3, <3>4 DEF Sound, Agrees
    <2> QED
      BY <2>2, <2>3
  <1>4. ASSUME \A s \in InFlight' : ~Touches(s, u)' PROVE Agrees(u)'
    <2>1. ~Touches(r, u)
      BY <1>1, <1>4, SameTouches
    <2>2. u \in Members' <=> u \in Members
      BY <2>1, CommitOfOthers
    <2>3. \A s \in InFlight : s \in InFlight' /\ s \in Request
      BY <1>1, <1>2 DEF InFlight
    <2>4. \A s \in InFlight : ~Touches(s, u)
      BY <1>1, <1>4, <2>3, SameTouches
    <2> QED
      BY <1>2, <2>2, <2>4 DEF Settled, Agrees
  <1> QED
    BY <1>3, <1>4 DEF Settled

LEMMA ListsTell ==
  ASSUME TypeOK, BooksInv, LockInv, NEW u \in User, ~ListRace(u), Settled(u),
         NEW r \in Request, Tell(r)
  PROVE  Settled(u)'
  <1>1. Later(r) /\ r \in InFlight /\ r \notin InFlight'
    BY DEF Later, Tell, InFlight, Goto, TypeOK
  <1>2. /\ op' = op /\ on' = on /\ life' = life /\ role' = role
        /\ listed' = Told(r) /\ stage[r] = "committed" /\ InFlight' \subseteq InFlight
        /\ \A s \in Request \ {r} :
              stage'[s] = stage[s] /\ locks'[s] = locks[s] /\ audience'[s] = audience[s]
    BY <1>1, LaterStep DEF Tell, rows, TypeOK
  <1>3. Members' = Members
    BY <1>2 DEF Members
  <1>4. ~Touches(r, u) => (u \in listed' <=> u \in listed)
    BY <1>2 DEF Told, Touches
  <1>5. Touches(r, u) => Agrees(u)'
    BY <1>1, <1>2, <1>3 DEF Settled, Sound, Agrees
  <1>6. ASSUME NEW s \in InFlight', Touches(s, u)' PROVE Sound(s, u)'
    <2>1. s \in InFlight /\ Touches(s, u) /\ s \in Request /\ Sound(s, u) /\ s # r
      BY <1>1, <1>2, <1>6, SameTouches DEF InFlight, Settled
    <2>2. ~Touches(r, u)
      BY <1>1, <2>1, Alone
    <2>3. u \in Told(s)' <=> u \in Told(s)
      BY <1>2, <1>3, <1>4, <2>1, <2>2 DEF Told
    <2> QED
      BY <1>2, <1>3, <1>4, <2>1, <2>2, <2>3 DEF Sound, Agrees
  <1>7. ASSUME \A s \in InFlight' : ~Touches(s, u)' PROVE Agrees(u)'
    <2>1. CASE ~Touches(r, u)
      <3>1. \A s \in InFlight \ {r} : s \in InFlight' /\ s \in Request
        BY <1>2 DEF InFlight
      <3>2. \A s \in InFlight : ~Touches(s, u)
        BY <1>1, <1>7, <2>1, <3>1, SameTouches
      <3> QED
        BY <1>3, <1>4, <2>1, <3>2 DEF Settled, Agrees
    <2> QED
      BY <1>5, <2>1
  <1> QED
    BY <1>6, <1>7 DEF Settled

LEMMA ListsCheck ==
  ASSUME TypeOK, BooksInv, NEW r \in Request, NEW o \in Ops, NEW w \in User,
         NEW x \in User \cup Channel \cup {ServerRow}, NEW k \in Rank \cup {"none"},
         Check(r, o, w, x, k), NEW u \in User, ~ListRace(u) /\ ~Untold(u) => Settled(u)
  PROVE  ~ListRace(u)' /\ ~Untold(u)' => Settled(u)'
  <1> USE DEF rows
  <1>1. /\ stage[r] = "idle" /\ stage' = [stage EXCEPT ![r] = "checked"] /\ life = "live"
        /\ op' = [op EXCEPT ![r] = o]
        /\ on' = [on EXCEPT ![r] = x] /\ met' = met \cup {{r, s} : s \in InFlight}
        /\ audience' = [audience EXCEPT ![r] = IF o \in {"delete", "leave"} THEN Members ELSE {}]
        /\ UNCHANGED <<life, role, locks, listed>>
    BY DEF Check, Goto
  <1>2. Members' = Members /\ Agrees(u)' = Agrees(u)
    BY <1>1 DEF Members, Agrees
  <1>3. /\ InFlight' = InFlight \cup {r} /\ r \notin InFlight /\ InFlight \subseteq Request
        /\ stage'[r] = "checked"
    BY <1>1 DEF InFlight, TypeOK
  <1>4. /\ \A s \in Request \ {r} : Touches(s, u)' <=> Touches(s, u)
        /\ o = "leave" /\ Touches(r, u)' => u \in Members
    BY DEF Check, Allowed, Touches, TypeOK
  <1>5. ListRace(u) => ListRace(u)'
    <2> SUFFICES ASSUME NEW s \in Request, NEW t \in Request, Raced(s, t),
                        Touches(s, u), Touches(t, u)
                 PROVE  ListRace(u)'
      BY DEF ListRace
    <2>1. {s, t} \in met /\ {t, s} = {s, t}
      BY DEF Raced
    <2>2. s # r /\ t # r
      BY <1>1, <2>1 DEF BooksInv
    <2>3. Raced(s, t)' /\ Touches(s, u)' /\ Touches(t, u)'
      BY <1>1, <1>4, <2>2 DEF Raced
    <2> QED
      BY <2>3 DEF ListRace
  <1>9. Untold(u) => Untold(u)'
    <2> SUFFICES ASSUME NEW s \in Request, stage[s] = "untold", Touches(s, u)
                 PROVE  Untold(u)'
      BY DEF Untold
    <2>1. s # r /\ stage'[s] = "untold"
      BY <1>1 DEF TypeOK
    <2> QED
      BY <1>4, <2>1 DEF Untold
  <1> SUFFICES ASSUME ~ListRace(u)', Settled(u)
               PROVE  Settled(u)'
    BY <1>5, <1>9
  <1>6. Touches(r, u)' => \A s \in InFlight : ~Touches(s, u)
    <2> SUFFICES ASSUME Touches(r, u)', NEW s \in InFlight, Touches(s, u)
                 PROVE  FALSE
      OBVIOUS
    <2>1. s \in Request \ {r} /\ Raced(r, s)' /\ Touches(s, u)'
      BY <1>1, <1>3, <1>4 DEF Raced
    <2> QED
      BY <2>1 DEF ListRace
  <1>7. ASSUME NEW s \in InFlight', Touches(s, u)' PROVE Sound(s, u)'
    <2>1. CASE s = r
      <3>1. Agrees(u)'
        BY <1>2, <1>6, <1>7, <2>1 DEF Settled
      <3>2. op'[r] = o /\ (o = "delete" => audience'[r] = Members)
        BY <1>1 DEF TypeOK
      <3>3. o = "leave" => u \in Members
        BY <1>4, <1>7, <2>1
      <3> QED
        BY <1>1, <1>2, <1>3, <2>1, <3>1, <3>2, <3>3 DEF Sound
    <2>2. CASE s # r
      <3>1. s \in InFlight /\ s \in Request
        BY <1>3, <2>2
      <3>2. Touches(s, u)
        BY <1>4, <1>7, <2>2, <3>1
      <3>3. Sound(s, u)
        BY <3>1, <3>2 DEF Settled
      <3>4. /\ stage'[s] = stage[s] /\ op'[s] = op[s] /\ on'[s] = on[s]
            /\ audience'[s] = audience[s] /\ locks'[s] = locks[s]
        BY <1>1, <2>2, <3>1 DEF TypeOK
      <3>5. Told(s)' = Told(s)
        BY <1>1, <1>2, <3>4 DEF Told
      <3> QED
        BY <1>1, <1>2, <3>3, <3>4, <3>5 DEF Sound
    <2> QED
      BY <2>1, <2>2
  <1>8. ASSUME \A s \in InFlight' : ~Touches(s, u)' PROVE Agrees(u)'
    BY <1>2, <1>3, <1>4, <1>8 DEF Settled
  <1> QED
    BY <1>7, <1>8 DEF Settled

LEMMA ListsStep ==
  ASSUME TypeOK, BooksInv, LockInv, HeldInv, ListsInv, Next
  PROVE  ListsInv'
  <1> USE DEF request, rows
  <1>1. ASSUME NEW r \in Request, Create(r) PROVE ListsInv'
    <2>1. /\ life = "none" /\ life' = "live" /\ InFlight' = {r} /\ listed' = {}
          /\ op'[r] = "create" /\ stage'[r] = "committed"
      <3>1. life = "none" /\ listed = {}
        BY <1>1 DEF Create, ListsInv
      <3> QED
        BY <1>1, <3>1, CreateStep DEF TypeOK
    <2>2. ASSUME NEW u \in User PROVE Sound(r, u)' /\ Touches(r, u)'
      <3>1. Told(r)' = listed' \cup Members'
        BY <2>1 DEF Told
      <3>2. u \in Told(r)' <=> u \in Members'
        BY <2>1, <3>1
      <3> QED
        BY <2>1, <3>2 DEF Sound, Touches
    <2> QED
      BY <2>1, <2>2 DEF ListsInv, Settled
  <1>2. ASSUME NEW r \in Request, NEW o \in Ops, NEW w \in User,
               NEW x \in User \cup Channel \cup {ServerRow}, NEW k \in Rank \cup {"none"},
               Check(r, o, w, x, k)
        PROVE  ListsInv'
    <2>1. life' = "live"
      BY <1>2 DEF Check
    <2>2. \A u \in User : ~ListRace(u)' /\ ~Untold(u)' => Settled(u)'
      BY <1>2, ListsCheck DEF ListsInv
    <2> QED
      BY <2>1, <2>2 DEF ListsInv
  <1>3. ASSUME NEW r \in Request, Later(r) PROVE ListsInv'
    <2>1. life' # "none"
      BY <1>3, LaterStep DEF BooksInv, InFlight
    <2>2. ASSUME NEW u \in User, ~ListRace(u)', ~Untold(u)' PROVE Settled(u)'
      <3>1. ~ListRace(u) /\ Settled(u)
        BY <1>3, <2>2, SameTouches DEF ListsInv
      <3>2. CASE Commit(r)
        BY <3>1, <3>2, ListsCommit
      <3>3. CASE Tell(r)
        BY <3>1, <3>3, ListsTell
      <3>4. CASE ~Commit(r) /\ ~Tell(r)
        <4>1. \/ Write(r) \/ WriteFails(r) \/ Log(r) \/ LogFails(r) \/ Remove(r)
              \/ Abort(r) \/ Break(r)
          BY <1>3, <3>4 DEF Later
        <4> QED
          BY <2>2, <3>1, <4>1, ListsBefore
      <3> QED
        BY <3>2, <3>3, <3>4
    <2> QED
      BY <2>1, <2>2 DEF ListsInv
  <1> QED
    BY <1>1, <1>2, <1>3 DEF Next, RequestStep, Later

-----------------------------------------------------------------------------
(* The inductive invariant.                                                 *)
Inv == TypeOK /\ BooksInv /\ LockInv /\ HeldInv /\ PhantomsLostADeadlock /\ OwnerInv /\ ListsInv

LEMMA Start ==
  ASSUME Init
  PROVE  Inv
  <1>1. TypeOK
    BY TypeInit
  <1>2. InFlight = {} /\ met = {} /\ logged = {}
    BY DEF Init, InFlight
  <1>3. BooksInv
    BY <1>2 DEF Init, BooksInv
  <1>4. LockInv
    BY <1>2 DEF Init, LockInv
  <1>5. PhantomsLostADeadlock
    BY <1>2 DEF PhantomsLostADeadlock
  <1>6. HeldInv
    BY DEF Init, HeldInv
  <1>7. OwnerInv
    BY FounderAssumption DEF Init, OwnerInv
  <1>8. ListsInv
    BY <1>2 DEF Init, ListsInv, Settled, Agrees, Members
  <1> QED
    BY <1>1, <1>3, <1>4, <1>5, <1>6, <1>7, <1>8 DEF Inv

LEMMA Step ==
  ASSUME Inv, [Next]_vars
  PROVE  Inv'
  <1>1. CASE Next
    BY <1>1, TypeStep, BooksStep, LockStep, HeldStep, PhantomStep, OwnerStep, ListsStep DEF Inv
  <1>2. CASE UNCHANGED vars
    <2>1. /\ UNCHANGED <<life, role, channels, stage, op, on, rank, audience, locks>>
          /\ UNCHANGED <<listed, logged, met>>
      BY <1>2 DEF vars, rows, request
    <2>2. InFlight' = InFlight /\ Members' = Members
      BY <2>1 DEF InFlight, Members
    <2>3. TypeOK' /\ BooksInv'
      BY <2>1, <2>2 DEF Inv, TypeOK, BooksInv
    <2>4. LockInv' /\ HeldInv' /\ PhantomsLostADeadlock'
      BY <2>1 DEF Inv, LockInv, HeldInv, PhantomsLostADeadlock, Writes, Marks, Removes
    <2>5. OwnerInv'
      BY <2>1 DEF Inv, OwnerInv, OwnerBut, RoleRace, Raced
    <2>6. ListsInv'
      <3>1. \A u \in User, r \in Request :
              (Touches(r, u)' <=> Touches(r, u)) /\ (Sound(r, u)' <=> Sound(r, u))
        BY <2>1, <2>2 DEF Touches, Sound, Agrees, Told
      <3>2. \A u \in User : (ListRace(u)' <=> ListRace(u)) /\ (Untold(u)' <=> Untold(u))
        BY <2>1, <3>1 DEF ListRace, Raced, Untold
      <3>3. InFlight \subseteq Request
        BY DEF InFlight
      <3>4. \A u \in User : Settled(u)' <=> Settled(u)
        BY <2>1, <2>2, <3>1, <3>3 DEF Settled, Agrees
      <3> QED
        BY <2>1, <2>2, <3>2, <3>4 DEF Inv, ListsInv
    <2> QED
      BY <2>3, <2>4, <2>5, <2>6 DEF Inv
  <1> QED
    BY <1>1, <1>2

(* The parts of Inv hold together in every reachable state.                *)
THEOREM Inductive == Spec => []Inv
  BY Start, Step, PTL DEF Spec

(* Every variable has its type in every reachable state.                    *)
THEOREM TypeCorrect == Spec => []TypeOK
  <1>1. Inv => TypeOK
    BY DEF Inv
  <1> QED
    BY <1>1, Inductive, PTL

(* What the activity feed has shown took place, unless its request was cut  *)
(* off, or lost a deadlock in which the server is deleted or, by requests   *)
(* for one channel, that channel is edited and deleted.                     *)
THEOREM Phantoms == Spec => []PhantomsLostADeadlock
  <1>1. Inv => PhantomsLostADeadlock
    BY DEF Inv
  <1> QED
    BY <1>1, Inductive, PTL

(* A server has an owner unless two requests that changed roles or left     *)
(* overlapped.                                                              *)
THEOREM Ownerless == Spec => []OwnerlessNeedsARace
  <1>1. Inv => OwnerlessNeedsARace
    BY DEF Inv, OwnerInv, RoleRace, Raced, OwnerlessNeedsARace
  <1> QED
    BY <1>1, Inductive, PTL

(* Clients list the server of which their user is a member once no request  *)
(* that can change it is in flight, unless two of them overlapped or one was*)
(* cut off between its commit and its event.                                *)
THEOREM Lists == Spec => []ListsAgree
  <1>1. Inv => ListsAgree
    BY DEF Inv, ListsInv, Settled, Agrees, ListRace, Untold, Raced, ListsAgree
  <1> QED
    BY <1>1, Inductive, PTL

=============================================================================
