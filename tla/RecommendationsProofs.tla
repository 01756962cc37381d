------------------------ MODULE RecommendationsProofs ------------------------
(* What the marks are worth, for any number of profiles, requests and       *)
(* unmarked changes.  While a profile is undisturbed, either one request is *)
(* at work on it or the worker is, so each finds the row as it last saw it. *)
EXTENDS Recommendations, TLAPS

(* The worker's place, and the profile it has read.                         *)
WorkerInv ==
  /\ at = NoProfile <=> stop = "next"
  /\ stop # "next" => source \in Public
  /\ stop \in {"look", "embed"} => source.public

(* A request under way has a profile, and a copy of it.                     *)
RequestInv ==
  \A r \in Request :
    stage[r] \in {"begun", "marked"} => about[r] \in Profile /\ copy[r] \in Public

(* Requests take turns, and find the row as they have looked it up.         *)
TurnsInv ==
  /\ \A r, s \in Request :
       stage[r] = "marked" /\ stage[s] = "marked" /\ about[r] = about[s] => r = s
  /\ \A r \in Request :
       stage[r] = "marked" /\ about[r] \notin disturbed => mark[r] = row[about[r]]

(* The worker is at work on a profile only while no request is.             *)
ApartInv ==
  \A p \in Profile \ disturbed, r \in Request :
    AtWork(p) /\ stage[r] = "marked" => about[r] # p

(* What the worker has read of a profile is so still, and what it has       *)
(* written is exact.                                                        *)
ReadInv ==
  \A p \in Profile \ disturbed :
    /\ held[p] # NoRow => held[p] = View(p)
    /\ at = p => source = profile[p]
    /\ p \in written /\ buffer[p] # NoRow /\ ~buffer[p].stale => Exact(p, buffer[p])

IInv ==
  /\ TypeOK /\ WorkerInv /\ RequestInv
  /\ TurnsInv /\ ApartInv /\ ReadInv
  /\ UndisturbedEmbeddingsAreExact /\ UpdatesFailOnlyInARace

-----------------------------------------------------------------------------
LEMMA Beginning == Init => IInv
  <1> SUFFICES ASSUME Init PROVE IInv
    OBVIOUS
  <1>1. TypeOK
    BY BoundAssumption DEF Init, TypeOK, Public, Text, Row, Nothing
  <1>2. WorkerInv /\ RequestInv /\ TurnsInv
    BY DEF Init, WorkerInv, RequestInv, TurnsInv
  <1>3. ApartInv /\ ReadInv
    BY NullAssumption DEF Init, ApartInv, ReadInv, AtWork
  <1>4. UndisturbedEmbeddingsAreExact /\ UpdatesFailOnlyInARace
    BY DEF Init, UndisturbedEmbeddingsAreExact, UpdatesFailOnlyInARace
  <1> QED
    BY <1>1, <1>2, <1>3, <1>4 DEF IInv

(* What the batch sees of a row is a row.                                   *)
LEMMA ViewType ==
  ASSUME TypeOK, NEW p \in Profile
  PROVE  View(p) \in Row \cup {NoRow}
  BY DEF TypeOK, View

(* A mark that does not collide leaves a row.                               *)
LEMMA MarkedType ==
  ASSUME TypeOK, RequestInv, NEW r \in Request, stage[r] = "marked", ~Collides(r)
  PROVE  Marked(r) \in Row
  <1>1. /\ about[r] \in Profile
        /\ row[about[r]] \in Row \cup {NoRow} /\ mark[r] \in Row \cup {NoRow}
        /\ copy[r].text \in Text /\ r \in Text
    BY DEF TypeOK, RequestInv, Public, Text
  <1>2. CASE mark[r] = NoRow
    BY <1>1, <1>2 DEF Marked, Row
  <1>3. CASE mark[r] # NoRow
    <2>1. row[about[r]] \in Row /\ mark[r] \in Row
      BY <1>1, <1>3 DEF Collides
    <2> QED
      BY <1>1, <1>3, <2>1 DEF Marked, Row
  <1> QED
    BY <1>2, <1>3

(* So does the worker, where nothing clashes.                               *)
LEMMA FlushedType ==
  ASSUME TypeOK, WorkerInv, stop = "embed", ~Clashes, NEW e \in Text \cup {NoText}
  PROVE  Flushed(e) \in Row
  <1>1. /\ at \in Profile /\ source.text \in Text /\ NoRequest \in Text
        /\ View(at) \in Row \cup {NoRow} /\ held[at] \in Row \cup {NoRow}
    BY ViewType DEF TypeOK, WorkerInv, Public, Text
  <1>2. Refreshed(e) \in Row
    BY <1>1 DEF Refreshed, Row
  <1>3. CASE held[at] = NoRow
    BY <1>2, <1>3 DEF Flushed
  <1>4. CASE held[at] # NoRow
    <2>1. View(at) \in Row /\ held[at] \in Row
      BY <1>1, <1>4 DEF Clashes
    <2> QED
      BY <1>2, <1>4, <2>1 DEF Flushed, Row
  <1> QED
    BY <1>3, <1>4

-----------------------------------------------------------------------------
LEMMA TypeStep ==
  ASSUME TypeOK, WorkerInv, RequestInv, Next
  PROVE  TypeOK'
  <1> USE DEF request, worker
  <1>1. ASSUME NEW r \in Request, NEW o \in {"edit", "show", "hide"}, NEW p \in Profile,
               Begin(r, o, p)
        PROVE  TypeOK'
    <2>1. [public |-> IF o = "edit" THEN profile[p].public ELSE o = "show",
           text |-> IF o = "edit" THEN r ELSE profile[p].text] \in Public
      BY <1>1 DEF TypeOK, Public, Text
    <2> QED
      BY <1>1, <2>1 DEF Begin, Goto, TypeOK
  <1>2. ASSUME NEW r \in Request, Mark(r) PROVE TypeOK'
    <2>1. about[r] \in Profile
      BY <1>2 DEF Mark, RequestInv
    <2> QED
      BY <1>2, <2>1 DEF Mark, Goto, TypeOK
  <1>3. ASSUME NEW r \in Request, Commit(r) PROVE TypeOK'
    <2>1. about[r] \in Profile
      BY <1>3 DEF Commit, RequestInv
    <2>2. Changed(r) \in [Profile -> Public]
      BY <2>1 DEF Changed, TypeOK, Public, Text
    <2>3. /\ profile' \in [Profile -> Public]
          /\ row' \in [Profile -> Row \cup {NoRow}]
      BY <1>3, <2>1, <2>2, MarkedType DEF Commit, TypeOK
    <2>4. /\ stage' \in [Request -> {"idle", "begun", "marked", "done", "failed"}]
          /\ op' \in [Request -> {"none", "edit", "show", "hide"}]
          /\ copy' \in [Request -> Public \cup {NoRow}]
          /\ mark' \in [Request -> Row \cup {NoRow}]
      BY <1>3 DEF Commit, Leave, Goto, TypeOK
    <2> QED
      BY <1>3, <2>3, <2>4 DEF Commit, TypeOK
  <1>4. ASSUME NEW p \in Profile, ChangeUnmarked(p) PROVE TypeOK'
    BY <1>4, BoundAssumption DEF ChangeUnmarked, TypeOK
  <1>5. CASE StartFull
    BY <1>5 DEF StartFull, TypeOK
  <1>6. CASE SelectStale
    BY <1>6, ViewType DEF SelectStale, Load, Stale, Disturb, TypeOK
  <1>7. ASSUME NEW p \in Profile, Read(p) PROVE TypeOK'
    BY <1>7 DEF Read, Disturb, TypeOK
  <1>8. CASE Remove
    BY <1>8 DEF Remove, Turn, TypeOK, WorkerInv
  <1>9. CASE Look
    <2>1. at \in Profile /\ Held(at) \in Row \cup {NoRow}
      BY <1>9, ViewType DEF Look, Held, TypeOK, WorkerInv
    <2> QED
      BY <1>9, <2>1 DEF Look, Turn, TypeOK
  <1>10. ASSUME NEW e \in Text \cup {NoText}, Embed(e) PROVE TypeOK'
    <2>1. at \in Profile /\ Flushed(e) \in Row
      BY <1>10, FlushedType DEF Embed, TypeOK, WorkerInv
    <2> QED
      BY <1>10, <2>1 DEF Embed, Turn, TypeOK
  <1>11. CASE Abort
    BY <1>11 DEF Abort, End, Nothing, TypeOK
  <1>12. CASE EndBatch
    BY <1>12, ViewType DEF EndBatch, End, Nothing, TypeOK
  <1> QED
    BY <1>1, <1>2, <1>3, <1>4, <1>5, <1>6, <1>7, <1>8, <1>9, <1>10, <1>11, <1>12
    DEF Next, RequestStep, WorkerStep

(* Requests and the worker keep to their own bookkeeping.                   *)
LEMMA BooksStep ==
  ASSUME TypeOK, WorkerInv, RequestInv, Next
  PROVE  WorkerInv' /\ RequestInv'
  <1> USE DEF request, worker
  <1>1. ASSUME NEW r \in Request, RequestStep(r) PROVE WorkerInv' /\ RequestInv'
    <2>1. ASSUME NEW o \in {"edit", "show", "hide"}, NEW p \in Profile, Begin(r, o, p)
          PROVE  WorkerInv' /\ RequestInv'
      <3>1. copy'[r] \in Public /\ about'[r] = p
        BY <2>1 DEF Begin, TypeOK, Public, Text
      <3> QED
        BY <2>1, <3>1 DEF Begin, Goto, TypeOK, WorkerInv, RequestInv
    <2>2. CASE Mark(r)
      BY <2>2 DEF Mark, Goto, TypeOK, WorkerInv, RequestInv
    <2>3. CASE Commit(r)
      BY <2>3 DEF Commit, Leave, Goto, TypeOK, WorkerInv, RequestInv
    <2> QED
      BY <1>1, <2>1, <2>2, <2>3 DEF RequestStep
  <1>2. ASSUME NEW p \in Profile, ChangeUnmarked(p) PROVE WorkerInv' /\ RequestInv'
    BY <1>2 DEF ChangeUnmarked, WorkerInv, RequestInv
  <1>3. CASE WorkerStep
    <2>1. RequestInv'
      BY <1>3 DEF WorkerStep, StartFull, SelectStale, Remove, Look, Abort, EndBatch, End,
                  Read, Embed, RequestInv
    <2>2. ASSUME NEW p \in Profile, Read(p) PROVE WorkerInv'
      BY <2>2, NullAssumption DEF Read, TypeOK, WorkerInv
    <2>3. WorkerInv'
      BY <1>3, <2>2 DEF WorkerStep, StartFull, SelectStale, Remove, Look, Abort, EndBatch,
                        End, Embed, Turn, WorkerInv
    <2> QED
      BY <2>1, <2>3
  <1> QED
    BY <1>1, <1>2, <1>3 DEF Next

-----------------------------------------------------------------------------
(* What a step of the worker does to the invariants about requests: it      *)
(* takes up only what it finds unmarked, or notes the disturbance.          *)
LEMMA WorkerApart ==
  ASSUME TypeOK, WorkerInv, RequestInv, TurnsInv, ApartInv, WorkerStep
  PROVE  TurnsInv' /\ ApartInv'
  <1> USE DEF request, worker
  <1>1. UNCHANGED <<stage, about, mark>> /\ disturbed \subseteq disturbed'
    BY DEF WorkerStep, StartFull, SelectStale, Remove, Look, Abort, EndBatch, End,
           Read, Embed, Disturb
  <1>2. ASSUME NEW p \in Profile \ disturbed', NEW r \in Request, stage[r] = "marked",
               about[r] = p, AtWork(p)'
        PROVE  AtWork(p)
    <2>1. r \in Marking(p)
      BY <1>2 DEF Marking
    <2>2. CASE SelectStale
      BY <1>2, <2>1, <2>2 DEF SelectStale, Load, Disturb, AtWork, TypeOK
    <2>3. ASSUME NEW q \in Profile, Read(q) PROVE AtWork(p)
      BY <1>2, <2>1, <2>3 DEF Read, Disturb, AtWork, TypeOK
    <2>4. CASE StartFull
      BY <1>2, <2>4 DEF StartFull, AtWork
    <2>5. CASE Remove
      BY <1>2, <2>5, NullAssumption DEF Remove, Turn, AtWork, TypeOK
    <2>6. CASE Look
      BY <1>2, <2>6, NullAssumption DEF Look, Turn, AtWork, TypeOK
    <2>7. ASSUME NEW e \in Text \cup {NoText}, Embed(e) PROVE AtWork(p)
      BY <1>2, <2>7, NullAssumption DEF Embed, Turn, AtWork, TypeOK
    <2>8. CASE Abort \/ EndBatch
      BY <1>2, <2>8, NullAssumption DEF Abort, EndBatch, End, Nothing, AtWork
    <2> QED
      BY <2>2, <2>3, <2>4, <2>5, <2>6, <2>7, <2>8 DEF WorkerStep
  <1>3. ApartInv'
    BY <1>1, <1>2 DEF ApartInv
  <1>4. ASSUME NEW r \in Request, stage[r] = "marked", about[r] \notin disturbed
        PROVE  row'[about[r]] = row[about[r]]
    <2>1. about[r] \in Profile \ disturbed /\ ~AtWork(about[r])
      BY <1>4 DEF RequestInv, ApartInv
    <2>2. CASE EndBatch
      BY <2>1, <2>2 DEF EndBatch, View, AtWork
    <2>3. CASE ~EndBatch
      BY <2>3 DEF WorkerStep, StartFull, SelectStale, Remove, Look, Abort, Read, Embed
    <2> QED
      BY <2>2, <2>3
  <1>5. TurnsInv'
    BY <1>1, <1>4 DEF TurnsInv
  <1> QED
    BY <1>3, <1>5

LEMMA RequestApart ==
  ASSUME TypeOK, WorkerInv, RequestInv, TurnsInv, ApartInv,
         NEW r \in Request, RequestStep(r)
  PROVE  TurnsInv' /\ ApartInv'
  <1> USE DEF request, worker
  <1>1. ASSUME NEW o \in {"edit", "show", "hide"}, NEW p \in Profile, Begin(r, o, p)
        PROVE  TurnsInv' /\ ApartInv'
    <2>1. TurnsInv'
      BY <1>1 DEF Begin, Goto, TurnsInv, TypeOK
    <2>2. ApartInv'
      BY <1>1 DEF Begin, Goto, ApartInv, AtWork, TypeOK
    <2> QED
      BY <2>1, <2>2
  <1>2. CASE Mark(r)
    <2>1. \A s \in Request : stage[s] = "marked" => about[s] # about[r]
      BY <1>2 DEF Mark, Marking
    <2>2. TurnsInv'
      BY <1>2, <2>1 DEF Mark, Goto, TurnsInv, TypeOK
    <2>3. ApartInv'
      BY <1>2 DEF Mark, Goto, ApartInv, AtWork, TypeOK
    <2> QED
      BY <2>2, <2>3
  <1>3. CASE Commit(r)
    <2>1. /\ about[r] \in Profile /\ about' = about /\ disturbed' = disturbed
          /\ stage'[r] # "marked"
          /\ \A s \in Request \ {r} : stage'[s] = stage[s] /\ mark'[s] = mark[s]
          /\ \A p \in Profile \ {about[r]} : row'[p] = row[p]
      BY <1>3 DEF Commit, Leave, Goto, TypeOK, RequestInv
    <2>2. \A s \in Request \ {r} : stage[s] = "marked" => about[s] \in Profile \ {about[r]}
      BY <1>3 DEF Commit, TurnsInv, RequestInv
    <2>3. TurnsInv'
      BY <2>1, <2>2 DEF TurnsInv
    <2>4. ApartInv'
      BY <1>3, <2>1 DEF Commit, ApartInv, AtWork
    <2> QED
      BY <2>3, <2>4
  <1> QED
    BY <1>1, <1>2, <1>3 DEF RequestStep

LEMMA UnmarkedApart ==
  ASSUME TurnsInv, ApartInv, NEW p \in Profile, ChangeUnmarked(p)
  PROVE  TurnsInv' /\ ApartInv'
  BY DEF ChangeUnmarked, TurnsInv, ApartInv, AtWork, request, worker

-----------------------------------------------------------------------------
(* A request leaves no row, or one that is marked.                          *)
LEMMA CommitMarks ==
  ASSUME TypeOK, RequestInv, TurnsInv, NEW r \in Request, Commit(r),
         about[r] \notin disturbed, stage'[r] = "done"
  PROVE  row'[about[r]] = NoRow \/ row'[about[r]].stale
  <1>1. /\ stage[r] = "marked" /\ about[r] \in Profile
        /\ mark[r] = row[about[r]]
        /\ row \in [Profile -> Row \cup {NoRow}]
    BY DEF Commit, RequestInv, TurnsInv, TypeOK
  <1>2. CASE Deletes(r)
    BY <1>1, <1>2 DEF Commit
  <1>3. CASE ~Deletes(r)
    <2>1. row' = [row EXCEPT ![about[r]] = Marked(r)]
      BY <1>1, <1>3 DEF Commit, Leave, Goto, TypeOK
    <2>2. Marked(r).stale
      BY <1>1 DEF Marked, Row
    <2> QED
      BY <1>1, <2>1, <2>2
  <1> QED
    BY <1>2, <1>3

LEMMA RequestExact ==
  ASSUME TypeOK, RequestInv, TurnsInv, ApartInv, ReadInv,
         UndisturbedEmbeddingsAreExact, NEW r \in Request, RequestStep(r)
  PROVE  ReadInv' /\ UndisturbedEmbeddingsAreExact'
  <1> USE DEF request, worker
  <1>1. CASE UNCHANGED <<profile, row, worker>> /\ disturbed \subseteq disturbed'
    BY <1>1 DEF ReadInv, UndisturbedEmbeddingsAreExact, View, Exact
  <1>2. CASE Commit(r)
    <2> DEFINE p == about[r]
    <2>1. /\ p \in Profile /\ stage[r] = "marked" /\ UNCHANGED <<worker, disturbed>>
          /\ stage' = [stage EXCEPT ![r] = "done"] \/ UNCHANGED <<profile, row>>
          /\ \A q \in Profile \ {p} : profile'[q] = profile[q] /\ row'[q] = row[q]
      BY <1>2 DEF Commit, Leave, Goto, Changed, RequestInv, TypeOK
    <2>2. p \notin disturbed => ~AtWork(p)
      BY <2>1 DEF ApartInv
    <2>3. p \notin disturbed => row'[p] = NoRow \/ row'[p].stale \/ UNCHANGED <<profile, row>>
      BY <1>2, <2>1, CommitMarks DEF TypeOK
    <2>4. UndisturbedEmbeddingsAreExact'
      BY <2>1, <2>3 DEF UndisturbedEmbeddingsAreExact, Exact
    <2>5. ReadInv'
      BY <2>1, <2>2 DEF ReadInv, AtWork, View, Exact
    <2> QED
      BY <2>4, <2>5
  <1>3. RequestStep(r) => Commit(r) \/ (UNCHANGED <<profile, row, worker>> /\ disturbed \subseteq disturbed')
    BY DEF RequestStep, Begin, Mark
  <1> QED
    BY <1>1, <1>2, <1>3

LEMMA UnmarkedExact ==
  ASSUME TypeOK, ReadInv, UndisturbedEmbeddingsAreExact, NEW p \in Profile, ChangeUnmarked(p)
  PROVE  ReadInv' /\ UndisturbedEmbeddingsAreExact'
  BY DEF ChangeUnmarked, TypeOK, ReadInv, UndisturbedEmbeddingsAreExact, View, Exact,
         request, worker

(* An embedding of an undisturbed profile is written as it was computed.    *)
LEMMA EmbedExact ==
  ASSUME TypeOK, WorkerInv, ReadInv, NEW e \in Text \cup {NoText}, Embed(e),
         at \notin disturbed
  PROVE  Flushed(e).stale \/ Exact(at, Flushed(e))
  <1>1. /\ at \in Profile /\ source = profile[at] /\ source.public
        /\ e \in {source.text, NoText} /\ ~Clashes
        /\ held[at] \in Row \cup {NoRow}
        /\ held[at] # NoRow => held[at] = View(at)
    BY DEF Embed, WorkerInv, ReadInv, TypeOK
  <1>2. Flushed(e).stale = (e = NoText) /\ Flushed(e).embedding = e
    <2>1. CASE held[at] = NoRow
      BY <2>1 DEF Flushed, Refreshed
    <2>2. CASE held[at] # NoRow
      BY <1>1, <2>2 DEF Flushed, Refreshed, Row
    <2> QED
      BY <2>1, <2>2
  <1> QED
    BY <1>1, <1>2 DEF Exact

LEMMA WorkerExact ==
  ASSUME TypeOK, WorkerInv, ReadInv, UndisturbedEmbeddingsAreExact, WorkerStep
  PROVE  ReadInv' /\ UndisturbedEmbeddingsAreExact'
  <1> USE DEF request, worker
  <1>1. CASE StartFull
    BY <1>1 DEF StartFull, ReadInv, UndisturbedEmbeddingsAreExact, View, Exact
  <1>2. CASE SelectStale
    <2>1. UndisturbedEmbeddingsAreExact'
      BY <1>2 DEF SelectStale, Disturb, UndisturbedEmbeddingsAreExact, Exact
    <2>2. ReadInv'
      BY <1>2 DEF SelectStale, Disturb, Load, ReadInv, View, Exact
    <2> QED
      BY <2>1, <2>2
  <1>3. ASSUME NEW p \in Profile, Read(p)
        PROVE  ReadInv' /\ UndisturbedEmbeddingsAreExact'
    BY <1>3 DEF Read, Disturb, ReadInv, UndisturbedEmbeddingsAreExact, View, Exact
  <1>4. CASE Remove
    <2>1. UndisturbedEmbeddingsAreExact'
      BY <1>4 DEF Remove, UndisturbedEmbeddingsAreExact, Exact
    <2>2. ReadInv'
      BY <1>4, NullAssumption DEF Remove, Turn, TypeOK, ReadInv, View, Exact
    <2> QED
      BY <2>1, <2>2
  <1>5. CASE Look
    <2>1. UndisturbedEmbeddingsAreExact'
      BY <1>5 DEF Look, UndisturbedEmbeddingsAreExact, Exact
    <2>2. ReadInv'
      BY <1>5, NullAssumption DEF Look, Turn, Held, TypeOK, ReadInv, View, Exact
    <2> QED
      BY <2>1, <2>2
  <1>6. ASSUME NEW e \in Text \cup {NoText}, Embed(e)
        PROVE  ReadInv' /\ UndisturbedEmbeddingsAreExact'
    <2>1. UndisturbedEmbeddingsAreExact'
      BY <1>6 DEF Embed, UndisturbedEmbeddingsAreExact, Exact
    <2>2. at \in Profile /\ (at \notin disturbed => Flushed(e).stale \/ Exact(at, Flushed(e)))
      BY <1>6, EmbedExact DEF Embed, WorkerInv, TypeOK
    <2> DEFINE new == Flushed(e)
    <2>3. /\ written' = written \cup {at} /\ buffer' = [buffer EXCEPT ![at] = new]
          /\ held' = [held EXCEPT ![at] = NoRow] /\ at' = NoProfile
          /\ UNCHANGED <<profile, row, disturbed>>
      BY <1>6 DEF Embed, Turn
    <2>4. at \notin disturbed => new.stale \/ (profile[at].public /\ new.embedding = profile[at].text)
      BY <2>2 DEF Exact
    <2> HIDE DEF new
    <2>5. ReadInv'
      BY <2>2, <2>3, <2>4, NullAssumption DEF TypeOK, ReadInv, View, Exact
    <2> QED
      BY <2>1, <2>5
  <1>7. CASE Abort \/ EndBatch
    <2>1. ReadInv'
      BY <1>7, NullAssumption DEF Abort, EndBatch, End, Nothing, ReadInv
    <2>2. UndisturbedEmbeddingsAreExact'
      BY <1>7 DEF Abort, EndBatch, End, View, ReadInv, UndisturbedEmbeddingsAreExact, Exact
    <2> QED
      BY <2>1, <2>2
  <1> QED
    BY <1>1, <1>2, <1>3, <1>4, <1>5, <1>6, <1>7 DEF WorkerStep

(* An undisturbed request finds the row it has looked up.                   *)
LEMMA FailStep ==
  ASSUME TypeOK, RequestInv, TurnsInv, UpdatesFailOnlyInARace, Next
  PROVE  UpdatesFailOnlyInARace'
  <1> USE DEF request, worker
  <1>1. disturbed \subseteq disturbed'
    BY DEF Next, RequestStep, WorkerStep, Begin, Mark, Commit, ChangeUnmarked, StartFull,
           SelectStale, Remove, Look, Abort, EndBatch, End, Read, Embed, Disturb
  <1>2. ASSUME NEW r \in Request, stage'[r] = "failed" PROVE about'[r] \in disturbed'
    <2>1. CASE stage[r] = "failed" /\ about'[r] = about[r]
      BY <1>1, <2>1 DEF UpdatesFailOnlyInARace
    <2>2. CASE ~(stage[r] = "failed" /\ about'[r] = about[r])
      <3>1. PICK s \in Request : RequestStep(s)
        BY <1>2, <2>2 DEF Next, ChangeUnmarked, WorkerStep, StartFull, SelectStale, Remove,
                          Look, Abort, EndBatch, End, Read, Embed
      <3>2. Commit(s) /\ s = r /\ stage[s] = "marked" /\ Collides(s)
        BY <1>2, <2>2, <3>1 DEF RequestStep, Begin, Mark, Commit, Leave, Goto, TypeOK
      <3>3. about[r] \in disturbed
        BY <3>2 DEF Collides, TurnsInv
      <3> QED
        BY <3>2, <3>3 DEF Commit
    <2> QED
      BY <2>1, <2>2
  <1> QED
    BY <1>2 DEF UpdatesFailOnlyInARace

-----------------------------------------------------------------------------
LEMMA Step == IInv /\ [Next]_vars => IInv'
  <1> SUFFICES ASSUME IInv, [Next]_vars PROVE IInv'
    OBVIOUS
  <1>1. CASE UNCHANGED vars
    BY <1>1 DEF vars, request, worker, IInv, TypeOK, WorkerInv, RequestInv, TurnsInv,
                ApartInv, ReadInv, AtWork, View, Exact,
                UndisturbedEmbeddingsAreExact, UpdatesFailOnlyInARace
  <1>2. CASE Next
    <2>1. TypeOK' /\ WorkerInv' /\ RequestInv'
      BY <1>2, TypeStep, BooksStep DEF IInv
    <2>2. TurnsInv' /\ ApartInv'
      BY <1>2, WorkerApart, RequestApart, UnmarkedApart DEF IInv, Next
    <2>3. ReadInv' /\ UndisturbedEmbeddingsAreExact'
      BY <1>2, WorkerExact, RequestExact, UnmarkedExact DEF IInv, Next
    <2>4. UpdatesFailOnlyInARace'
      BY <1>2, FailStep DEF IInv
    <2> QED
      BY <2>1, <2>2, <2>3, <2>4 DEF IInv
  <1> QED
    BY <1>1, <1>2

LEMMA Inductive == Spec => []IInv
  BY Beginning, Step, PTL DEF Spec

(* Every variable has its type in every reachable state.                    *)
THEOREM TypeCorrect == Spec => []TypeOK
  <1>1. IInv => TypeOK
    BY DEF IInv
  <1> QED
    BY <1>1, Inductive, PTL

(* mark_public_entity_stale and refresh_public_entity_embedding: unless a   *)
(* request overlaps the worker's work on a profile, a row that is not       *)
(* marked stale embeds the text of a public profile as it is.               *)
THEOREM Exactness == Spec => []UndisturbedEmbeddingsAreExact
  <1>1. IInv => UndisturbedEmbeddingsAreExact
    BY DEF IInv
  <1> QED
    BY <1>1, Inductive, PTL

(* update_me and update_server: a request whose mark cannot be written has  *)
(* met the worker; requests that overlap each other do not fail.            *)
THEOREM Failures == Spec => []UpdatesFailOnlyInARace
  <1>1. IInv => UpdatesFailOnlyInARace
    BY DEF IInv
  <1> QED
    BY <1>1, Inductive, PTL
=============================================================================
