------------------------ MODULE DirectMessagesProofs ------------------------
(* That overlapping requests are the only source of duplicate channels,     *)
(* that a message reopens its channel, and that the clients hear what the   *)
(* database holds, for any number of users, channels and requests.  All of  *)
(* it rests on one fact: a request that is in flight knows every other one  *)
(* that is, so what changed since its SELECT was changed by a request it    *)
(* overlaps.                                                                *)
EXTENDS DirectMessages, TLAPS

(* What a stage says of the request's parameters.                           *)
ParamsInv ==
  \A r \in Request :
    /\ stage[r] = "idle" => op[r] = "none"
    /\ stage[r] = "creating" => pair[r] \in Pairs /\ op[r] = "open"
    /\ stage[r] \in {"reopening", "hiding", "sending", "announcing"} => dm[r] \in Dm
    /\ stage[r] \in {"reopening", "hiding"} => by[r] \in User
    /\ stage[r] = "hiding" => op[r] = "close"

OverlapInv ==
  /\ \A q, r \in Request : q \in overlaps[r] => r \in overlaps[q]
  /\ \A q, r \in Request : q # r /\ InFlight(q) /\ InFlight(r) => q \in overlaps[r]

(* A channel was created by a request that has left "creating", and a       *)
(* request still there found none for its pair: those there are now come    *)
(* from requests it overlaps.                                               *)
CreationInv ==
  /\ \A d \in Dm : participants[d] # {} =>
       /\ created_by[d] \in Request
       /\ stage[created_by[d]] \notin {"idle", "creating"}
  /\ \A r \in Request : \A d \in Dm :
       stage[r] = "creating" /\ participants[d] = pair[r]
         => created_by[d] \in overlaps[r]

(* What a send has not deleted was inserted by a close it overlaps.         *)
ClosedMeanwhile(r, u) ==
  \E q \in overlaps[r] : op[q] = "close" /\ by[q] = u /\ dm[q] = dm[r]

SendingInv ==
  \A r \in Request : \A u \in User :
    stage[r] = "sending" /\ <<dm[r], u>> \in hidden
      => <<dm[r], u>> \in doomed[r] \/ ClosedMeanwhile(r, u)

IInv == TypeOK /\ ParamsInv /\ OverlapInv /\ CreationInv /\ DuplicatesNeedARace /\ SendingInv

LEMMA PairsAreNotEmpty == ASSUME NEW p \in Pairs PROVE p # {} /\ p \subseteq User
  BY DEF Pairs

LEMMA InitInv == Init => IInv
  BY NullAssumption
  DEF Init, IInv, TypeOK, ParamsInv, OverlapInv, CreationInv, DuplicatesNeedARace,
      SendingInv, InFlight, Stage, Pairs

(* Beginning touches no parameter but r's own.                              *)
LEMMA BeginEffect ==
  ASSUME TypeOK, OverlapInv, NEW r \in Request,
         NEW o \in {"open", "close", "send"}, NEW u \in User, NEW p \in Pairs \cup {{}},
         NEW s \in Stage, Begin(r, o, u, p), Goto(r, s)
  PROVE  /\ op' \in [Request -> {"none", "open", "close", "send"}]
         /\ by' \in [Request -> User \cup {NoUser}]
         /\ pair' \in [Request -> Pairs \cup {{}}]
         /\ stage' \in [Request -> Stage]
         /\ overlaps' \in [Request -> SUBSET Request]
         /\ OverlapInv'
         /\ op'[r] = o /\ by'[r] = u /\ pair'[r] = p /\ stage'[r] = s
         /\ \A q \in Request \ {r} :
              /\ op'[q] = op[q] /\ by'[q] = by[q] /\ pair'[q] = pair[q] /\ stage'[q] = stage[q]
         /\ \A q \in Request : overlaps[q] \subseteq overlaps'[q]
         /\ stage[r] = "idle"
  <1>1. /\ op' \in [Request -> {"none", "open", "close", "send"}]
        /\ by' \in [Request -> User \cup {NoUser}]
        /\ pair' \in [Request -> Pairs \cup {{}}]
        /\ stage' \in [Request -> Stage]
        /\ overlaps' \in [Request -> SUBSET Request]
    BY DEF Begin, Goto, TypeOK
  <1>2. /\ op'[r] = o /\ by'[r] = u /\ pair'[r] = p /\ stage'[r] = s
        /\ \A q \in Request \ {r} :
             /\ op'[q] = op[q] /\ by'[q] = by[q] /\ pair'[q] = pair[q] /\ stage'[q] = stage[q]
        /\ \A q \in Request : overlaps[q] \subseteq overlaps'[q]
        /\ stage[r] = "idle"
    BY DEF Begin, Goto, TypeOK
  <1>3. OverlapInv'
    BY <1>2 DEF Begin, Goto, TypeOK, OverlapInv, InFlight
  <1> QED
    BY <1>1, <1>2, <1>3

(* A request that moves on within its own stages keeps the overlaps.        *)
LEMMA OverlapsKept ==
  ASSUME TypeOK, OverlapInv, UNCHANGED overlaps, NEW r \in Request, NEW s \in Stage,
         InFlight(r), Goto(r, s)
  PROVE  /\ OverlapInv'
         /\ stage' \in [Request -> Stage]
         /\ stage'[r] = s
         /\ \A q \in Request \ {r} : stage'[q] = stage[q]
  BY DEF TypeOK, OverlapInv, InFlight, Goto

(* The three actions that begin a request, in one form.                     *)
Begins(r) == FindExisting(r) \/ FindHidden(r) \/ Unhide(r)

LEMMA Beginning ==
  ASSUME IInv, NEW r \in Request, Begins(r)
  PROVE  /\ UNCHANGED <<database, told>>
         /\ op' \in [Request -> {"none", "open", "close", "send"}]
         /\ by' \in [Request -> User \cup {NoUser}]
         /\ pair' \in [Request -> Pairs \cup {{}}]
         /\ stage' \in [Request -> Stage]
         /\ overlaps' \in [Request -> SUBSET Request]
         /\ dm' \in [Request -> Dm \cup {NoDm}]
         /\ doomed' \in [Request -> SUBSET (Dm \X User)]
         /\ OverlapInv'
         /\ stage[r] = "idle"
         /\ stage'[r] \in {"creating", "reopening", "hiding", "sending", "announcing"}
         /\ by'[r] \in User
         /\ stage'[r] = "creating" =>
              pair'[r] \in Pairs /\ op'[r] = "open" /\ Existing(pair'[r]) = {}
         /\ stage'[r] # "creating" => dm'[r] \in Dm
         /\ stage'[r] = "hiding" => op'[r] = "close"
         /\ stage'[r] = "sending" => doomed'[r] = hidden \cap ({dm'[r]} \X User)
         /\ \A q \in Request \ {r} :
              /\ op'[q] = op[q] /\ by'[q] = by[q] /\ pair'[q] = pair[q]
              /\ stage'[q] = stage[q] /\ dm'[q] = dm[q] /\ doomed'[q] = doomed[q]
         /\ \A q \in Request : overlaps[q] \subseteq overlaps'[q]
  <1> USE DEF IInv
  <1>1. CASE FindExisting(r)
    <2>1. PICK p \in Pairs :
             /\ \E u \in p : Begin(r, "open", u, p)
             /\ \/ Existing(p) = {} /\ Goto(r, "creating") /\ UNCHANGED dm
                \/ \E d \in Existing(p) : dm' = [dm EXCEPT ![r] = d] /\ Goto(r, "reopening")
      BY <1>1 DEF FindExisting
    <2>2. PICK u \in User : Begin(r, "open", u, p)
      BY <2>1, PairsAreNotEmpty
    <2>3. PICK s \in {"creating", "reopening"} :
             /\ Goto(r, s)
             /\ s = "creating" => Existing(p) = {} /\ UNCHANGED dm
             /\ s # "creating" => \E d \in Existing(p) : dm' = [dm EXCEPT ![r] = d]
      BY <2>1
    <2>4. s \in Stage
      BY DEF Stage
    <2>5. /\ dm' \in [Request -> Dm \cup {NoDm}]
          /\ s # "creating" => dm'[r] \in Dm
          /\ \A q \in Request \ {r} : dm'[q] = dm[q]
      BY <2>3 DEF Existing, TypeOK
    <2>6. UNCHANGED <<database, told, doomed>>
      BY <1>1 DEF FindExisting
    <2> QED
      BY <2>2, <2>3, <2>4, <2>5, <2>6, BeginEffect DEF TypeOK
  <1>2. CASE FindHidden(r)
    <2>1. PICK d \in Dm :
             /\ \E u \in participants[d] : Begin(r, "close", u, {})
             /\ dm' = [dm EXCEPT ![r] = d]
             /\ Goto(r, "announcing") \/ Goto(r, "hiding")
      BY <1>2 DEF FindHidden
    <2>2. PICK u \in User : Begin(r, "close", u, {})
      BY <2>1, PairsAreNotEmpty DEF TypeOK
    <2>3. PICK s \in {"announcing", "hiding"} : Goto(r, s)
      BY <2>1
    <2>4. s \in Stage
      BY DEF Stage
    <2>5. UNCHANGED <<database, told, doomed>>
      BY <1>2 DEF FindHidden
    <2>6. /\ op' \in [Request -> {"none", "open", "close", "send"}]
          /\ by' \in [Request -> User \cup {NoUser}]
          /\ pair' \in [Request -> Pairs \cup {{}}]
          /\ stage' \in [Request -> Stage]
          /\ overlaps' \in [Request -> SUBSET Request]
          /\ OverlapInv'
          /\ stage[r] = "idle" /\ stage'[r] = s /\ op'[r] = "close" /\ by'[r] = u
          /\ \A q \in Request \ {r} :
               op'[q] = op[q] /\ by'[q] = by[q] /\ pair'[q] = pair[q] /\ stage'[q] = stage[q]
          /\ \A q \in Request : overlaps[q] \subseteq overlaps'[q]
      BY <2>2, <2>3, <2>4, BeginEffect
    <2>7. /\ dm' \in [Request -> Dm \cup {NoDm}]
          /\ dm'[r] \in Dm
          /\ \A q \in Request \ {r} : dm'[q] = dm[q]
      BY <2>1 DEF TypeOK
    <2> QED
      BY <2>2, <2>3, <2>5, <2>6, <2>7 DEF TypeOK
  <1>3. CASE Unhide(r)
    <2>1. PICK d \in Dm :
             /\ \E u \in participants[d] : Begin(r, "send", u, {})
             /\ dm' = [dm EXCEPT ![r] = d]
             /\ doomed' = [doomed EXCEPT ![r] = hidden \cap ({d} \X User)]
             /\ Goto(r, "sending")
             /\ UNCHANGED <<database, told>>
      BY <1>3 DEF Unhide
    <2>2. PICK u \in User : Begin(r, "send", u, {})
      BY <2>1, PairsAreNotEmpty DEF TypeOK
    <2>3. "sending" \in Stage
      BY DEF Stage
    <2>4. /\ op' \in [Request -> {"none", "open", "close", "send"}]
          /\ by' \in [Request -> User \cup {NoUser}]
          /\ pair' \in [Request -> Pairs \cup {{}}]
          /\ stage' \in [Request -> Stage]
          /\ overlaps' \in [Request -> SUBSET Request]
          /\ OverlapInv'
          /\ stage[r] = "idle" /\ stage'[r] = "sending" /\ op'[r] = "send" /\ by'[r] = u
          /\ \A q \in Request \ {r} :
               op'[q] = op[q] /\ by'[q] = by[q] /\ pair'[q] = pair[q] /\ stage'[q] = stage[q]
          /\ \A q \in Request : overlaps[q] \subseteq overlaps'[q]
      BY <2>1, <2>2, <2>3, BeginEffect
    <2>5. /\ dm' \in [Request -> Dm \cup {NoDm}]
          /\ dm'[r] = d
          /\ doomed' \in [Request -> SUBSET (Dm \X User)]
          /\ doomed'[r] = hidden \cap ({d} \X User)
          /\ \A q \in Request \ {r} : dm'[q] = dm[q] /\ doomed'[q] = doomed[q]
      BY <2>1 DEF TypeOK
    <2> QED
      BY <2>1, <2>2, <2>4, <2>5
  <1> QED
    BY <1>1, <1>2, <1>3 DEF Begins

(* The actions that a request goes on with.                                 *)
GoesOn(r) ==
  \/ Create(r) \/ Reopen(r) \/ Hide(r) \/ Send(r) \/ Announce(r) \/ Fail(r)

LEMMA NextCases ==
  ASSUME [Next]_vars
  PROVE  (\E r \in Request : Begins(r) \/ GoesOn(r)) \/ UNCHANGED vars
  BY DEF Next, Begins, GoesOn

LEMMA GoingOn ==
  ASSUME IInv, NEW r \in Request, GoesOn(r)
  PROVE  /\ UNCHANGED <<params, overlaps>>
         /\ doomed' \in [Request -> SUBSET (Dm \X User)]
         /\ InFlight(r)
         /\ stage' \in [Request -> Stage]
         /\ stage'[r] \in {"announcing", "done", "failed"}
         /\ stage'[r] = "announcing" =>
              stage[r] \in {"creating", "reopening", "hiding", "sending"}
         /\ \A q \in Request \ {r} : stage'[q] = stage[q]
         /\ dm' \in [Request -> Dm \cup {NoDm}]
         /\ \A q \in Request \ {r} : dm'[q] = dm[q]
         /\ stage'[r] = "announcing" => dm'[r] \in Dm
         /\ OverlapInv'
  <1>1. PICK s \in {"announcing", "done", "failed"} : Goto(r, s)
    BY DEF GoesOn, Create, Reopen, Hide, Send, Announce, Fail
  <1>2. /\ UNCHANGED <<params, overlaps>>
        /\ InFlight(r)
        /\ s = "announcing" => stage[r] \in {"creating", "reopening", "hiding", "sending"}
        /\ s = "announcing" /\ stage[r] = "creating" => Create(r)
    BY <1>1 DEF GoesOn, Create, Reopen, Hide, Send, Announce, Fail, Goto, InFlight,
                params, database, IInv, TypeOK
  <1>3. doomed' \in [Request -> SUBSET (Dm \X User)]
    BY DEF GoesOn, Create, Reopen, Hide, Send, Announce, Fail, IInv, TypeOK
  <1>4. /\ dm' \in [Request -> Dm \cup {NoDm}]
        /\ \A q \in Request \ {r} : dm'[q] = dm[q]
        /\ s = "announcing" => dm'[r] \in Dm
    <2>1. CASE Create(r)
      BY <2>1 DEF Create, IInv, TypeOK
    <2>2. CASE ~Create(r)
      <3>1. dm' = dm
        BY <2>2 DEF GoesOn, Reopen, Hide, Send, Announce, Fail
      <3> QED
        BY <1>2, <2>2, <3>1 DEF IInv, TypeOK, ParamsInv
    <2> QED
      BY <2>1, <2>2
  <1>5. s \in Stage
    BY DEF Stage
  <1> QED
    BY <1>1, <1>2, <1>3, <1>4, <1>5, OverlapsKept DEF IInv

LEMMA TypeStep == IInv /\ [Next]_vars => TypeOK' /\ ParamsInv' /\ OverlapInv'
  <1> SUFFICES ASSUME IInv, [Next]_vars PROVE TypeOK' /\ ParamsInv' /\ OverlapInv'
    OBVIOUS
  <1>1. ASSUME NEW r \in Request, Begins(r) PROVE TypeOK' /\ ParamsInv' /\ OverlapInv'
    <2>1. TypeOK'
      BY <1>1, Beginning DEF database, TypeOK, IInv
    <2>2. ParamsInv'
      BY <1>1, Beginning DEF ParamsInv, IInv
    <2> QED
      BY <1>1, <2>1, <2>2, Beginning
  <1>2. ASSUME NEW r \in Request, GoesOn(r) PROVE TypeOK' /\ ParamsInv' /\ OverlapInv'
    <2>1. /\ participants' \in [Dm -> Pairs \cup {{}}]
          /\ created_by' \in [Dm -> Request \cup {NoRequest}]
      <3>1. CASE Create(r)
        <4>1. PICK d \in Dm : /\ participants' = [participants EXCEPT ![d] = pair[r]]
                              /\ created_by' = [created_by EXCEPT ![d] = r]
          BY <3>1 DEF Create
        <4>2. pair[r] \in Pairs
          BY <3>1 DEF Create, ParamsInv, IInv
        <4> QED
          BY <4>1, <4>2 DEF TypeOK, IInv
      <3>2. CASE ~Create(r)
        <4>1. UNCHANGED <<participants, created_by>>
          BY <1>2, <3>2 DEF GoesOn, Reopen, Hide, Send, Announce, Fail, database
        <4> QED
          BY <4>1 DEF TypeOK, IInv
      <3> QED
        BY <3>1, <3>2
    <2>2. hidden' \subseteq Dm \X User
      BY <1>2 DEF GoesOn, Create, Reopen, Hide, Send, Announce, Fail, database,
                  ParamsInv, TypeOK, IInv
    <2>3. told' \in [Dm -> [User -> {"nothing", "open", "closed"}]]
      BY <1>2 DEF GoesOn, Create, Reopen, Hide, Send, Announce, Fail, TypeOK, IInv
    <2>4. TypeOK'
      BY <1>2, <2>1, <2>2, <2>3, GoingOn DEF params, TypeOK, IInv
    <2>5. ParamsInv'
      BY <1>2, GoingOn DEF params, ParamsInv, IInv
    <2> QED
      BY <1>2, <2>4, <2>5, GoingOn
  <1>3. CASE UNCHANGED vars
    <2>1. TypeOK'
      BY <1>3 DEF vars, TypeOK, IInv
    <2>2. ParamsInv'
      BY <1>3 DEF vars, ParamsInv, IInv
    <2>3. OverlapInv'
      BY <1>3 DEF vars, OverlapInv, InFlight, IInv
    <2> QED
      BY <2>1, <2>2, <2>3
  <1> QED
    BY <1>1, <1>2, <1>3, NextCases

(* A request about to create a channel overlaps whoever created one for the *)
(* same pair: its own SELECT found none.                                    *)
LEMMA CreationStep == IInv /\ [Next]_vars => CreationInv' /\ DuplicatesNeedARace'
  <1> SUFFICES ASSUME IInv, [Next]_vars PROVE CreationInv' /\ DuplicatesNeedARace'
    OBVIOUS
  <1> USE DEF IInv
  <1>1. ASSUME NEW r \in Request, Begins(r) PROVE CreationInv' /\ DuplicatesNeedARace'
    <2>1. UNCHANGED <<participants, created_by>>
      BY <1>1, Beginning DEF database
    <2>2. CreationInv'
      <3>1. ASSUME NEW d \in Dm, participants'[d] # {}
            PROVE  /\ created_by'[d] \in Request
                   /\ stage'[created_by'[d]] \notin {"idle", "creating"}
        BY <1>1, <2>1, <3>1, Beginning DEF CreationInv
      <3>2. ASSUME NEW q \in Request, NEW d \in Dm,
                   stage'[q] = "creating", participants'[d] = pair'[q]
            PROVE  created_by'[d] \in overlaps'[q]
        <4>1. q # r
          BY <1>1, <2>1, <3>2, Beginning DEF Existing
        <4>2. stage[q] = "creating" /\ pair'[q] = pair[q] /\ overlaps[q] \subseteq overlaps'[q]
          BY <1>1, <3>2, <4>1, Beginning
        <4> QED
          BY <2>1, <3>2, <4>2 DEF CreationInv
      <3> QED
        BY <3>1, <3>2 DEF CreationInv
    <2>3. DuplicatesNeedARace'
      <3>1. \A q \in Request : overlaps[q] \subseteq overlaps'[q]
        BY <1>1, Beginning
      <3> QED
        BY <2>1, <3>1 DEF DuplicatesNeedARace, CreationInv
    <2> QED
      BY <2>2, <2>3
  <1>2. ASSUME NEW r \in Request, Create(r) PROVE CreationInv' /\ DuplicatesNeedARace'
    <2>1. PICK d \in Dm : /\ participants[d] = {}
                          /\ participants' = [participants EXCEPT ![d] = pair[r]]
                          /\ created_by' = [created_by EXCEPT ![d] = r]
      BY <1>2 DEF Create
    <2>2. /\ stage[r] = "creating" /\ stage'[r] = "announcing"
          /\ \A q \in Request \ {r} : stage'[q] = stage[q]
          /\ UNCHANGED <<params, overlaps>>
      BY <1>2 DEF Create, Goto, TypeOK
    <2>3. pair[r] \in Pairs /\ pair[r] # {}
      BY <2>2, PairsAreNotEmpty DEF ParamsInv
    <2>4. \A q \in Request \ {r} : stage[q] = "creating" => r \in overlaps[q]
      BY <2>2 DEF OverlapInv, InFlight
    <2>5. CreationInv'
      BY <2>1, <2>2, <2>3, <2>4 DEF CreationInv, params, TypeOK
    <2>6. \A e \in Dm \ {d} : participants[e] = pair[r] =>
             created_by[e] \in overlaps[r] /\ r \in overlaps[created_by[e]]
      BY <2>2, <2>3 DEF CreationInv, OverlapInv, TypeOK
    <2>7. DuplicatesNeedARace'
      BY <2>1, <2>2, <2>3, <2>6 DEF DuplicatesNeedARace, TypeOK
    <2> QED
      BY <2>5, <2>7
  <1>3. ASSUME NEW r \in Request, GoesOn(r), ~Create(r)
        PROVE  CreationInv' /\ DuplicatesNeedARace'
    <2>1. UNCHANGED <<participants, created_by>>
      BY <1>3 DEF GoesOn, Reopen, Hide, Send, Announce, Fail, database
    <2>2. /\ UNCHANGED <<params, overlaps>>
          /\ stage'[r] \in {"announcing", "done", "failed"}
          /\ \A q \in Request \ {r} : stage'[q] = stage[q]
      BY <1>3, GoingOn
    <2> QED
      BY <2>1, <2>2 DEF CreationInv, DuplicatesNeedARace, params
  <1>4. CASE UNCHANGED vars
    BY <1>4 DEF vars, CreationInv, DuplicatesNeedARace
  <1> QED
    BY <1>1, <1>2, <1>3, <1>4, NextCases

(* Only a close inserts a hidden state, and it does so while it overlaps    *)
(* every send in flight.                                                    *)
LEMMA SendingStep == IInv /\ [Next]_vars => SendingInv'
  <1> SUFFICES ASSUME IInv, [Next]_vars,
                      NEW q \in Request, NEW u \in User,
                      stage'[q] = "sending", <<dm'[q], u>> \in hidden'
               PROVE  <<dm'[q], u>> \in doomed'[q] \/ ClosedMeanwhile(q, u)'
    BY DEF SendingInv
  <1> USE DEF IInv
  <1>1. ASSUME NEW r \in Request, Begins(r)
        PROVE  <<dm'[q], u>> \in doomed'[q] \/ ClosedMeanwhile(q, u)'
    <2>1. hidden' = hidden
      BY <1>1, Beginning DEF database
    <2>2. CASE q = r
      BY <1>1, <2>1, <2>2, Beginning
    <2>3. CASE q # r
      <3>1. /\ stage[q] = "sending" /\ dm'[q] = dm[q] /\ doomed'[q] = doomed[q]
            /\ overlaps[q] \subseteq overlaps'[q]
        BY <1>1, <2>3, Beginning
      <3>2. CASE <<dm[q], u>> \in doomed[q]
        BY <3>1, <3>2
      <3>3. CASE ClosedMeanwhile(q, u)
        <4>1. PICK c \in overlaps[q] : op[c] = "close" /\ by[c] = u /\ dm[c] = dm[q]
          BY <3>3 DEF ClosedMeanwhile
        <4>2. c \in Request
          BY DEF TypeOK
        <4>3. CASE c # r
          <5>1. op'[c] = op[c] /\ by'[c] = by[c] /\ dm'[c] = dm[c]
            BY <1>1, <4>2, <4>3, Beginning
          <5> QED
            BY <3>1, <4>1, <5>1 DEF ClosedMeanwhile
        <4>4. CASE c = r
          BY <1>1, <4>1, <4>4, Beginning DEF OverlapInv, ParamsInv
        <4> QED
          BY <4>3, <4>4
      <3> QED
        BY <2>1, <3>1, <3>2, <3>3 DEF SendingInv
    <2> QED
      BY <2>2, <2>3
  <1>2. ASSUME NEW r \in Request, GoesOn(r)
        PROVE  <<dm'[q], u>> \in doomed'[q] \/ ClosedMeanwhile(q, u)'
    <2>1. /\ UNCHANGED <<params, overlaps>>
          /\ q # r /\ stage[q] = "sending" /\ dm'[q] = dm[q]
          /\ InFlight(r)
      BY <1>2, GoingOn
    <2>2. CASE <<dm[q], u>> \in hidden
      <3>1. <<dm[q], u>> \in doomed[q] \/ ClosedMeanwhile(q, u)
        BY <2>1, <2>2 DEF SendingInv
      <3>2. ASSUME ClosedMeanwhile(q, u) PROVE ClosedMeanwhile(q, u)'
        <4>1. PICK c \in overlaps[q] : op[c] = "close" /\ by[c] = u /\ dm[c] = dm[q]
          BY <3>2 DEF ClosedMeanwhile
        <4>2. c \in Request
          BY DEF TypeOK
        <4>3. dm'[c] = dm[c]
          <5>1. CASE c = r
            <6>1. ~Create(r)
              BY <4>1, <5>1 DEF Create, ParamsInv
            <6> QED
              BY <1>2, <5>1, <6>1 DEF GoesOn, Reopen, Hide, Send, Announce, Fail
          <5> QED
            BY <1>2, <4>2, <5>1, GoingOn
        <4> QED
          BY <2>1, <4>1, <4>3 DEF ClosedMeanwhile, params
      <3>3. <<dm[q], u>> \in doomed[q] => <<dm[q], u>> \in doomed'[q]
        BY <1>2, <2>1 DEF GoesOn, Create, Reopen, Hide, Send, Announce, Fail, TypeOK
      <3> QED
        BY <2>1, <3>1, <3>2, <3>3
    <2>3. CASE <<dm[q], u>> \notin hidden
      <3>1. /\ Hide(r)
            /\ <<dm[q], u>> = <<dm[r], by[r]>>
        BY <1>2, <2>1, <2>3 DEF GoesOn, Create, Reopen, Hide, Send, Announce, Fail, database
      <3>2. op[r] = "close" /\ by[r] = u /\ dm[r] = dm[q] /\ dm'[r] = dm[r]
        BY <3>1 DEF Hide, ParamsInv
      <3>3. r \in overlaps[q]
        BY <2>1 DEF OverlapInv, InFlight
      <3> QED
        BY <2>1, <3>2, <3>3 DEF ClosedMeanwhile, params
    <2> QED
      BY <2>2, <2>3
  <1>3. CASE UNCHANGED vars
    BY <1>3 DEF vars, SendingInv, ClosedMeanwhile
  <1> QED
    BY <1>1, <1>2, <1>3, NextCases

THEOREM Invariance == Spec => []IInv
  <1>1. IInv /\ [Next]_vars => IInv'
    BY TypeStep, CreationStep, SendingStep DEF IInv
  <1> QED
    BY <1>1, InitInv, PTL DEF Spec

(* Every variable has its type.                                             *)
THEOREM TypeCorrect == Spec => []TypeOK
  BY Invariance, PTL DEF IInv

(* create_dm_channel: two channels for a pair were created by requests that *)
(* were in flight together.                                                 *)
THEOREM DuplicatesRace == Spec => []DuplicatesNeedARace
  BY Invariance, PTL DEF IInv

(* send_message: who still has the channel closed when the message is       *)
(* committed has closed it while it was being sent.                         *)
THEOREM MessagesReopen == Spec => MessagesReopenChannels
  <1>1. ASSUME IInv, [Next]_vars, NEW r \in Request, NEW u \in User,
               stage[r] = "sending", stage'[r] = "announcing", <<dm[r], u>> \in hidden'
        PROVE  \E q \in overlaps[r] : op[q] = "close" /\ by[q] = u /\ dm[q] = dm[r]
    <2>1. ~UNCHANGED vars
      BY <1>1 DEF vars
    <2>2. PICK q \in Request : Begins(q) \/ GoesOn(q)
      BY <1>1, <2>1, NextCases
    <2>3. q = r /\ GoesOn(r)
      BY <1>1, <2>2, Beginning, GoingOn
    <2>4. hidden' = hidden \ doomed[r]
      BY <1>1, <2>3 DEF GoesOn, Create, Reopen, Hide, Send, Announce, Fail, Goto, IInv, TypeOK
    <2>5. ClosedMeanwhile(r, u)
      BY <1>1, <2>4 DEF IInv, SendingInv
    <2> QED
      BY <2>5 DEF ClosedMeanwhile
  <1>2. ASSUME IInv, [Next]_vars
        PROVE  [\A r \in Request : \A u \in User :
                  stage[r] = "sending" /\ stage'[r] = "announcing" /\ <<dm[r], u>> \in hidden'
                    => \E q \in overlaps[r] : op[q] = "close" /\ by[q] = u /\ dm[q] = dm[r]]_vars
    BY <1>1, <1>2
  <1> QED
    BY <1>2, Invariance, PTL DEF Spec, MessagesReopenChannels

-----------------------------------------------------------------------------
(* What the clients hear                                                    *)

(* Which channel a request is about, and that a channel's users, its        *)
(* creator and its hidden states belong together.                           *)
ChannelInv ==
  /\ \A r \in Request :
       /\ stage[r] \in {"idle", "creating"} => dm[r] = NoDm
       /\ op[r] # "open" => pair[r] = {}
       /\ stage[r] = "reopening" => op[r] = "open"
       /\ stage[r] = "sending" => op[r] = "send" /\ doomed[r] \subseteq {dm[r]} \X User
       /\ dm[r] \in Dm =>
            participants[dm[r]] # {} /\ (op[r] = "open" => pair[r] = participants[dm[r]])
  /\ \A d \in Dm : participants[d] # {} =>
       /\ created_by[d] \in Request
       /\ stage[created_by[d]] \in {"announcing", "done", "failed"}
       /\ pair[created_by[d]] = participants[d]
  /\ \A d \in Dm, u \in User : <<d, u>> \in hidden => participants[d] # {}

(* No request about the channel has failed or overlapped another.           *)
Calm(d) == \A r \in About(d) : stage[r] # "failed" /\ overlaps[r] \cap About(d) = {}

(* A client of u that has heard t of d has heard right.                     *)
Right(t, d, u) == t # "nothing" /\ (t = "closed" <=> <<d, u>> \in hidden)

(* What u will have heard of d once r has announced what it did.            *)
Hears(r, d, u) ==
  IF u \notin Audience(r) THEN told[d][u] ELSE IF op[r] = "close" THEN "closed" ELSE "open"

(* While all is calm, the clients have heard right, or will have when the   *)
(* one request that has committed has announced it.                         *)
AgreeInv ==
  \A d \in Dm : participants[d] # {} /\ Calm(d) =>
    /\ (\A r \in About(d) : stage[r] # "announcing")
         => \A u \in participants[d] : Right(told[d][u], d, u)
    /\ \A r \in About(d) : stage[r] = "announcing"
         => \A u \in participants[d] : Right(Hears(r, d, u), d, u)

LEMMA BeginningFinds ==
  ASSUME IInv, ChannelInv, NEW r \in Request, Begins(r)
  PROVE  /\ stage'[r] = "creating" => dm'[r] = NoDm
         /\ stage'[r] = "announcing" =>
              op'[r] = "close" /\ <<dm'[r], by'[r]>> \in hidden
         /\ stage'[r] = "reopening" => op'[r] = "open"
         /\ stage'[r] = "sending" => op'[r] = "send"
         /\ op'[r] # "open" => pair'[r] = {}
         /\ dm'[r] \in Dm =>
              participants[dm'[r]] # {} /\ (op'[r] = "open" => pair'[r] = participants[dm'[r]])
  <1>1. TypeOK
    BY DEF IInv
  <1>2. CASE FindExisting(r)
    <2>1. PICK p \in Pairs : \E u \in p :
             /\ Begin(r, "open", u, p)
             /\ \/ Goto(r, "creating") /\ UNCHANGED dm
                \/ \E d \in Existing(p) : dm' = [dm EXCEPT ![r] = d] /\ Goto(r, "reopening")
      BY <1>2 DEF FindExisting
    <2>2. op'[r] = "open" /\ pair'[r] = p /\ p # {} /\ stage[r] = "idle"
      BY <1>1, <2>1, PairsAreNotEmpty DEF Begin, TypeOK
    <2>3. CASE Goto(r, "creating") /\ UNCHANGED dm
      BY <1>1, <2>2, <2>3, NullAssumption DEF Goto, ChannelInv, TypeOK
    <2>4. CASE \E d \in Existing(p) : dm' = [dm EXCEPT ![r] = d] /\ Goto(r, "reopening")
      BY <1>1, <2>2, <2>4 DEF Goto, Existing, TypeOK
    <2> QED
      BY <2>1, <2>3, <2>4
  <1>3. CASE FindHidden(r)
    <2>1. PICK d \in Dm, u \in User :
             /\ Begin(r, "close", u, {}) /\ participants[d] # {}
             /\ dm' = [dm EXCEPT ![r] = d]
             /\ Goto(r, IF <<d, u>> \in hidden THEN "announcing" ELSE "hiding")
      <3>1. PICK d \in Dm : \E u \in participants[d] :
               /\ Begin(r, "close", u, {})
               /\ dm' = [dm EXCEPT ![r] = d]
               /\ Goto(r, IF <<d, u>> \in hidden THEN "announcing" ELSE "hiding")
        BY <1>3 DEF FindHidden
      <3>2. participants[d] \subseteq User
        BY <1>1, PairsAreNotEmpty DEF TypeOK
      <3> QED
        BY <3>1, <3>2
    <2>2. /\ op'[r] = "close" /\ pair'[r] = {} /\ dm'[r] = d /\ by'[r] = u
          /\ stage'[r] = IF <<d, u>> \in hidden THEN "announcing" ELSE "hiding"
      BY <1>1, <2>1 DEF Begin, Goto, TypeOK
    <2> QED
      BY <2>1, <2>2
  <1>4. CASE Unhide(r)
    <2>1. PICK d \in Dm : \E u \in participants[d] :
             Begin(r, "send", u, {}) /\ dm' = [dm EXCEPT ![r] = d] /\ Goto(r, "sending")
      BY <1>4 DEF Unhide
    <2>2. /\ op'[r] = "send" /\ pair'[r] = {} /\ dm'[r] = d /\ stage'[r] = "sending"
          /\ participants[d] # {}
      BY <1>1, <2>1 DEF Begin, Goto, TypeOK
    <2> QED
      BY <2>2
  <1> QED
    BY <1>2, <1>3, <1>4 DEF Begins

(* Apart from Create, what a request does to its channel's rows.            *)
LEMMA GoingOnRows ==
  ASSUME IInv, NEW r \in Request, GoesOn(r), ~Create(r)
  PROVE  /\ UNCHANGED <<participants, created_by, dm>>
         /\ stage[r] # "announcing" => UNCHANGED told
         /\ \/ UNCHANGED hidden
            \/ stage[r] = "reopening" /\ hidden' = hidden \ {<<dm[r], by[r]>>}
            \/ stage[r] = "hiding" /\ hidden' = hidden \cup {<<dm[r], by[r]>>}
            \/ stage[r] = "sending" /\ hidden' = hidden \ doomed[r]
  BY DEF GoesOn, Reopen, Hide, Send, Announce, Fail, database

LEMMA ChannelStep == IInv /\ ChannelInv /\ [Next]_vars => ChannelInv'
  <1> SUFFICES ASSUME IInv, ChannelInv, [Next]_vars PROVE ChannelInv'
    OBVIOUS
  <1>0. TypeOK /\ ParamsInv
    BY DEF IInv
  <1>1. ASSUME NEW r \in Request, Begins(r) PROVE ChannelInv'
    <2>1. UNCHANGED <<participants, created_by, hidden>> /\ stage[r] = "idle"
      BY <1>1, Beginning DEF database
    <2>2. \A q \in Request \ {r} :
            /\ op'[q] = op[q] /\ by'[q] = by[q] /\ pair'[q] = pair[q]
            /\ stage'[q] = stage[q] /\ dm'[q] = dm[q] /\ doomed'[q] = doomed[q]
      BY <1>1, Beginning
    <2>3. /\ stage'[r] \notin {"idle"}
          /\ stage'[r] = "sending" => doomed'[r] \subseteq {dm'[r]} \X User
      BY <1>1, Beginning
    <2>4. \A q \in Request :
            /\ stage'[q] \in {"idle", "creating"} => dm'[q] = NoDm
            /\ op'[q] # "open" => pair'[q] = {}
            /\ stage'[q] = "reopening" => op'[q] = "open"
            /\ stage'[q] = "sending" => op'[q] = "send" /\ doomed'[q] \subseteq {dm'[q]} \X User
            /\ dm'[q] \in Dm =>
                 participants'[dm'[q]] # {} /\ (op'[q] = "open" => pair'[q] = participants'[dm'[q]])
      <3>1. ASSUME NEW q \in Request, q # r
            PROVE  /\ stage'[q] \in {"idle", "creating"} => dm'[q] = NoDm
                   /\ op'[q] # "open" => pair'[q] = {}
                   /\ stage'[q] = "reopening" => op'[q] = "open"
                   /\ stage'[q] = "sending" => op'[q] = "send" /\ doomed'[q] \subseteq {dm'[q]} \X User
                   /\ dm'[q] \in Dm =>
                        participants'[dm'[q]] # {} /\ (op'[q] = "open" => pair'[q] = participants'[dm'[q]])
        BY <2>1, <2>2, <3>1 DEF ChannelInv
      <3>2. /\ stage'[r] \in {"idle", "creating"} => dm'[r] = NoDm
            /\ op'[r] # "open" => pair'[r] = {}
            /\ stage'[r] = "reopening" => op'[r] = "open"
            /\ stage'[r] = "sending" => op'[r] = "send"
            /\ dm'[r] \in Dm =>
                 participants'[dm'[r]] # {} /\ (op'[r] = "open" => pair'[r] = participants'[dm'[r]])
        BY <1>1, <2>1, <2>3, BeginningFinds
      <3> QED
        BY <2>3, <3>1, <3>2
    <2>5. \A d \in Dm : participants'[d] # {} =>
            /\ created_by'[d] \in Request
            /\ stage'[created_by'[d]] \in {"announcing", "done", "failed"}
            /\ pair'[created_by'[d]] = participants'[d]
      BY <2>1, <2>2 DEF ChannelInv
    <2> QED
      BY <2>1, <2>4, <2>5 DEF ChannelInv
  <1>2. ASSUME NEW r \in Request, GoesOn(r) PROVE ChannelInv'
    <2>1. /\ op' = op /\ by' = by /\ pair' = pair
          /\ stage'[r] \in {"announcing", "done", "failed"}
          /\ InFlight(r)
          /\ \A q \in Request \ {r} : stage'[q] = stage[q] /\ dm'[q] = dm[q]
      BY <1>2, GoingOn DEF params
    <2>2. \A q \in Request \ {r} : doomed'[q] \subseteq doomed[q]
      BY <1>0, <1>2 DEF GoesOn, Create, Reopen, Hide, Send, Announce, Fail, TypeOK
    <2>3. CASE Create(r)
      <3>1. PICK d \in Dm :
               /\ participants[d] = {}
               /\ participants' = [participants EXCEPT ![d] = pair[r]]
               /\ created_by' = [created_by EXCEPT ![d] = r]
               /\ dm' = [dm EXCEPT ![r] = d]
        BY <2>3 DEF Create
      <3>2. /\ stage[r] = "creating" /\ stage'[r] = "announcing" /\ hidden' = hidden
            /\ pair[r] # {} /\ dm'[r] = d
        BY <1>0, <2>3, <3>1, PairsAreNotEmpty DEF Create, Goto, ParamsInv, TypeOK
      <3>3. /\ participants'[d] = pair[r] /\ created_by'[d] = r
            /\ \A e \in Dm \ {d} :
                  participants'[e] = participants[e] /\ created_by'[e] = created_by[e]
        BY <1>0, <3>1 DEF TypeOK
      <3>4. \A q \in Request :
              /\ stage'[q] \in {"idle", "creating"} => dm'[q] = NoDm
              /\ op'[q] # "open" => pair'[q] = {}
              /\ stage'[q] = "reopening" => op'[q] = "open"
              /\ stage'[q] = "sending" => op'[q] = "send" /\ doomed'[q] \subseteq {dm'[q]} \X User
              /\ dm'[q] \in Dm =>
                   participants'[dm'[q]] # {} /\ (op'[q] = "open" => pair'[q] = participants'[dm'[q]])
        <4>1. ASSUME NEW q \in Request, q # r PROVE dm[q] # d
          BY <3>1 DEF ChannelInv
        <4> QED
          BY <2>1, <2>2, <3>1, <3>2, <3>3, <4>1 DEF ChannelInv
      <3>5. \A e \in Dm : participants'[e] # {} =>
              /\ created_by'[e] \in Request
              /\ stage'[created_by'[e]] \in {"announcing", "done", "failed"}
              /\ pair'[created_by'[e]] = participants'[e]
        BY <2>1, <3>1, <3>2, <3>3 DEF ChannelInv
      <3>6. \A e \in Dm, u \in User : <<e, u>> \in hidden' => participants'[e] # {}
        BY <3>1, <3>2, <3>3 DEF ChannelInv
      <3> QED
        BY <3>4, <3>5, <3>6 DEF ChannelInv
    <2>4. CASE ~Create(r)
      <3>1. UNCHANGED <<participants, created_by, dm>>
        BY <1>2, <2>4, GoingOnRows
      <3>2. \A q \in Request :
              /\ stage'[q] \in {"idle", "creating"} => dm'[q] = NoDm
              /\ op'[q] # "open" => pair'[q] = {}
              /\ stage'[q] = "reopening" => op'[q] = "open"
              /\ stage'[q] = "sending" => op'[q] = "send" /\ doomed'[q] \subseteq {dm'[q]} \X User
              /\ dm'[q] \in Dm =>
                   participants'[dm'[q]] # {} /\ (op'[q] = "open" => pair'[q] = participants'[dm'[q]])
        BY <2>1, <2>2, <3>1 DEF ChannelInv
      <3>3. \A d \in Dm : participants'[d] # {} =>
              /\ created_by'[d] \in Request
              /\ stage'[created_by'[d]] \in {"announcing", "done", "failed"}
              /\ pair'[created_by'[d]] = participants'[d]
        BY <2>1, <3>1 DEF ChannelInv
      <3>4. stage[r] = "hiding" => participants[dm[r]] # {}
        BY <1>0 DEF ParamsInv, ChannelInv
      <3>5. \A d \in Dm, u \in User : <<d, u>> \in hidden' => participants'[d] # {}
        BY <1>2, <2>4, <3>1, <3>4, GoingOnRows DEF ChannelInv
      <3> QED
        BY <3>2, <3>3, <3>5 DEF ChannelInv
    <2> QED
      BY <2>3, <2>4
  <1>3. CASE UNCHANGED vars
    BY <1>3 DEF vars, ChannelInv
  <1> QED
    BY <1>1, <1>2, <1>3, NextCases

(* While all is calm about d, a request in flight about it is the only one, *)
(* and it has d: it is not about to create another channel for the pair,    *)
(* and did not find another one.                                            *)
LEMMA CalmRequest ==
  ASSUME IInv, ChannelInv, NEW d \in Dm, participants[d] # {}, Calm(d),
         NEW r \in About(d), InFlight(r)
  PROVE  /\ dm[r] = d /\ stage[r] # "creating"
         /\ \A q \in About(d) : q # r => ~InFlight(q)
  <1>1. created_by[d] \in About(d)
    BY DEF About, ChannelInv
  <1>2. r \in Request /\ overlaps[r] \cap About(d) = {} /\ stage[r] # "failed"
    BY DEF About, Calm
  <1>3. stage[r] # "creating"
    <2>1. SUFFICES ASSUME stage[r] = "creating" PROVE FALSE
      OBVIOUS
    <2>2. pair[r] = participants[d]
      BY <1>2, <2>1, NullAssumption DEF About, ChannelInv
    <2>3. created_by[d] \in overlaps[r]
      BY <1>2, <2>1, <2>2 DEF IInv, CreationInv
    <2> QED
      BY <1>1, <1>2, <2>3
  <1>4. dm[r] \in Dm
    BY <1>2, <1>3 DEF IInv, ParamsInv, TypeOK, Stage, InFlight
  <1>5. dm[r] = d
    <2>1. SUFFICES ASSUME dm[r] # d PROVE FALSE
      OBVIOUS
    <2>2. pair[r] = participants[d] /\ participants[dm[r]] = participants[d]
      BY <1>2, <1>4, <2>1 DEF About, ChannelInv
    <2>3. created_by[d] \in overlaps[created_by[dm[r]]]
      BY <1>4, <2>1, <2>2 DEF IInv, DuplicatesNeedARace
    <2>4. created_by[dm[r]] \in About(d)
      BY <1>4, <2>2 DEF About, ChannelInv
    <2> QED
      BY <1>1, <2>3, <2>4 DEF Calm
  <1>6. ASSUME NEW q \in About(d), q # r PROVE ~InFlight(q)
    <2>1. q \in Request /\ q \notin overlaps[r]
      BY <1>2, <1>6 DEF About
    <2> QED
      BY <1>2, <1>6, <2>1 DEF IInv, OverlapInv
  <1> QED
    BY <1>3, <1>5, <1>6

(* The stages, channels and pairs the requests about d had before a step.   *)
LEMMA AboutGrows ==
  ASSUME IInv, ChannelInv, NEW d \in Dm, participants'[d] = participants[d], participants[d] # {},
         NEW r \in Request, Begins(r) \/ GoesOn(r)
  PROVE  /\ About(d) \subseteq About(d)'
         /\ About(d)' \subseteq About(d) \cup {r}
         /\ GoesOn(r) => About(d)' = About(d)
         /\ Calm(d)' => Calm(d)
  <1>1. TypeOK
    BY DEF IInv
  <1>2. CASE Begins(r)
    <2>1. /\ stage[r] = "idle" /\ stage'[r] # "idle"
          /\ \A q \in Request \ {r} :
               stage'[q] = stage[q] /\ dm'[q] = dm[q] /\ pair'[q] = pair[q]
          /\ \A q \in Request : overlaps[q] \subseteq overlaps'[q]
      BY <1>2, Beginning
    <2>2. About(d) \subseteq About(d)' /\ About(d)' \subseteq About(d) \cup {r} /\ r \notin About(d)
      BY <2>1 DEF About
    <2>3. \A q \in About(d) : q \in Request /\ stage'[q] = stage[q] /\ overlaps[q] \subseteq overlaps'[q]
      BY <2>1, <2>2 DEF About
    <2>4. Calm(d)' => Calm(d)
      BY <2>2, <2>3 DEF Calm
    <2> QED
      BY <2>2, <2>4, <1>2, <2>1, GoingOn DEF InFlight
  <1>3. CASE GoesOn(r)
    <2>1. /\ UNCHANGED <<params, overlaps>> /\ InFlight(r)
          /\ stage'[r] \in {"announcing", "done", "failed"}
          /\ \A q \in Request \ {r} : stage'[q] = stage[q] /\ dm'[q] = dm[q]
      BY <1>3, GoingOn
    <2>2. dm'[r] = d <=> dm[r] = d
      <3>1. CASE Create(r)
        <4>1. PICK e \in Dm : participants[e] = {} /\ dm' = [dm EXCEPT ![r] = e]
          BY <3>1 DEF Create
        <4>2. stage[r] = "creating" /\ dm[r] = NoDm
          BY <3>1 DEF Create, ChannelInv
        <4> QED
          BY <1>1, <4>1, <4>2, NullAssumption DEF TypeOK
      <3>2. CASE ~Create(r)
        BY <1>3, <3>2, GoingOnRows
      <3> QED
        BY <3>1, <3>2
    <2>3. About(d)' = About(d)
      BY <2>1, <2>2 DEF About, InFlight, params
    <2>4. \A q \in About(d) : overlaps'[q] = overlaps[q] /\ (stage[q] = "failed" => stage'[q] = "failed")
      BY <2>1 DEF About, InFlight
    <2>5. Calm(d)' => Calm(d)
      BY <2>3, <2>4 DEF Calm
    <2> QED
      BY <2>3, <2>5
  <1> QED
    BY <1>2, <1>3

(* A request's step leaves another channel's announcements as they were.    *)
LEMMA AgreeElsewhere ==
  ASSUME IInv, ChannelInv, AgreeInv, NEW d \in Dm, participants'[d] = participants[d],
         participants[d] # {}, Calm(d)', NEW r \in Request, Begins(r) \/ GoesOn(r), r \notin About(d)'
  PROVE  /\ (\A q \in About(d)' : stage'[q] # "announcing")
              => \A u \in participants'[d] : Right(told[d][u], d, u)'
         /\ \A q \in About(d)' : stage'[q] = "announcing"
              => \A u \in participants'[d] : Right(Hears(q, d, u), d, u)'
  <1>1. TypeOK
    BY DEF IInv
  <1>2. /\ About(d)' = About(d) /\ Calm(d) /\ r \notin About(d)
        /\ participants[d] \subseteq User
    <2>1. About(d) \subseteq About(d)' /\ About(d)' \subseteq About(d) \cup {r} /\ Calm(d)
      BY AboutGrows
    <2>2. participants[d] \subseteq User
      BY <1>1, PairsAreNotEmpty DEF TypeOK
    <2> QED
      BY <2>1, <2>2
  <1>3. \A q \in About(d) : q \in Request /\ q # r /\ stage'[q] = stage[q] /\ op'[q] = op[q] /\ by'[q] = by[q]
                            /\ dm'[q] = dm[q]
    BY <1>2, Beginning, GoingOn DEF About, params
  <1>4. dm[r] # d \/ stage[r] = "idle"
    BY <1>2 DEF About
  <1>5. /\ told'[d] = told[d] /\ created_by'[d] = created_by[d]
        /\ \A u \in User : <<d, u>> \in hidden' <=> <<d, u>> \in hidden
    <2>1. CASE Begins(r)
      BY <2>1, Beginning DEF database
    <2>2. CASE Create(r)
      <3>1. PICK e \in Dm : participants[e] = {} /\ created_by' = [created_by EXCEPT ![e] = r]
        BY <2>2 DEF Create
      <3> QED
        BY <1>1, <2>2, <3>1 DEF Create, TypeOK
    <2>3. CASE GoesOn(r) /\ ~Create(r)
      <3>1. dm[r] # d
        BY <1>4, <2>3, GoingOn DEF InFlight
      <3>2. told'[d] = told[d]
        BY <1>1, <2>3, <3>1 DEF GoesOn, Reopen, Hide, Send, Announce, Fail, TypeOK
      <3>3. created_by' = created_by
        BY <2>3, GoingOnRows
      <3>4. \A u \in User : <<d, u>> \in hidden' <=> <<d, u>> \in hidden
        BY <2>3, <3>1, GoingOnRows DEF ChannelInv
      <3> QED
        BY <3>2, <3>3, <3>4
    <2> QED
      BY <2>1, <2>2, <2>3
  <1>6. \A u \in participants[d] : Right(told[d][u], d, u)' <=> Right(told[d][u], d, u)
    BY <1>2, <1>5 DEF Right
  <1>7. ASSUME NEW q \in About(d), stage[q] = "announcing", NEW u \in participants[d]
        PROVE  Right(Hears(q, d, u), d, u)'
    <2>1. dm[q] = d
      BY <1>2, <1>7, CalmRequest DEF InFlight
    <2>2. Audience(q)' = Audience(q)
      BY <1>3, <1>5, <2>1 DEF Audience
    <2>3. Hears(q, d, u)' = Hears(q, d, u)
      BY <1>3, <1>5, <2>2 DEF Hears
    <2>4. Right(Hears(q, d, u), d, u)
      BY <1>2, <1>7 DEF AgreeInv
    <2> QED
      BY <1>2, <1>5, <2>3, <2>4 DEF Right
  <1> QED
    BY <1>2, <1>3, <1>6, <1>7 DEF AgreeInv

(* A channel that has just been created is shown to both of the pair.       *)
LEMMA AgreeOnCreation ==
  ASSUME IInv, ChannelInv, OverlapInv', TypeOK', NEW d \in Dm, participants'[d] # participants[d],
         Calm(d)', NEW r \in Request, GoesOn(r)
  PROVE  \A q \in About(d)' :
            /\ stage'[q] = "announcing"
                 => \A u \in participants'[d] : Right(Hears(q, d, u), d, u)'
            /\ \E p \in About(d)' : stage'[p] = "announcing"
  <1>1. TypeOK /\ Create(r)
    BY GoingOnRows DEF IInv
  <1>2. /\ participants[d] = {} /\ participants'[d] = pair[r] /\ pair' = pair /\ op' = op
        /\ created_by'[d] = r /\ dm'[r] = d /\ hidden' = hidden
        /\ stage'[r] = "announcing" /\ op[r] = "open"
    BY <1>1 DEF Create, Goto, ParamsInv, IInv, TypeOK, params
  <1>3. r \in About(d)' /\ InFlight(r)'
    BY <1>2 DEF About, InFlight
  <1>4. ASSUME NEW q \in About(d)', stage'[q] = "announcing" PROVE q = r
    <2>1. q \in Request /\ InFlight(q)' /\ r \notin overlaps'[q]
      BY <1>3, <1>4 DEF About, InFlight, Calm
    <2> QED
      BY <1>3, <2>1 DEF OverlapInv
  <1>5. ASSUME NEW u \in participants'[d] PROVE Right(Hears(r, d, u), d, u)'
    <2>1. Hears(r, d, u)' = "open"
      BY <1>2, <1>5 DEF Hears, Audience
    <2>2. u \in User
      BY <1>5, PairsAreNotEmpty DEF TypeOK
    <2>3. <<d, u>> \notin hidden'
      BY <1>2, <2>2 DEF ChannelInv
    <2> QED
      BY <2>1, <2>3 DEF Right
  <1> QED
    BY <1>2, <1>3, <1>4, <1>5

(* A request about d goes on.                                               *)
LEMMA AgreeGoingOn ==
  ASSUME IInv, ChannelInv, AgreeInv, NEW d \in Dm, participants'[d] = participants[d],
         participants[d] # {}, Calm(d)', NEW r \in Request, GoesOn(r), r \in About(d)'
  PROVE  /\ (\A q \in About(d)' : stage'[q] # "announcing")
              => \A u \in participants'[d] : Right(told[d][u], d, u)'
         /\ \A q \in About(d)' : stage'[q] = "announcing"
              => \A u \in participants'[d] : Right(Hears(q, d, u), d, u)'
  <1>1. TypeOK /\ ParamsInv
    BY DEF IInv
  <1>2. /\ About(d)' = About(d) /\ Calm(d) /\ r \in About(d) /\ participants[d] \subseteq User
    BY <1>1, AboutGrows, PairsAreNotEmpty DEF TypeOK
  <1>3. /\ InFlight(r) /\ dm[r] = d /\ stage[r] # "creating"
        /\ \A q \in About(d) : q # r => ~InFlight(q)
    BY <1>2, GoingOn, CalmRequest
  <1>4. ~Create(r) /\ stage'[r] # "failed"
    BY <1>2, <1>3 DEF Create, Calm
  <1>5. \A q \in About(d) : q # r => stage'[q] # "announcing"
    BY <1>3, GoingOn DEF About, InFlight
  <1>6. /\ UNCHANGED <<participants, created_by, dm>> /\ op' = op /\ by' = by
        /\ stage[r] # "announcing" => UNCHANGED told
    BY <1>4, GoingOn, GoingOnRows DEF params
  <1>7. created_by[d] = r => stage[r] \in {"announcing", "done", "failed"}
    BY DEF ChannelInv
  <1>8. stage[r] # "announcing" => \A u \in participants[d] : Right(told[d][u], d, u)
    BY <1>2, <1>3 DEF AgreeInv, InFlight
  <1>9. CASE Announce(r)
    <2>1. \A u \in participants[d] : told'[d][u] = Hears(r, d, u)
      BY <1>1, <1>2, <1>3, <1>9 DEF Announce, Hears, TypeOK
    <2>2. stage[r] = "announcing" /\ stage'[r] = "done" /\ hidden' = hidden
      BY <1>1, <1>9 DEF Announce, Goto, TypeOK, database
    <2>3. \A u \in participants[d] : Right(told[d][u], d, u)'
      BY <1>2, <2>1, <2>2 DEF AgreeInv, Right
    <2> QED
      BY <1>2, <1>5, <1>6, <2>2, <2>3
  <1>10. ASSUME Reopen(r) \/ Hide(r) \/ Send(r), NEW u \in participants[d]
         PROVE  Right(Hears(r, d, u), d, u)'
    <2>1. Right(told[d][u], d, u) /\ u \in User /\ told' = told /\ created_by[d] # r
      BY <1>2, <1>6, <1>7, <1>8, <1>10 DEF Reopen, Hide, Send
    <2>2. CASE Reopen(r)
      <3>1. op[r] = "open" /\ hidden' = hidden \ {<<d, by[r]>>}
        BY <1>3, <2>2 DEF Reopen, ChannelInv
      <3>2. Hears(r, d, u)' = IF u = by[r] THEN "open" ELSE told[d][u]
        BY <1>3, <1>6, <2>1, <3>1 DEF Hears, Audience
      <3> QED
        BY <2>1, <3>1, <3>2 DEF Right
    <2>3. CASE Hide(r)
      <3>1. op[r] = "close" /\ hidden' = hidden \cup {<<d, by[r]>>}
        BY <1>1, <1>3, <2>3 DEF Hide, ParamsInv
      <3>2. Hears(r, d, u)' = IF u = by[r] THEN "closed" ELSE told[d][u]
        BY <1>3, <1>6, <2>1, <3>1 DEF Hears, Audience
      <3> QED
        BY <2>1, <3>1, <3>2 DEF Right
    <2>4. CASE Send(r)
      <3>1. op[r] = "send" /\ stage[r] = "sending" /\ hidden' = hidden \ doomed[r]
        BY <2>4 DEF Send, ChannelInv
      <3>2. Hears(r, d, u)' = "open"
        BY <1>3, <1>6, <3>1 DEF Hears, Audience
      <3>3. ~ClosedMeanwhile(r, u)
        BY <1>1, <1>2, <1>3 DEF ClosedMeanwhile, Calm, About, ParamsInv, TypeOK
      <3>4. <<d, u>> \notin hidden'
        BY <1>3, <2>1, <3>1, <3>3 DEF IInv, SendingInv
      <3> QED
        BY <3>2, <3>4 DEF Right
    <2> QED
      BY <1>10, <2>2, <2>3, <2>4
  <1>11. Reopen(r) \/ Hide(r) \/ Send(r) => stage'[r] = "announcing"
    BY <1>1, <1>4 DEF Reopen, Hide, Send, Goto, TypeOK
  <1>12. ~Fail(r)
    BY <1>1, <1>4 DEF Fail, Goto, TypeOK
  <1> QED
    BY <1>2, <1>4, <1>5, <1>6, <1>9, <1>10, <1>11, <1>12 DEF GoesOn

(* A request about d begins.                                                *)
LEMMA AgreeBeginning ==
  ASSUME IInv, ChannelInv, AgreeInv, OverlapInv', NEW d \in Dm, participants[d] # {}, Calm(d)',
         NEW r \in Request, Begins(r), r \in About(d)'
  PROVE  /\ (\A q \in About(d)' : stage'[q] # "announcing")
              => \A u \in participants'[d] : Right(told[d][u], d, u)'
         /\ \A q \in About(d)' : stage'[q] = "announcing"
              => \A u \in participants'[d] : Right(Hears(q, d, u), d, u)'
  <1>1. TypeOK /\ UNCHANGED <<participants, created_by, hidden, told>>
    BY Beginning DEF IInv, database
  <1>2. /\ About(d) \subseteq About(d)' /\ About(d)' \subseteq About(d) \cup {r} /\ Calm(d)
        /\ participants[d] \subseteq User
    BY <1>1, AboutGrows, PairsAreNotEmpty DEF TypeOK
  <1>3. stage[r] = "idle" /\ InFlight(r)'
    BY Beginning DEF InFlight
  <1>4. \A q \in About(d)' : q # r => stage'[q] = stage[q] /\ stage'[q] # "announcing"
    <2>1. ASSUME NEW q \in About(d)', q # r PROVE ~InFlight(q)' /\ q \in Request
      <3>1. q \in Request /\ r \notin overlaps'[q]
        BY <2>1 DEF About, Calm
      <3> QED
        BY <1>3, <2>1, <3>1 DEF OverlapInv
    <2> QED
      BY <2>1, Beginning DEF InFlight
  <1>5. \A u \in participants[d] : Right(told[d][u], d, u)
    BY <1>2, <1>3, <1>4 DEF AgreeInv, About
  <1>6. ASSUME stage'[r] = "announcing", NEW u \in participants[d]
        PROVE  Right(Hears(r, d, u), d, u)'
    <2>1. op'[r] = "close" /\ pair'[r] = {} /\ <<dm'[r], by'[r]>> \in hidden
      BY <1>6, BeginningFinds
    <2>2. dm'[r] = d
      BY <1>1, <2>1 DEF About
    <2>3. created_by[d] # r
      BY <1>3 DEF ChannelInv
    <2>4. Hears(r, d, u)' = IF u = by'[r] THEN "closed" ELSE told[d][u]
      BY <1>1, <2>1, <2>2, <2>3 DEF Hears, Audience
    <2> QED
      BY <1>1, <1>5, <1>6, <2>1, <2>2, <2>4 DEF Right
  <1>7. \A u \in participants[d] : Right(told[d][u], d, u)'
    BY <1>1, <1>5 DEF Right
  <1> QED
    BY <1>1, <1>4, <1>6, <1>7

LEMMA AgreeStep == IInv /\ ChannelInv /\ AgreeInv /\ [Next]_vars => AgreeInv'
  <1> SUFFICES ASSUME IInv, ChannelInv, AgreeInv, [Next]_vars,
                      NEW d \in Dm, participants'[d] # {}, Calm(d)'
               PROVE  /\ (\A q \in About(d)' : stage'[q] # "announcing")
                           => \A u \in participants'[d] : Right(told[d][u], d, u)'
                      /\ \A q \in About(d)' : stage'[q] = "announcing"
                           => \A u \in participants'[d] : Right(Hears(q, d, u), d, u)'
    BY DEF AgreeInv
  <1>1. OverlapInv' /\ TypeOK'
    BY TypeStep
  <1>2. CASE UNCHANGED vars
    BY <1>2 DEF vars, AgreeInv, Right, Hears, Audience, About, Calm
  <1>3. ASSUME NEW r \in Request, Begins(r) \/ GoesOn(r)
        PROVE  /\ (\A q \in About(d)' : stage'[q] # "announcing")
                    => \A u \in participants'[d] : Right(told[d][u], d, u)'
               /\ \A q \in About(d)' : stage'[q] = "announcing"
                    => \A u \in participants'[d] : Right(Hears(q, d, u), d, u)'
    <2>1. CASE participants'[d] # participants[d]
      <3>1. GoesOn(r)
        BY <1>3, <2>1, Beginning DEF database
      <3>2. \E p \in About(d)' : TRUE
        <4>1. Create(r)
          BY <2>1, <3>1, GoingOnRows
        <4>2. r \in About(d)'
          BY <2>1, <4>1 DEF Create, Goto, About, IInv, TypeOK
        <4> QED
          BY <4>2
      <3> QED
        BY <1>1, <2>1, <3>1, <3>2, AgreeOnCreation
    <2>2. CASE participants'[d] = participants[d] /\ r \notin About(d)'
      BY <1>3, <2>2, AgreeElsewhere
    <2>3. CASE participants'[d] = participants[d] /\ r \in About(d)'
      BY <1>1, <1>3, <2>3, AgreeBeginning, AgreeGoingOn
    <2> QED
      BY <2>1, <2>2, <2>3
  <1> QED
    BY <1>2, <1>3, NextCases

(* Clients are told of every change: unless requests about a channel have   *)
(* overlapped or failed, its users' clients show it open or closed as the   *)
(* database has it.                                                         *)
THEOREM ClientsHear == Spec => []ClientsAgree
  <1> DEFINE Inv == IInv /\ ChannelInv /\ AgreeInv
  <1>1. Init => Inv
    <2>1. Init => ChannelInv /\ AgreeInv
      BY NullAssumption DEF Init, ChannelInv, AgreeInv
    <2> QED
      BY <2>1, InitInv
  <1>2. Inv /\ [Next]_vars => Inv'
    BY TypeStep, CreationStep, SendingStep, ChannelStep, AgreeStep DEF IInv
  <1>3. Inv => ClientsAgree
    BY DEF AgreeInv, ClientsAgree, Calm, Right
  <1> QED
    BY <1>1, <1>2, <1>3, PTL DEF Spec

=============================================================================
