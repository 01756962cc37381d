--------------------------- MODULE MessagesProofs ---------------------------
(* What Messages promises, for any number of messages, users and requests.  *)
(* A request works on the copy it read first.  As long as no other request  *)
(* about the message is in flight that copy is the row, and so is what it   *)
(* tells the clients.                                                       *)
EXTENDS Messages, TLAPS

Changing == {"send", "edit", "pin", "unpin", "react", "unreact"}

(* What a stage says of the request's parameters.                           *)
RequestInv ==
  \A r \in Request :
    /\ stage[r] = "idle" => op[r] = "none" /\ about[r] = NoMessage
    /\ stage[r] # "idle" => op[r] \in Op /\ by[r] \in User /\ about[r] \in Message
    /\ stage[r] = "looking" => op[r] \in {"react", "unreact", "bookmark", "unbookmark"}
    /\ stage[r] = "committed" => op[r] \in Changing
    /\ stage[r] = "loaded" => op[r] \in Changing \cup {"delete"}
    /\ InFlight(r) => (op[r] = "send" /\ stage[r] = "writing") \/ copy[r] \in Row

(* A message is sent by one request, and nobody else reads it before.       *)
SendInv ==
  /\ \A m \in unsent : ~Stored(m)
  /\ \A r \in Request :
       /\ op[r] = "send" /\ stage[r] = "writing" => about[r] \in unsent
       /\ about[r] \in unsent => op[r] = "send" /\ stage[r] \in {"writing", "failed"}
  /\ \A q, r \in Request : op[q] = "send" /\ op[r] = "send" /\ about[q] = about[r] => q = r

(* A request that has the message to itself has it as it is.                *)
InHand(r) ==
  LET m == about[r] IN
  /\ stage[r] \in {"looking", "writing"} =>
       /\ shown[m] = Current(m)
       /\ op[r] # "send" => row[m] = copy[r]
  /\ stage[r] \in {"committed", "loaded"} =>
       /\ op[r] = "delete" => ~Stored(m)
       /\ op[r] # "delete" => row[m] = copy[r]
       /\ op[r] \notin {"delete", "send"} => shown[m] # NoRow
       /\ op[r] # "delete" /\ stage[r] = "loaded" =>
            reacted[r] = reactions[m]

Sole(m) ==
  \A q, r \in Request :
    about[q] = m /\ about[r] = m /\ AtWork(q) /\ AtWork(r) => q = r

Agrees(m) ==
  /\ Sole(m)
  /\ Quiet(m) => shown[m] = Current(m)
  /\ \A r \in Request : about[r] = m /\ op[r] \notin Private => InHand(r)

AgreeInv == \A m \in Message \ disturbed : Agrees(m)

(* A deleted message is shown only until a delete that is on its way, or    *)
(* has failed, is announced.                                                *)
DeletedInv ==
  \A m \in Message \ late :
    m \notin unsent /\ ~Stored(m) =>
      /\ \A r \in Request : op[r] = "send" /\ about[r] = m => ~InFlight(r)
      /\ shown[m] # NoRow =>
           \E r \in Request : /\ about[r] = m /\ op[r] = "delete"
                              /\ stage[r] \in {"loaded", "failed"}

IInv ==
  /\ TypeOK /\ RequestInv /\ SendInv /\ NoOrphans /\ AgreeInv /\ DeletedInv

-----------------------------------------------------------------------------
LEMMA Rows ==
  ASSUME NEW c \in Text, NEW p \in BOOLEAN, NEW v \in Nat, NEW s \in SUBSET User
  PROVE  /\ [content |-> c, pinned |-> p, version |-> v] \in Row \ {NoRow}
         /\ [content |-> c, pinned |-> p, reacted |-> s] \in Item \ {NoRow}
  BY NoRowAssumption DEF Row, Item

LEMMA InitInv == Init => IInv
  <1> SUFFICES ASSUME Init PROVE IInv
    OBVIOUS
  <1> USE ParameterAssumption
  <1>0. /\ [content |-> NoRequest, pinned |-> FALSE, version |-> 1] \in Row \ {NoRow}
        /\ [content |-> NoRequest, pinned |-> FALSE, reacted |-> {}] \in Item \ {NoRow}
    BY Rows DEF Text
  <1>1. TypeOK
    BY <1>0 DEF Init, TypeOK, Text, Stage
  <1>2. RequestInv /\ SendInv
    BY DEF Init, RequestInv, SendInv, InFlight, Stored
  <1>4. NoOrphans
    BY DEF Init, NoOrphans
  <1>5. ASSUME NEW m \in Message PROVE Agrees(m)
    <2>1. Sole(m) /\ \A r \in Request : about[r] = m => InHand(r)
      BY DEF Init, Sole, InHand, InFlight, AtWork
    <2>2. shown[m] = Current(m)
      BY <1>0 DEF Init, Current, Stored
    <2> QED
      BY <2>1, <2>2 DEF Agrees
  <1>6. AgreeInv /\ DeletedInv
    <2>1. \A m \in Message \ unsent : Stored(m)
      BY <1>0 DEF Init, Stored
    <2> QED
      BY <1>5, <2>1 DEF AgreeInv, DeletedInv
  <1> QED
    BY <1>1, <1>2, <1>4, <1>6 DEF IInv

-----------------------------------------------------------------------------
(* The actions in three groups: those that begin a request, those that read *)
(* or publish for one, and those that write.                                *)
Reads(r) == ReadToEdit(r) \/ ReadToPin(r) \/ ReadToDelete(r) \/ ReadToReact(r) \/ ReadToMark(r)

Begins(r) == Reads(r) \/ CheckSend(r)

GoesOn(r) ==
  \/ Send(r) \/ Update(r) \/ Delete(r) \/ FindReaction(r) \/ React(r) \/ Unreact(r)
  \/ FindBookmark(r) \/ Bookmark(r) \/ MarkRead(r) \/ Reload(r) \/ Publish(r) \/ Fail(r)

LEMMA NextCases ==
  ASSUME [Next]_vars
  PROVE  (\E r \in Request : Begins(r) \/ GoesOn(r)) \/ UNCHANGED vars
  BY DEF Next, Begins, Reads, GoesOn

(* A request that reads a message first: what it starts with.               *)
LEMMA Reading ==
  ASSUME NEW r \in Request, Reads(r)
  PROVE  \E o \in Op \ {"send"}, u \in User, m \in Message, s \in {"looking", "writing"} :
           /\ Read(r, o, u, m, s)
           /\ s = "looking" => o \in {"react", "unreact", "bookmark", "unbookmark"}
  <1> USE ParameterAssumption DEF Op
  <1>1. CASE ReadToEdit(r)
    BY <1>1 DEF ReadToEdit
  <1>2. CASE ReadToPin(r)
    BY <1>2 DEF ReadToPin
  <1>3. CASE ReadToDelete(r)
    BY <1>3 DEF ReadToDelete
  <1>4. CASE ReadToReact(r)
    BY <1>4 DEF ReadToReact
  <1>5. CASE ReadToMark(r)
    BY <1>5 DEF ReadToMark
  <1> QED
    BY <1>1, <1>2, <1>3, <1>4, <1>5 DEF Reads

LEMMA Beginning ==
  ASSUME IInv, NEW r \in Request, Begins(r)
  PROVE  /\ UNCHANGED <<table, shown, reacted, late>>
         /\ stage[r] = "idle"
         /\ op' \in [Request -> Op \cup {"none"}]
         /\ by' \in [Request -> User \cup {NoUser}]
         /\ about' \in [Request -> Message \cup {NoMessage}]
         /\ stage' \in [Request -> Stage]
         /\ copy' \in [Request -> Row \cup {NoRow}]
         /\ target' \in [Request -> Message \cup {NoMessage}]
         /\ op'[r] \in Op /\ by'[r] \in User /\ about'[r] \in Message
         /\ stage'[r] \in {"looking", "writing"}
         /\ stage'[r] = "looking" => op'[r] \in {"react", "unreact", "bookmark", "unbookmark"}
         /\ op'[r] # "send" => Stored(about'[r]) /\ copy'[r] = row[about'[r]]
         /\ op'[r] = "send" =>
              /\ about'[r] \in unsent
              /\ \A q \in Request : op[q] = "send" => about[q] # about'[r]
              /\ target'[r] # NoMessage => Stored(target'[r])
         /\ \A q \in Request \ {r} :
              /\ op'[q] = op[q] /\ by'[q] = by[q] /\ about'[q] = about[q]
              /\ stage'[q] = stage[q] /\ copy'[q] = copy[q] /\ target'[q] = target[q]
         /\ disturbed \subseteq disturbed' /\ disturbed' \subseteq disturbed \cup {about'[r]}
         /\ about'[r] \notin disturbed' /\ op'[r] \notin Private =>
              \A q \in Request : AtWork(q) => about[q] # about'[r]
  <1> USE ParameterAssumption DEF IInv
  <1>1. CASE Reads(r)
    <2>1. PICK o \in Op \ {"send"}, u \in User, m \in Message, s \in {"looking", "writing"} :
             /\ Read(r, o, u, m, s)
             /\ s = "looking" => o \in {"react", "unreact", "bookmark", "unbookmark"}
      BY <1>1, Reading
    <2>2. /\ op'[r] = o /\ by'[r] = u /\ about'[r] = m /\ stage'[r] = s /\ copy'[r] = row[m]
          /\ Stored(m) /\ stage[r] = "idle"
          /\ UNCHANGED <<table, shown, target, reacted, late>>
          /\ \A q \in Request \ {r} :
               /\ op'[q] = op[q] /\ by'[q] = by[q] /\ about'[q] = about[q]
               /\ stage'[q] = stage[q] /\ copy'[q] = copy[q]
      BY <2>1 DEF Read, Begin, Goto, TypeOK
    <2>3. /\ op' \in [Request -> Op \cup {"none"}]
          /\ by' \in [Request -> User \cup {NoUser}]
          /\ about' \in [Request -> Message \cup {NoMessage}]
          /\ stage' \in [Request -> Stage]
          /\ copy' \in [Request -> Row \cup {NoRow}]
          /\ target' \in [Request -> Message \cup {NoMessage}]
      BY <2>1 DEF Read, Begin, Goto, TypeOK, Stage, Stored
    <2>4. /\ disturbed \subseteq disturbed' /\ disturbed' \subseteq disturbed \cup {m}
          /\ m \notin disturbed' /\ o \notin Private =>
               \A q \in Request : AtWork(q) => about[q] # m
      BY <2>1 DEF Read, Begin
    <2> QED
      BY <2>1, <2>2, <2>3, <2>4
  <1>2. CASE CheckSend(r)
    <2>1. PICK m \in unsent : \E t \in {x \in Message : Stored(x)} \cup {NoMessage} :
             /\ \A q \in Request : op[q] = "send" => about[q] # m
             /\ Begin(r, "send", Author[m], m)
             /\ target' = [target EXCEPT ![r] = t]
             /\ Goto(r, "writing")
             /\ UNCHANGED <<table, shown, copy, reacted, late>>
      BY <1>2 DEF CheckSend
    <2>2. PICK t \in {x \in Message : Stored(x)} \cup {NoMessage} :
             /\ \A q \in Request : op[q] = "send" => about[q] # m
             /\ Begin(r, "send", Author[m], m)
             /\ target' = [target EXCEPT ![r] = t]
             /\ Goto(r, "writing")
             /\ UNCHANGED <<table, shown, copy, reacted, late>>
      BY <2>1
    <2>3. m \in Message /\ Author[m] \in User
      BY DEF TypeOK
    <2>4. /\ op'[r] = "send" /\ by'[r] \in User /\ about'[r] = m /\ stage'[r] = "writing"
          /\ target'[r] = t /\ stage[r] = "idle"
          /\ \A q \in Request \ {r} :
               /\ op'[q] = op[q] /\ by'[q] = by[q] /\ about'[q] = about[q]
               /\ stage'[q] = stage[q] /\ target'[q] = target[q]
      BY <2>2, <2>3 DEF Begin, Goto, TypeOK
    <2>5. /\ op' \in [Request -> Op \cup {"none"}]
          /\ by' \in [Request -> User \cup {NoUser}]
          /\ about' \in [Request -> Message \cup {NoMessage}]
          /\ stage' \in [Request -> Stage]
          /\ copy' \in [Request -> Row \cup {NoRow}]
          /\ target' \in [Request -> Message \cup {NoMessage}]
      BY <2>2, <2>3 DEF Begin, Goto, TypeOK, Stage, Op
    <2>6. /\ disturbed \subseteq disturbed' /\ disturbed' \subseteq disturbed \cup {m}
          /\ m \notin disturbed' => \A q \in Request : AtWork(q) => about[q] # m
      BY <2>2 DEF Begin, Private
    <2> QED
      BY <2>2, <2>3, <2>4, <2>5, <2>6 DEF Op
  <1> QED
    BY <1>1, <1>2 DEF Begins

-----------------------------------------------------------------------------
LEMMA Parameters ==
  ASSUME IInv, NEW r \in Request, InFlight(r)
  PROVE  /\ op[r] \in Op /\ by[r] \in User /\ about[r] \in Message
         /\ (op[r] = "send" /\ stage[r] = "writing") \/ copy[r] \in Row
         /\ r # NoRequest
  BY ParameterAssumption DEF IInv, RequestInv, InFlight

LEMMA Changing_Row ==
  ASSUME NEW r \in Request, copy[r] \in Row
  PROVE  /\ Changed(r) \in Row \ {NoRow}
         /\ Changed(r).version = copy[r].version + 1
         /\ op[r] = "edit" => Changed(r).content = r /\ Changed(r).pinned = copy[r].pinned
         /\ op[r] # "edit" => Changed(r).content = copy[r].content
  <1>1. copy[r].content \in Text /\ copy[r].pinned \in BOOLEAN /\ copy[r].version \in Nat
    BY DEF Row
  <1>2. r \in Text
    BY DEF Text
  <1> DEFINE c == IF op[r] = "edit" THEN r ELSE copy[r].content
             p == IF op[r] = "edit" THEN copy[r].pinned ELSE op[r] = "pin"
  <1>3. c \in Text /\ copy[r].version + 1 \in Nat
    BY <1>1, <1>2
  <1>4. p \in BOOLEAN
    BY <1>1
  <1>5. [content |-> c, pinned |-> p, version |-> copy[r].version + 1] \in Row \ {NoRow}
    <2> HIDE DEF c, p
    <2> QED
      BY <1>3, <1>4, Rows
  <1>6. Changed(r) \in Row \ {NoRow}
    BY <1>5 DEF Changed
  <1> QED
    BY <1>6 DEF Changed

LEMMA EventIsItem ==
  ASSUME TypeOK, NEW r \in Request, copy[r] \in Row
  PROVE  Event(r) \in Item \ {NoRow}
  <1>1. copy[r].content \in Text /\ copy[r].pinned \in BOOLEAN /\ reacted[r] \in SUBSET User
    BY DEF TypeOK, Row
  <1> QED
    BY <1>1, Rows DEF Event

LEMMA CurrentIsItem ==
  ASSUME TypeOK, NEW x \in Message
  PROVE  /\ Stored(x) => Current(x) \in Item \ {NoRow}
         /\ ~Stored(x) => Current(x) = NoRow
  <1>1. reactions[x] \in SUBSET User
    BY DEF TypeOK
  <1>2. ASSUME Stored(x) PROVE row[x].content \in Text /\ row[x].pinned \in BOOLEAN
    BY <1>2 DEF TypeOK, Row, Stored
  <1> QED
    BY <1>1, <1>2, Rows DEF Current

(* What is stored of a message that is written.                             *)
LEMMA SendEffect ==
  ASSUME IInv, NEW r \in Request, Send(r)
  PROVE  LET m == about[r]  new == [content |-> r, pinned |-> FALSE, version |-> 1] IN
         /\ new \in Row \ {NoRow}
         /\ row' = [row EXCEPT ![m] = new] /\ copy' = [copy EXCEPT ![r] = new]
         /\ m \in unsent /\ m \in Message
  <1> DEFINE m == about[r]  new == [content |-> r, pinned |-> FALSE, version |-> 1]
  <1>1. InFlight(r) /\ op[r] = "send" /\ stage[r] = "writing"
    BY DEF Send, InFlight
  <1>2. m \in unsent /\ m \in Message
    BY <1>1, Parameters DEF IInv, SendInv
  <1>3. new \in Row \ {NoRow}
    BY Rows DEF Text
  <1> QED
    BY <1>2, <1>3 DEF Send

LEMMA UpdateEffect ==
  ASSUME IInv, NEW r \in Request, Update(r)
  PROVE  LET m == about[r] IN
         /\ m \in Message /\ copy[r] \in Row /\ row[m] \in Row /\ Stored(m)
         /\ Changed(r) \in Row \ {NoRow}
         /\ row' \in [Message -> Row \cup {NoRow}]
         /\ row'[m] \in Row \ {NoRow}
         /\ row'[m].version = copy[r].version + 1
         /\ row[m] = copy[r] => row'[m] = Changed(r)
         /\ \A x \in Message \ {m} : row'[x] = row[x]
         /\ copy' = [copy EXCEPT ![r] = Changed(r)]
  <1> DEFINE m == about[r]
             new == [content |-> IF op[r] = "edit" THEN r ELSE row[m].content,
                     pinned  |-> IF Changed(r).pinned # copy[r].pinned
                                 THEN Changed(r).pinned ELSE row[m].pinned,
                     version |-> Changed(r).version]
  <1>1. InFlight(r) /\ op[r] \in {"edit", "pin", "unpin"} /\ Stored(m)
    BY DEF Update, InFlight
  <1>2. m \in Message /\ copy[r] \in Row /\ row[m] \in Row
    BY <1>1, Parameters DEF IInv, TypeOK, Stored
  <1>3. /\ Changed(r) \in Row \ {NoRow}
        /\ Changed(r).version = copy[r].version + 1
        /\ op[r] = "edit" => Changed(r).content = r /\ Changed(r).pinned = copy[r].pinned
        /\ op[r] # "edit" => Changed(r).content = copy[r].content
    BY <1>2, Changing_Row
  <1>4. /\ Changed(r).content \in Text /\ Changed(r).pinned \in BOOLEAN
        /\ Changed(r).version \in Nat /\ copy[r].version \in Nat
        /\ row[m].content \in Text /\ row[m].pinned \in BOOLEAN /\ r \in Text
    BY <1>2, <1>3 DEF Row, Text
  <1>5. new \in Row \ {NoRow}
    BY <1>4, Rows
  <1>6. row' = [row EXCEPT ![m] = new] /\ copy' = [copy EXCEPT ![r] = Changed(r)]
    BY DEF Update
  <1>7. row[m] = copy[r] => new = Changed(r)
    <2> SUFFICES ASSUME row[m] = copy[r] PROVE new = Changed(r)
      OBVIOUS
    <2>1. new.content = Changed(r).content /\ new.pinned = Changed(r).pinned
      BY <1>3, <1>4
    <2> QED
      BY <2>1, <1>3, <1>5 DEF Row
  <1>8. /\ row' \in [Message -> Row \cup {NoRow}] /\ row'[m] = new
        /\ \A x \in Message \ {m} : row'[x] = row[x]
    BY <1>2, <1>5, <1>6 DEF IInv, TypeOK
  <1> QED
    BY <1>1, <1>2, <1>3, <1>5, <1>6, <1>7, <1>8

(* A request that goes on: its own progress, and what it leaves alone.      *)
LEMMA GoingOn ==
  ASSUME IInv, NEW r \in Request, GoesOn(r)
  PROVE  /\ UNCHANGED <<params, target>>
         /\ InFlight(r)
         /\ op[r] \in Op /\ by[r] \in User /\ about[r] \in Message
         /\ stage' \in [Request -> Stage]
         /\ stage'[r] \in {"writing", "committed", "loaded", "done", "failed"}
         /\ stage'[r] = "writing" => stage[r] = "looking"
         /\ stage'[r] = "committed" => op[r] \in Changing /\ copy'[r] \in Row
         /\ stage'[r] = "loaded" => op[r] \in Changing \cup {"delete"} /\ copy'[r] \in Row
         /\ \A q \in Request \ {r} :
              /\ stage'[q] = stage[q] /\ copy'[q] = copy[q] /\ reacted'[q] = reacted[q]
  <1>1. InFlight(r)
    BY DEF GoesOn, Send, Update, Delete, FindReaction, React, Unreact, FindBookmark, Bookmark,
           MarkRead, Reload, Publish, Fail, InFlight
  <1>2. UNCHANGED <<params, target>>
    BY DEF GoesOn, Send, Update, Delete, FindReaction, React, Unreact, FindBookmark, Bookmark,
           MarkRead, Reload, Publish, Fail, params, session
  <1>3. PICK s \in {"writing", "committed", "loaded", "done", "failed"} : Goto(r, s)
    BY DEF GoesOn, Send, Update, Delete, FindReaction, React, Unreact, FindBookmark, Bookmark,
           MarkRead, Reload, Publish, Fail
  <1>4. /\ stage' \in [Request -> Stage] /\ stage'[r] = s
        /\ \A q \in Request \ {r} : stage'[q] = stage[q]
    BY <1>3 DEF Goto, IInv, TypeOK, Stage
  <1>5. /\ s = "writing" => stage[r] = "looking"
        /\ s = "committed" => op[r] \in Changing
        /\ s = "loaded" => op[r] \in Changing \cup {"delete"}
    <2>1. stage[r] = "committed" => op[r] \in Changing
      BY DEF IInv, RequestInv
    <2> QED
      BY <1>4, <2>1 DEF GoesOn, Send, Update, Delete, FindReaction, React, Unreact, FindBookmark,
           Bookmark, MarkRead, Reload, Publish, Fail, Goto, Changing, IInv, TypeOK
  <1>6. \A q \in Request \ {r} : reacted'[q] = reacted[q]
    BY DEF GoesOn, Send, Update, Delete, FindReaction, React, Unreact, FindBookmark, Bookmark,
           MarkRead, Reload, Publish, Fail, session, IInv, TypeOK
  <1>7. /\ \A q \in Request \ {r} : copy'[q] = copy[q]
        /\ s \in {"committed", "loaded"} => copy'[r] \in Row
    <2>0. copy \in [Request -> Row \cup {NoRow}]
      BY DEF IInv, TypeOK
    <2>1. CASE Send(r)
      <3>1. PICK new \in Row : copy' = [copy EXCEPT ![r] = new]
        BY <2>1, SendEffect
      <3> QED
        BY <2>0, <3>1
    <2>2. CASE Update(r)
      <3>1. PICK new \in Row : copy' = [copy EXCEPT ![r] = new]
        BY <2>2, UpdateEffect
      <3> QED
        BY <2>0, <3>1
    <2>3. CASE ~Send(r) /\ ~Update(r)
      <3>1. copy' = copy
        BY <2>3 DEF GoesOn, Delete, FindReaction, React, Unreact, FindBookmark,
                    Bookmark, MarkRead, Reload, Publish, Fail, session
      <3>2. s \in {"committed", "loaded"} => ~(op[r] = "send" /\ stage[r] = "writing")
        BY <1>4, <2>3 DEF GoesOn, Delete, FindReaction, React, Unreact, FindBookmark,
           Bookmark, MarkRead, Reload, Publish, Fail, Goto, IInv, TypeOK
      <3> QED
        BY <1>1, <3>1, <3>2, Parameters
    <2> QED
      BY <2>1, <2>2, <2>3
  <1> QED
    BY <1>1, <1>2, <1>4, <1>5, <1>6, <1>7, Parameters DEF params

LEMMA TypeInv ==
  ASSUME IInv, [Next]_vars
  PROVE  TypeOK'
  <1> USE DEF IInv, history, table, personal, session, params
  <1>1. ASSUME NEW r \in Request, Begins(r) PROVE TypeOK'
    <2>1. disturbed' \subseteq Message
      BY <1>1, Beginning DEF TypeOK
    <2> QED
      BY <1>1, <2>1, Beginning DEF TypeOK
  <1>2. ASSUME NEW r \in Request, GoesOn(r) PROVE TypeOK'
    <2>0. /\ UNCHANGED <<params, target>> /\ stage' \in [Request -> Stage]
          /\ op[r] \in Op /\ by[r] \in User /\ about[r] \in Message
          /\ r \in Text /\ NoRequest \in Text
      BY <1>2, GoingOn DEF Text
    <2>1. CASE Send(r)
      <3> DEFINE m == about[r]
                 new == [content |-> r, pinned |-> FALSE, version |-> 1]
      <3>0. /\ row' = [row EXCEPT ![m] = new] /\ copy' = [copy EXCEPT ![r] = new]
            /\ new \in Row
        BY <2>1, SendEffect
      <3> HIDE DEF new
      <3>1. /\ row' \in [Message -> Row \cup {NoRow}] /\ copy' \in [Request -> Row \cup {NoRow}]
        BY <3>0 DEF TypeOK
      <3>2. /\ unsent' \subseteq Message /\ reply_to' \in [Message -> Message \cup {NoMessage}]
            /\ UNCHANGED <<reactions, bookmarks, last_read, shown, reacted, disturbed, late>>
        BY <2>1, <2>0 DEF TypeOK, Send
      <3> QED
        BY <2>0, <3>1, <3>2 DEF TypeOK
    <2>2. CASE Update(r)
      <3>0. /\ Changed(r) \in Row /\ copy' = [copy EXCEPT ![r] = Changed(r)]
            /\ row' \in [Message -> Row \cup {NoRow}]
        BY <2>2, UpdateEffect
      <3>1. copy' \in [Request -> Row \cup {NoRow}]
        BY <3>0 DEF TypeOK
      <3>2. UNCHANGED <<unsent, reply_to, reactions, bookmarks, last_read, shown, reacted,
                        disturbed, late>>
        BY <2>2 DEF Update
      <3> QED
        BY <2>0, <3>0, <3>1, <3>2 DEF TypeOK
    <2>3. CASE Delete(r)
      <3>1. /\ row' \in [Message -> Row \cup {NoRow}]
            /\ reply_to' \in [Message -> Message \cup {NoMessage}]
            /\ reactions' \in [Message -> SUBSET User]
            /\ bookmarks' \subseteq Message \X User
            /\ last_read' \in [User -> Message \cup {NoMessage}]
        BY <2>3, <2>0 DEF TypeOK, Delete
      <3>2. /\ late' \subseteq Message
            /\ UNCHANGED <<unsent, shown, copy, reacted, disturbed>>
        BY <2>3, <2>0 DEF TypeOK, Delete
      <3> QED
        BY <2>0, <3>1, <3>2 DEF TypeOK
    <2>4. CASE FindReaction(r)
      BY <2>0, <2>4 DEF TypeOK, FindReaction
    <2>5. CASE React(r)
      BY <2>0, <2>5 DEF TypeOK, React
    <2>6. CASE Unreact(r)
      BY <2>0, <2>6 DEF TypeOK, Unreact
    <2>7. CASE FindBookmark(r)
      BY <2>0, <2>7 DEF TypeOK, FindBookmark
    <2>8. CASE Bookmark(r)
      BY <2>0, <2>8 DEF TypeOK, Bookmark
    <2>9. CASE MarkRead(r)
      BY <2>0, <2>9 DEF TypeOK, MarkRead
    <2>10. CASE Reload(r)
      BY <2>0, <2>10 DEF TypeOK, Reload
    <2>11. CASE Publish(r)
      <3>1. op[r] # "delete" => Event(r) \in Item
        <4>1. copy[r] \in Row
          BY <2>11, Parameters DEF Publish, InFlight
        <4> QED
          BY <4>1, EventIsItem
      <3>2. \A x \in Message : Current(x) \in Item \cup {NoRow}
        BY CurrentIsItem
      <3>3. shown' \in [Message -> Item \cup {NoRow}]
        BY <2>0, <2>11, <3>1, <3>2 DEF TypeOK, Publish
      <3> QED
        BY <2>0, <2>11, <3>3 DEF TypeOK, Publish
    <2>12. CASE Fail(r)
      BY <2>0, <2>12 DEF TypeOK, Fail
    <2> QED
      BY <1>2, <2>1, <2>2, <2>3, <2>4, <2>5, <2>6, <2>7, <2>8, <2>9, <2>10, <2>11, <2>12 DEF GoesOn
  <1>3. CASE UNCHANGED vars
    BY <1>3 DEF TypeOK, vars
  <1> QED
    BY <1>1, <1>2, <1>3, NextCases

(* What a request leaves alone: everything about other messages, but that   *)
(* a client may fetch the channel again.                                    *)
LEMMA Elsewhere ==
  ASSUME IInv, NEW r \in Request, GoesOn(r), NEW x \in Message, x # about[r]
  PROVE  /\ row'[x] = row[x] /\ reactions'[x] = reactions[x]
         /\ shown'[x] = shown[x] \/ shown'[x] = Current(x)
         /\ x \in unsent' <=> x \in unsent
         /\ x \in disturbed' <=> x \in disturbed
         /\ x \in late' <=> x \in late
  <1> USE DEF history, table, personal, session, params
  <1>0. about[r] \in Message /\ TypeOK
    BY GoingOn DEF IInv
  <1>1. CASE Send(r)
    <2> DEFINE m == about[r]
               new == [content |-> r, pinned |-> FALSE, version |-> 1]
    <2>0. row' = [row EXCEPT ![m] = new]
      BY <1>1, SendEffect
    <2>1. row'[x] = row[x]
      BY <2>0, <1>0 DEF TypeOK
    <2> QED
      BY <1>1, <2>1 DEF Send
  <1>2. CASE Update(r)
    <2>1. row'[x] = row[x]
      BY <1>2, UpdateEffect
    <2> QED
      BY <1>2, <2>1 DEF Update
  <1>3. CASE Delete(r)
    BY <1>0, <1>3 DEF Delete, TypeOK
  <1>4. CASE FindReaction(r) \/ FindBookmark(r) \/ Bookmark(r) \/ MarkRead(r) \/ Reload(r)
    BY <1>4 DEF FindReaction, FindBookmark, Bookmark, MarkRead, Reload
  <1>5. CASE React(r)
    BY <1>0, <1>5 DEF React, TypeOK
  <1>6. CASE Unreact(r)
    BY <1>0, <1>6 DEF Unreact, TypeOK
  <1>7. CASE Publish(r)
    BY <1>0, <1>7 DEF Publish, TypeOK
  <1>8. CASE Fail(r)
    BY <1>0, <1>8 DEF Fail
  <1> QED
    BY <1>1, <1>2, <1>3, <1>4, <1>5, <1>6, <1>7, <1>8 DEF GoesOn

LEMMA RequestsKept ==
  ASSUME IInv, [Next]_vars
  PROVE  RequestInv'
  <1>1. ASSUME NEW r \in Request, Begins(r), NEW q \in Request
        PROVE  /\ stage'[q] = "idle" => op'[q] = "none" /\ about'[q] = NoMessage
               /\ stage'[q] # "idle" => op'[q] \in Op /\ by'[q] \in User /\ about'[q] \in Message
               /\ stage'[q] = "looking" => op'[q] \in {"react", "unreact", "bookmark", "unbookmark"}
               /\ stage'[q] = "committed" => op'[q] \in Changing
               /\ stage'[q] = "loaded" => op'[q] \in Changing \cup {"delete"}
               /\ InFlight(q)' => (op'[q] = "send" /\ stage'[q] = "writing") \/ copy'[q] \in Row
    <2>1. CASE q = r
      <3>1. op'[r] # "send" => copy'[r] \in Row
        BY <1>1, Beginning DEF IInv, TypeOK, Stored
      <3>2. op'[r] = "send" => stage'[r] = "writing"
        BY <1>1, Beginning
      <3> QED
        BY <1>1, <2>1, <3>1, <3>2, Beginning
    <2>2. CASE q # r
      BY <1>1, <2>2, Beginning DEF IInv, RequestInv, InFlight
    <2> QED
      BY <2>1, <2>2
  <1>2. ASSUME NEW r \in Request, GoesOn(r), NEW q \in Request
        PROVE  /\ stage'[q] = "idle" => op'[q] = "none" /\ about'[q] = NoMessage
               /\ stage'[q] # "idle" => op'[q] \in Op /\ by'[q] \in User /\ about'[q] \in Message
               /\ stage'[q] = "looking" => op'[q] \in {"react", "unreact", "bookmark", "unbookmark"}
               /\ stage'[q] = "committed" => op'[q] \in Changing
               /\ stage'[q] = "loaded" => op'[q] \in Changing \cup {"delete"}
               /\ InFlight(q)' => (op'[q] = "send" /\ stage'[q] = "writing") \/ copy'[q] \in Row
    <2>0. UNCHANGED <<op, by, about>>
      BY <1>2, GoingOn DEF params
    <2>1. CASE q = r
      <3>1. stage'[r] = "writing" => copy'[r] \in Row
        <4>1. stage'[r] = "writing" => FindReaction(r) \/ FindBookmark(r)
          BY <1>2 DEF GoesOn, Send, Update, Delete, React, Unreact, Bookmark,
                      MarkRead, Reload, Publish, Fail, Goto, IInv, TypeOK
        <4>2. stage[r] = "looking" => copy[r] \in Row
          BY DEF IInv, RequestInv, InFlight
        <4> QED
          BY <4>1, <4>2 DEF FindReaction, FindBookmark, session
      <3> QED
        BY <1>2, <2>0, <2>1, <3>1, GoingOn DEF InFlight
    <2>2. CASE q # r
      BY <1>2, <2>0, <2>2, GoingOn DEF IInv, RequestInv, InFlight
    <2> QED
      BY <2>1, <2>2
  <1>3. CASE UNCHANGED vars
    BY <1>3 DEF IInv, RequestInv, InFlight, vars, params, session
  <1> QED
    BY <1>1, <1>2, <1>3, NextCases DEF RequestInv, InFlight

LEMMA SendsKept ==
  ASSUME IInv, [Next]_vars
  PROVE  SendInv'
  <1> USE DEF SendInv, Stored
  <1>1. ASSUME NEW r \in Request, Begins(r) PROVE SendInv'
    <2>1. UNCHANGED <<row, unsent>>
      BY <1>1, Beginning DEF table
    <2>2. \A q \in Request :
            /\ op'[q] = "send" /\ stage'[q] = "writing" => about'[q] \in unsent
            /\ about'[q] \in unsent => op'[q] = "send" /\ stage'[q] \in {"writing", "failed"}
      BY <1>1, Beginning DEF IInv
    <2>3. \A q, p \in Request :
            op'[q] = "send" /\ op'[p] = "send" /\ about'[q] = about'[p] => q = p
      BY <1>1, Beginning DEF IInv
    <2> QED
      BY <2>1, <2>2, <2>3 DEF IInv
  <1>2. ASSUME NEW r \in Request, GoesOn(r) PROVE SendInv'
    <2>0. UNCHANGED <<op, by, about>>
      BY <1>2, GoingOn DEF params
    <2>1. CASE Send(r)
      <3>1. /\ about[r] \in unsent /\ unsent' = unsent \ {about[r]}
            /\ \A x \in Message \ {about[r]} : row'[x] = row[x]
            /\ op[r] = "send"
        BY <2>1, <1>2, SendEffect, Elsewhere DEF Send
      <3>2. stage'[r] = "committed" /\ \A q \in Request \ {r} : stage'[q] = stage[q]
        BY <2>1 DEF Send, Goto, IInv, TypeOK
      <3>3. \A q \in Request : q # r /\ op[q] = "send" => about[q] # about[r]
        BY <3>1 DEF IInv
      <3> QED
        BY <2>0, <3>1, <3>2, <3>3 DEF IInv, TypeOK
    <2>2. CASE ~Send(r)
      <3>1. UNCHANGED unsent
        BY <1>2, <2>2 DEF GoesOn, Update, Delete, FindReaction, React, Unreact, FindBookmark,
                          Bookmark, MarkRead, Reload, Publish, Fail, table
      <3>2. \A m \in unsent : row'[m] = NoRow
        <4>1. ASSUME NEW m \in unsent, m # about[r] PROVE row'[m] = NoRow
          BY <1>2, <4>1, Elsewhere DEF IInv, TypeOK
        <4>2. ASSUME about[r] \in unsent PROVE row'[about[r]] = NoRow
          <5>1. op[r] = "send" /\ stage[r] = "writing"
            BY <1>2, <4>2, GoingOn DEF IInv, InFlight
          <5>2. UNCHANGED row
            BY <1>2, <2>2, <5>1 DEF GoesOn, Update, Delete, FindReaction, React, Unreact,
                 FindBookmark, Bookmark, MarkRead, Reload, Publish, Fail, table
          <5> QED
            BY <4>2, <5>2 DEF IInv
        <4> QED
          BY <4>1, <4>2
      <3>3. ASSUME op[r] = "send", stage[r] = "writing" PROVE stage'[r] = "failed"
        BY <1>2, <2>2, <3>3 DEF GoesOn, Update, Delete, FindReaction, React, Unreact,
             FindBookmark, Bookmark, MarkRead, Reload, Publish, Fail, Goto, IInv, TypeOK
      <3>4. /\ \A q \in Request \ {r} : stage'[q] = stage[q]
            /\ stage'[r] = "writing" => stage[r] = "looking" /\ op[r] # "send"
            /\ InFlight(r)
        BY <1>2, GoingOn DEF IInv, RequestInv
      <3> QED
        BY <2>0, <3>1, <3>2, <3>3, <3>4 DEF IInv, InFlight
    <2> QED
      BY <2>1, <2>2
  <1>3. CASE UNCHANGED vars
    BY <1>3 DEF IInv, vars, table, params
  <1> QED
    BY <1>1, <1>2, <1>3, NextCases

LEMMA ReferencesKept ==
  ASSUME IInv, [Next]_vars
  PROVE  NoOrphans'
  <1> USE DEF Stored, IInv
  <1>1. ASSUME NEW r \in Request, Begins(r) PROVE NoOrphans'
    BY <1>1, Beginning DEF table, personal, NoOrphans
  <1>2. ASSUME NEW r \in Request, GoesOn(r) PROVE NoOrphans'
    <2> DEFINE m == about[r]
    <2>0. /\ m \in Message
          /\ \A x \in Message \ {m} : row'[x] = row[x] /\ reactions'[x] = reactions[x]
      BY <1>2, GoingOn, Elsewhere
    <2>1. CASE Send(r)
      <3>1. row'[m] # NoRow /\ row[m] = NoRow
        <4>1. m \in unsent
          BY <2>1, SendEffect
        <4> DEFINE new == [content |-> r, pinned |-> FALSE, version |-> 1]
        <4>2. row' = [row EXCEPT ![m] = new] /\ new # NoRow
          BY <2>1, SendEffect
        <4> QED
          BY <2>0, <4>1, <4>2 DEF SendInv, TypeOK
      <3>2. /\ reply_to'[m] = target[r]
            /\ \A x \in Message \ {m} : reply_to'[x] = reply_to[x]
            /\ target[r] # NoMessage => row[target[r]] # NoRow
            /\ target[r] \in Message \cup {NoMessage}
            /\ UNCHANGED <<reactions, bookmarks, last_read>>
        BY <2>0, <2>1 DEF Send, TypeOK, personal
      <3> QED
        BY <2>0, <3>1, <3>2 DEF NoOrphans, TypeOK
    <2>2. CASE Update(r)
      <3>1. row'[m] # NoRow
        BY <2>2, UpdateEffect
      <3> QED
        BY <2>0, <2>2, <3>1 DEF NoOrphans, Update, personal, TypeOK
    <2>3. CASE Delete(r)
      <3>1. /\ row'[m] = NoRow
            /\ \A x \in Message : reply_to'[x] = IF x = m \/ reply_to[x] = m THEN NoMessage
                                               ELSE reply_to[x]
            /\ reactions'[m] = {}
            /\ bookmarks' = {b \in bookmarks : b[1] # m}
            /\ \A u \in User : last_read'[u] = IF last_read[u] = m THEN NoMessage ELSE last_read[u]
        BY <2>0, <2>3 DEF Delete, TypeOK
      <3>2. /\ \A x \in Message : reply_to'[x] # NoMessage => row'[x] # NoRow /\ row'[reply_to'[x]] # NoRow
            /\ \A x \in Message : row'[x] = NoRow => reactions'[x] = {}
        BY <2>0, <3>1 DEF NoOrphans, TypeOK
      <3>3. \A b \in bookmarks' : row'[b[1]] # NoRow
        BY <2>0, <3>1 DEF NoOrphans, TypeOK
      <3>4. \A u \in User : last_read'[u] # NoMessage => row'[last_read'[u]] # NoRow
        BY <2>0, <3>1 DEF NoOrphans, TypeOK
      <3> QED
        BY <3>2, <3>3, <3>4 DEF NoOrphans
    <2>4. CASE React(r)
      BY <2>0, <2>4 DEF NoOrphans, React, personal
    <2>5. CASE Unreact(r)
      <3>1. row[m] = NoRow => reactions'[m] = {}
        BY <2>0, <2>5 DEF NoOrphans, Unreact, TypeOK
      <3> QED
        BY <2>0, <2>5, <3>1 DEF NoOrphans, Unreact, personal
    <2>6. CASE Bookmark(r)
      <3>1. \A b \in bookmarks' : row[b[1]] # NoRow
        BY <2>0, <2>6 DEF NoOrphans, Bookmark
      <3> QED
        BY <2>6, <3>1 DEF NoOrphans, Bookmark
    <2>7. CASE MarkRead(r)
      <3>1. \A u \in User : last_read'[u] # NoMessage => row[last_read'[u]] # NoRow
        BY <2>0, <2>7 DEF NoOrphans, MarkRead, TypeOK
      <3> QED
        BY <2>7, <3>1 DEF NoOrphans, MarkRead
    <2>8. CASE FindReaction(r) \/ FindBookmark(r) \/ Reload(r) \/ Publish(r) \/ Fail(r)
      BY <2>8 DEF NoOrphans, FindReaction, FindBookmark, Reload, Publish, Fail, table, personal
    <2> QED
      BY <1>2, <2>1, <2>2, <2>3, <2>4, <2>5, <2>6, <2>7, <2>8 DEF GoesOn
  <1>3. CASE UNCHANGED vars
    BY <1>3 DEF vars, table, personal, NoOrphans
  <1> QED
    BY <1>1, <1>2, <1>3, NextCases

LEMMA SameCurrent ==
  ASSUME NEW x \in Message, row'[x] = row[x], reactions'[x] = reactions[x]
  PROVE  Current(x)' = Current(x) /\ (Stored(x)' <=> Stored(x))
  BY DEF Current, Stored

LEMMA DeletedKept ==
  ASSUME IInv, [Next]_vars
  PROVE  DeletedInv'
  <1> USE DEF IInv, Stored
  <1>1. ASSUME NEW r \in Request, Begins(r) PROVE DeletedInv'
    <2>1. UNCHANGED <<row, unsent, shown, late>>
      BY <1>1, Beginning DEF table
    <2>2. /\ stage[r] = "idle"
          /\ op'[r] = "send" => about'[r] \in unsent
          /\ \A q \in Request \ {r} : op'[q] = op[q] /\ about'[q] = about[q] /\ stage'[q] = stage[q]
      BY <1>1, Beginning
    <2> QED
      BY <2>1, <2>2 DEF DeletedInv, InFlight
  <1>2. ASSUME NEW r \in Request, GoesOn(r) PROVE DeletedInv'
    <2> SUFFICES ASSUME NEW m \in Message, m \notin late', m \notin unsent', row'[m] = NoRow
                 PROVE  /\ \A q \in Request : op'[q] = "send" /\ about'[q] = m => ~InFlight(q)'
                        /\ shown'[m] # NoRow =>
                             \E q \in Request : /\ about'[q] = m /\ op'[q] = "delete"
                                                /\ stage'[q] \in {"loaded", "failed"}
      BY DEF DeletedInv
    <2>0. /\ about[r] \in Message /\ UNCHANGED <<op, by, about>> /\ InFlight(r)
          /\ \A q \in Request \ {r} : stage'[q] = stage[q]
      BY <1>2, GoingOn DEF params
    <2>1. CASE m # about[r]
      <3>1. /\ row'[m] = row[m] /\ m \notin late /\ m \notin unsent
            /\ shown'[m] = shown[m] \/ shown'[m] = Current(m)
        BY <1>2, <2>1, Elsewhere
      <3>2. Current(m) = NoRow
        BY <3>1 DEF Current
      <3>3. \A q \in Request : about[q] = m => stage'[q] = stage[q]
        BY <2>0, <2>1
      <3>4. /\ \A q \in Request : op[q] = "send" /\ about[q] = m => ~InFlight(q)
            /\ shown[m] # NoRow =>
                 \E q \in Request : /\ about[q] = m /\ op[q] = "delete"
                                    /\ stage[q] \in {"loaded", "failed"}
        BY <3>1 DEF DeletedInv
      <3>5. shown'[m] # NoRow => shown[m] # NoRow
        BY <3>1, <3>2
      <3> QED
        BY <2>0, <3>3, <3>4, <3>5 DEF InFlight
    <2>2. CASE m = about[r] /\ Delete(r)
      <3>1. /\ stage'[r] = "loaded" /\ op[r] = "delete"
            /\ \A q \in Request : op[q] = "send" /\ about[q] = m => ~InFlight(q)
        BY <2>0, <2>2 DEF Delete, Goto, TypeOK
      <3> QED
        BY <2>0, <2>2, <3>1 DEF InFlight
    <2>3. CASE m = about[r] /\ ~Delete(r)
      <3>1. ~Send(r)
        <4> DEFINE new == [content |-> r, pinned |-> FALSE, version |-> 1]
        <4>1. Send(r) => row' = [row EXCEPT ![m] = new] /\ new # NoRow
          BY <2>3, SendEffect
        <4> HIDE DEF new
        <4> QED
          BY <4>1 DEF TypeOK
      <3>2. ~Update(r)
        BY <2>3, UpdateEffect
      <3>3. UNCHANGED <<row, unsent, late>>
        BY <1>2, <2>3, <3>1, <3>2 DEF GoesOn, FindReaction, React, Unreact, FindBookmark,
             Bookmark, MarkRead, Reload, Publish, Fail, table, history
      <3>4. /\ \A q \in Request : op[q] = "send" /\ about[q] = m => ~InFlight(q)
            /\ shown[m] # NoRow =>
                 \E q \in Request : /\ about[q] = m /\ op[q] = "delete"
                                    /\ stage[q] \in {"loaded", "failed"}
        BY <3>3 DEF DeletedInv
      <3>5. op[r] # "send"
        BY <2>0, <2>3, <3>4
      <3>6. CASE Publish(r)
        <4>1. op[r] = "delete" => shown'[m] = NoRow
          BY <2>3, <3>6 DEF Publish, TypeOK
        <4>2. op[r] # "delete" /\ shown[m] = NoRow => shown'[m] = NoRow
          BY <2>3, <3>3, <3>5, <3>6 DEF Publish, Current
        <4> QED
          BY <2>0, <2>3, <3>4, <3>5, <4>1, <4>2 DEF InFlight
      <3>7. CASE ~Publish(r)
        <4>1. UNCHANGED shown
          BY <1>2, <2>3, <3>1, <3>2, <3>7 DEF GoesOn, FindReaction, React, Unreact, FindBookmark,
             Bookmark, MarkRead, Reload, Fail
        <4>2. stage[r] = "loaded" => stage'[r] = "failed"
          BY <1>2, <2>3, <3>1, <3>2, <3>7 DEF GoesOn, FindReaction, React, Unreact, FindBookmark,
             Bookmark, MarkRead, Reload, Fail, Goto, TypeOK
        <4> QED
          BY <2>0, <3>4, <3>5, <4>1, <4>2 DEF InFlight
      <3> QED
        BY <3>6, <3>7
    <2> QED
      BY <2>1, <2>2, <2>3
  <1>3. CASE UNCHANGED vars
    BY <1>3 DEF vars, table, params, history, DeletedInv, InFlight
  <1> QED
    BY <1>1, <1>2, <1>3, NextCases

(* A message about which only private requests move, and which a client may *)
(* fetch again.                                                             *)
LEMMA StillAgrees ==
  ASSUME IInv, NEW x \in Message, Agrees(x),
         row'[x] = row[x], reactions'[x] = reactions[x],
         shown'[x] = shown[x] \/ shown'[x] = Current(x),
         \A q \in Request : about'[q] = x /\ op'[q] \notin Private =>
           /\ about[q] = x /\ op'[q] = op[q] /\ stage'[q] = stage[q]
           /\ copy'[q] = copy[q] /\ reacted'[q] = reacted[q],
         \A q \in Request : about[q] = x /\ op[q] \notin Private =>
           about'[q] = x /\ op'[q] = op[q]
  PROVE  Agrees(x)'
  <1>1. Current(x)' = Current(x) /\ (Stored(x)' <=> Stored(x))
    BY SameCurrent
  <1>2. Sole(x)' /\ (Quiet(x) <=> Quiet(x)')
    BY DEF Agrees, Sole, Quiet, AtWork, InFlight
  <1>3. Quiet(x) => shown'[x] = Current(x)
    BY DEF Agrees
  <1>4. Stored(x) => Current(x) # NoRow
    BY CurrentIsItem DEF IInv
  <1>5. ASSUME NEW q \in Request, about'[q] = x, op'[q] \notin Private PROVE InHand(q)'
    <2>1. /\ about[q] = x /\ op'[q] = op[q] /\ stage'[q] = stage[q]
          /\ copy'[q] = copy[q] /\ reacted'[q] = reacted[q]
          /\ InHand(q)
      BY <1>5 DEF Agrees
    <2>2. stage[q] \in {"committed", "loaded"} /\ op[q] # "delete" => Stored(x)
      <3>1. stage[q] \in {"committed", "loaded"} /\ op[q] # "delete" => copy[q] \in Row
        BY Parameters DEF InFlight
      <3> QED
        BY <2>1, <3>1, NoRowAssumption DEF InHand, Stored
    <2> QED
      BY <1>1, <1>4, <1>5, <2>1, <2>2 DEF InHand
  <1> QED
    BY <1>1, <1>2, <1>3, <1>5 DEF Agrees

LEMMA AgreeWhenBegun ==
  ASSUME IInv, NEW r \in Request, Begins(r)
  PROVE  AgreeInv'
  <1> SUFFICES ASSUME NEW m \in Message, m \notin disturbed' PROVE Agrees(m)'
    BY DEF AgreeInv
  <1>0. /\ UNCHANGED <<row, reactions, shown, reacted>>
        /\ stage[r] = "idle" /\ about[r] = NoMessage /\ m \notin disturbed
        /\ \A q \in Request \ {r} :
              /\ op'[q] = op[q] /\ about'[q] = about[q]
              /\ stage'[q] = stage[q] /\ copy'[q] = copy[q]
    BY Beginning DEF table, IInv, RequestInv
  <1>1. Agrees(m)
    BY <1>0 DEF IInv, AgreeInv
  <1>2. CASE m # about'[r] \/ op'[r] \in Private
    <2>1. about[r] # m
      BY <1>0, ParameterAssumption
    <2> QED
      BY <1>0, <1>1, <1>2, <2>1, StillAgrees
  <1>3. CASE m = about'[r] /\ op'[r] \notin Private
    <2>1. \A q \in Request : about[q] = m => ~AtWork(q)
      BY <1>3, Beginning
    <2>2. shown[m] = Current(m) /\ Current(m)' = Current(m)
      BY <1>0, <1>1, <2>1, SameCurrent DEF Agrees, Quiet
    <2>3. Sole(m)'
      BY <1>0, <2>1 DEF Sole, AtWork, InFlight
    <2>4. stage'[r] \in {"looking", "writing"}
      BY Beginning
    <2>5. ~Quiet(m)'
      BY <1>3, <2>4 DEF Quiet, AtWork, InFlight
    <2>6. InHand(r)'
      <3>1. op'[r] # "send" => copy'[r] = row'[m]
        BY <1>0, <1>3, Beginning
      <3> QED
        BY <1>0, <1>3, <2>2, <2>4, <3>1 DEF InHand
    <2>7. ASSUME NEW q \in Request, q # r, about'[q] = m, op'[q] \notin Private PROVE InHand(q)'
      <3>1. ~InFlight(q) /\ stage'[q] = stage[q]
        BY <1>0, <2>1, <2>7 DEF AtWork
      <3> QED
        BY <3>1 DEF InHand, InFlight
    <2> QED
      BY <2>3, <2>5, <2>6, <2>7 DEF Agrees
  <1> QED
    BY <1>2, <1>3

(* What the request that has the message to itself owes it.                 *)
Owed(r, m) ==
  /\ InHand(r)'
  /\ stage'[r] = "done" => shown'[m] = Current(m)'

LEMMA OwnMessage ==
  ASSUME IInv, NEW r \in Request, GoesOn(r), op[r] \notin Private,
         about[r] \notin disturbed', Owed(r, about[r])
  PROVE  Agrees(about[r])'
  <1> DEFINE m == about[r]
  <1>0. /\ m \in Message /\ UNCHANGED <<op, by, about>> /\ AtWork(r)
        /\ stage'[r] # "idle"
        /\ \A q \in Request \ {r} : stage'[q] = stage[q]
    BY GoingOn DEF params, AtWork
  <1>1. m \notin disturbed /\ stage'[r] # "failed"
    BY <1>0, GoingOn DEF GoesOn, Send, Update, Delete, FindReaction, React, Unreact, FindBookmark,
         Bookmark, MarkRead, Reload, Publish, Fail, Goto, history, IInv, TypeOK
  <1>2. \A q \in Request \ {r} : about[q] = m => ~AtWork(q)
    BY <1>0, <1>1 DEF IInv, AgreeInv, Agrees, Sole
  <1>3. Sole(m)'
    BY <1>0, <1>2 DEF Sole, AtWork, InFlight
  <1>4. Quiet(m)' => stage'[r] = "done"
    BY <1>0, <1>1 DEF Quiet, AtWork, InFlight
  <1>5. ASSUME NEW q \in Request, q # r, about'[q] = m, op'[q] \notin Private PROVE InHand(q)'
    BY <1>0, <1>2, <1>5 DEF InHand, AtWork, InFlight
  <1> QED
    BY <1>0, <1>3, <1>4, <1>5 DEF Agrees, Owed

(* A private request changes nothing that others see.                       *)
LEMMA PrivateStep ==
  ASSUME IInv, NEW r \in Request, GoesOn(r), op[r] \in Private
  PROVE  UNCHANGED <<row, reactions, shown, disturbed>>
  <1>1. stage[r] \notin {"committed", "loaded"}
    BY DEF IInv, RequestInv, Changing, Private
  <1> QED
    BY <1>1 DEF GoesOn, Send, Update, Delete, FindReaction, React, Unreact, FindBookmark, Bookmark,
         MarkRead, Reload, Publish, Fail, Private, table, history

LEMMA AgreeWhenGoingOn ==
  ASSUME IInv, NEW r \in Request, GoesOn(r)
  PROVE  AgreeInv'
  <1> SUFFICES ASSUME NEW x \in Message, x \notin disturbed' PROVE Agrees(x)'
    BY DEF AgreeInv
  <1> DEFINE m == about[r]
  <1>0. /\ m \in Message /\ UNCHANGED <<op, by, about>> /\ InFlight(r)
        /\ op[r] \in Op /\ by[r] \in User
        /\ \A q \in Request \ {r} :
              /\ stage'[q] = stage[q] /\ copy'[q] = copy[q] /\ reacted'[q] = reacted[q]
    BY GoingOn DEF params
  <1>1. CASE x # m
    <2>1. x \notin disturbed
      BY <1>1, Elsewhere
    <2>2. Agrees(x)
      BY <2>1 DEF IInv, AgreeInv
    <2>3. /\ row'[x] = row[x] /\ reactions'[x] = reactions[x]
          /\ shown'[x] = shown[x] \/ shown'[x] = Current(x)
      BY <1>1, Elsewhere
    <2> QED
      BY <1>0, <1>1, <2>2, <2>3, StillAgrees
  <1>2. CASE op[r] \in Private
    <2>1. UNCHANGED <<row, reactions, shown, disturbed>>
      BY <1>2, PrivateStep
    <2>2. Agrees(x)
      BY <2>1 DEF IInv, AgreeInv
    <2> QED
      BY <1>0, <1>2, <2>1, <2>2, StillAgrees
  <1>3. CASE x = m /\ op[r] \notin Private
    <2>0. m \notin disturbed
      BY <1>3 DEF GoesOn, Send, Update, Delete, FindReaction, React, Unreact, FindBookmark,
         Bookmark, MarkRead, Reload, Publish, Fail, history
    <2>1. InHand(r) /\ TypeOK
      BY <1>0, <1>3, <2>0 DEF IInv, AgreeInv, Agrees
    <2>2. Owed(r, m) => Agrees(x)'
      <3>1. about'[r] = x
        BY <1>0, <1>3
      <3>2. Owed(r, about[r]) => Agrees(about[r])'
        BY <1>3, OwnMessage
      <3> QED
        BY <1>3, <3>1, <3>2 DEF Agrees, Sole, Quiet
    <2> SUFFICES Owed(r, m)
      BY <2>2
    <2>3. CASE Send(r)
      <3> DEFINE new == [content |-> r, pinned |-> FALSE, version |-> 1]
      <3>1. row' = [row EXCEPT ![m] = new] /\ copy' = [copy EXCEPT ![r] = new]
        BY <2>3, SendEffect
      <3>2. /\ row'[m] = new /\ copy'[r] = new
            /\ stage'[r] = "committed" /\ op[r] = "send"
        BY <1>0, <2>1, <2>3, <3>1 DEF Send, Goto, TypeOK
      <3> QED
        BY <1>0, <3>2 DEF Owed, InHand
    <2>4. CASE Update(r)
      <3>1. /\ stage[r] = "writing" /\ op[r] \in {"edit", "pin", "unpin"}
            /\ stage'[r] = "committed" /\ UNCHANGED shown
            /\ Stored(m)
        BY <2>1, <2>4 DEF Update, Goto, TypeOK
      <3>2. row[m] = copy[r] /\ shown[m] # NoRow
        BY <1>0, <2>1, <3>1, CurrentIsItem DEF InHand
      <3>3. copy' = [copy EXCEPT ![r] = Changed(r)]
        BY <2>4, UpdateEffect
      <3>4. row'[m] = Changed(r) /\ copy'[r] = Changed(r)
        BY <2>1, <2>4, <3>2, <3>3, UpdateEffect DEF TypeOK
      <3> QED
        BY <1>0, <3>1, <3>2, <3>4 DEF Owed, InHand
    <2>5. CASE Delete(r)
      <3>1. row'[m] = NoRow /\ stage'[r] = "loaded" /\ op[r] = "delete"
        BY <1>0, <2>1, <2>5 DEF Delete, Goto, TypeOK
      <3> QED
        BY <1>0, <3>1 DEF Owed, InHand, Stored
    <2>6. CASE FindReaction(r)
      <3>1. /\ UNCHANGED <<row, reactions, shown, copy>>
            /\ stage[r] = "looking" /\ op[r] \in {"react", "unreact"}
            /\ stage'[r] \in {"writing", "committed"}
        BY <2>1, <2>6 DEF FindReaction, Goto, TypeOK, table, session
      <3>2. row[m] = copy[r] /\ shown[m] = Current(m) /\ Current(m)' = Current(m)
        BY <1>0, <2>1, <3>1, SameCurrent DEF InHand
      <3>3. copy[r] # NoRow
        BY <3>1, Parameters, NoRowAssumption DEF InFlight
      <3>4. shown[m] # NoRow
        BY <1>0, <2>1, <3>2, <3>3, CurrentIsItem DEF Stored
      <3> QED
        BY <1>0, <3>1, <3>2, <3>4 DEF Owed, InHand
    <2>7. CASE React(r) \/ Unreact(r)
      <3>1. /\ UNCHANGED <<row, shown, copy>>
            /\ stage[r] = "writing" /\ stage'[r] = "committed" /\ op[r] \in {"react", "unreact"}
        BY <1>0, <2>1, <2>7 DEF React, Unreact, Goto, TypeOK, session
      <3>2. row[m] = copy[r] /\ shown[m] = Current(m)
        BY <1>0, <2>1, <3>1 DEF InHand
      <3>3. copy[r] # NoRow
        BY <3>1, Parameters, NoRowAssumption DEF InFlight
      <3>4. shown[m] # NoRow
        BY <1>0, <2>1, <3>2, <3>3, CurrentIsItem DEF Stored
      <3> QED
        BY <1>0, <3>1, <3>2, <3>4 DEF Owed, InHand
    <2>8. CASE FindBookmark(r) \/ Bookmark(r) \/ MarkRead(r)
      BY <1>3, <2>8 DEF FindBookmark, Bookmark, MarkRead, Private
    <2>9. CASE Reload(r)
      <3>1. /\ UNCHANGED <<row, reactions, shown, copy>>
            /\ stage[r] = "committed" /\ stage'[r] = "loaded"
            /\ reacted'[r] = reactions[m]
        BY <2>1, <2>9 DEF Reload, Goto, TypeOK, table
      <3>2. op[r] # "delete"
        BY <3>1 DEF IInv, RequestInv, Changing
      <3> QED
        BY <1>0, <2>1, <3>1, <3>2 DEF Owed, InHand
    <2>10. CASE Publish(r)
      <3>1. /\ UNCHANGED <<row, reactions, copy>>
            /\ stage[r] = "loaded" /\ stage'[r] = "done"
        BY <2>1, <2>10 DEF Publish, Goto, TypeOK, table, session
      <3>2. Current(m)' = Current(m)
        BY <1>0, <3>1, SameCurrent
      <3>3. CASE op[r] = "delete"
        <4>1. shown'[m] = NoRow /\ ~Stored(m)
          BY <1>0, <2>1, <2>10, <3>1, <3>3 DEF Publish, TypeOK, InHand
        <4>2. Current(m) = NoRow
          BY <4>1 DEF Current
        <4> QED
          BY <3>1, <3>2, <4>1, <4>2 DEF Owed, InHand
      <3>4. CASE op[r] # "delete"
        <4>1. /\ row[m] = copy[r] /\ copy[r] # NoRow
              /\ op[r] # "send" => shown[m] # NoRow
              /\ reacted[r] = reactions[m]
          <5>1. copy[r] # NoRow
            BY <3>1, Parameters, NoRowAssumption DEF InFlight
          <5> QED
            BY <2>1, <3>1, <3>4, <5>1 DEF InHand
        <4>2. shown'[m] = Event(r)
          BY <1>0, <2>1, <2>10, <3>4, <4>1 DEF Publish, TypeOK
        <4>3. Event(r) = Current(m)
          BY <4>1 DEF Event, Current, Stored
        <4> QED
          BY <3>1, <3>2, <4>2, <4>3 DEF Owed, InHand
      <3> QED
        BY <3>3, <3>4
    <2>11. CASE Fail(r)
      BY <1>3, <2>11 DEF Fail
    <2> QED
      BY <2>3, <2>4, <2>5, <2>6, <2>7, <2>8, <2>9, <2>10, <2>11 DEF GoesOn
  <1> QED
    BY <1>1, <1>2, <1>3

LEMMA AgreeKept ==
  ASSUME IInv, [Next]_vars
  PROVE  AgreeInv'
  <1>1. CASE UNCHANGED vars
    <2> SUFFICES ASSUME NEW x \in Message, x \notin disturbed PROVE Agrees(x)'
      BY <1>1 DEF AgreeInv, vars, history
    <2>1. Agrees(x)
      BY DEF IInv, AgreeInv
    <2> QED
      BY <1>1, <2>1, StillAgrees DEF vars, table, params, session
  <1> QED
    BY <1>1, AgreeWhenBegun, AgreeWhenGoingOn, NextCases

-----------------------------------------------------------------------------
THEOREM Invariance == Spec => []IInv
  <1>1. IInv /\ [Next]_vars => IInv'
    <2> SUFFICES ASSUME IInv, [Next]_vars PROVE IInv'
      OBVIOUS
    <2>1. TypeOK' /\ RequestInv' /\ SendInv'
      BY TypeInv, RequestsKept, SendsKept
    <2>2. NoOrphans' /\ AgreeInv' /\ DeletedInv'
      BY ReferencesKept, AgreeKept, DeletedKept
    <2> QED
      BY <2>1, <2>2 DEF IInv
  <1> QED
    BY <1>1, InitInv, PTL DEF Spec

(* Every variable has its type in every reachable state.                    *)
THEOREM TypeCorrect == Spec => []TypeOK
  <1>1. IInv => TypeOK
    BY DEF IInv
  <1> QED
    BY <1>1, Invariance, PTL

(* No reply, reaction, bookmark or read mark refers to a deleted message.   *)
THEOREM References == Spec => []NoOrphans
  <1>1. IInv => NoOrphans
    BY DEF IInv
  <1> QED
    BY <1>1, Invariance, PTL

(* Requests about a message that come one after the other and succeed leave *)
(* the clients with the message as it is, although each works on the copy   *)
(* it read first.                                                           *)
THEOREM Agreement == Spec => []UndisturbedMessagesAgree
  <1>1. IInv => UndisturbedMessagesAgree
    BY DEF IInv, AgreeInv, Agrees, UndisturbedMessagesAgree
  <1> QED
    BY <1>1, Invariance, PTL

(* A deleted message whose requests have all ended well is shown to nobody, *)
(* unless it was announced after its deletion.                              *)
THEOREM Deletions == Spec => []DeletionsReachClients
  <1>1. ASSUME IInv PROVE DeletionsReachClients
    <2> SUFFICES ASSUME NEW m \in Message, m \notin late, m \notin unsent, ~Stored(m),
                        \A r \in Request : about[r] = m => stage[r] = "done"
                 PROVE  shown[m] = NoRow
      BY DEF DeletionsReachClients
    <2>1. shown[m] # NoRow =>
            \E r \in Request : about[r] = m /\ stage[r] \in {"loaded", "failed"}
      BY <1>1 DEF IInv, DeletedInv
    <2> QED
      BY <2>1
  <1> QED
    BY <1>1, Invariance, PTL

(* Two states of a message differ by one in their version, unless requests  *)
(* about it overlapped or failed: only then can two edits count from the    *)
(* same copy.                                                               *)
THEOREM VersionSteps == Spec => VersionsGrow
  <1> DEFINE Grows ==
        \A m \in Message \ disturbed :
          Stored(m) /\ row'[m] \notin {row[m], NoRow}
            => row'[m].version = row[m].version + 1
  <1>1. ASSUME IInv, [Next]_vars PROVE Grows
    <2> SUFFICES ASSUME NEW m \in Message, m \notin disturbed, Stored(m),
                        row'[m] \notin {row[m], NoRow}
                 PROVE  row'[m].version = row[m].version + 1
      OBVIOUS
    <2>1. PICK r \in Request : Begins(r) \/ GoesOn(r)
      BY <1>1, NextCases DEF vars, table
    <2>2. GoesOn(r) /\ about[r] = m
      BY <1>1, <2>1, Beginning, Elsewhere DEF table
    <2>3. ~Send(r)
      BY <1>1, <2>2, SendEffect DEF IInv, SendInv
    <2>4. ~Delete(r)
      BY <1>1, <2>2 DEF Delete, IInv, TypeOK
    <2>5. Update(r)
      BY <1>1, <2>2, <2>3, <2>4 DEF GoesOn, FindReaction, React, Unreact, FindBookmark, Bookmark,
         MarkRead, Reload, Publish, Fail, table
    <2>6. row[m] = copy[r]
      <3>1. InHand(r)
        BY <1>1, <2>2, <2>5 DEF IInv, AgreeInv, Agrees, Update, Private
      <3> QED
        BY <2>2, <2>5, <3>1 DEF InHand, Update
    <2> QED
      BY <1>1, <2>2, <2>5, <2>6, UpdateEffect
  <1>2. IInv /\ [Next]_vars => [Grows]_vars
    BY <1>1
  <1> QED
    BY <1>2, Invariance, PTL DEF Spec, VersionsGrow

=============================================================================
