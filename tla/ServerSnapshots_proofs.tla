------------------------- MODULE ServerSnapshots_proofs -------------------------
(***************************************************************************)
(* Proofs about ServerSnapshots, for any set of connections and any        *)
(* bounds: types, and StaleIsPending through the invariant IInv.           *)
(***************************************************************************)
EXTENDS ServerSnapshots, TLAPS

\* The step relation of IInv, action by action.  Types come first: they are all
\* that the actions need to be evaluated.
LEMMA TypeInit == Init => TypeOK
<1> SUFFICES ASSUME Init PROVE TypeOK
  OBVIOUS
<1>1. joining \in [Connection -> Collecting]
  BY DEF Init, Collecting, Idle
<1>2. /\ stage \in [Connection -> {"new", "handshaking", "ready", "closed"}]
      /\ view \in [Connection -> Snapshot \union {None}]
      /\ broadcast \in Broadcast \union {None}
  BY DEF Init
<1> QED BY <1>1, <1>2 DEF Init, TypeOK

\* What Received() leaves in view.
LEMMA ReceivedType ==
  ASSUME TypeOK, NEW c \in Connection, NEW r \in Nat, NEW n \in Nat, Received(c, r, n)
  PROVE  /\ view' \in [Connection -> Snapshot \union {None}]
         /\ \A d \in Connection : d # c => view'[d] = view[d]
         /\ view'[c] = IF view[c] # None /\ r < view[c].revision THEN view[c]
                       ELSE [revision |-> r, content |-> n]
  BY DEF TypeOK, Received, Snapshot

\* What has been listed has a content.
LEMMA JoiningType ==
  ASSUME TypeOK, NEW c \in Connection
  PROVE  /\ joining[c].revision \in Nat
         /\ joining[c].pc \in {"none", "listing", "listed", "sent"}
         /\ joining[c].pc \in {"listed", "sent"} =>
              /\ joining[c].content \in Nat
              /\ \A pc \in {"listed", "sent"} : [joining[c] EXCEPT !.pc = pc] \in Collecting
         /\ \A n \in Nat : [joining[c] EXCEPT !.pc = "listed", !.content = n] \in Collecting
<1>1. joining[c] \in Collecting
  BY DEF TypeOK
<1>2. CASE joining[c] \in [pc: {"none", "listing"}, revision: Nat, content: {None}]
  BY <1>2 DEF Collecting
<1>3. CASE joining[c] \in [pc: {"listed", "sent"}, revision: Nat, content: Nat]
  BY <1>3 DEF Collecting
<1> QED BY <1>1, <1>2, <1>3 DEF Collecting

LEMMA TypeStep == TypeOK /\ [Next]_vars => TypeOK'
<1> SUFFICES ASSUME TypeOK, [Next]_vars PROVE TypeOK'
  OBVIOUS
<1> USE SnapshotsAssumption
<1>1. CASE Change
  BY <1>1 DEF Change, TypeOK, publisherVars, connectionVars
<1>2. CASE AnnounceLost
  BY <1>2 DEF AnnounceLost, TypeOK, publisherVars, connectionVars
<1>3. CASE Close
  BY <1>3 DEF Close, TypeOK, publisherVars, connectionVars
<1>4. CASE BroadcastFails
  BY <1>4 DEF BroadcastFails, TypeOK, connectionVars
<1>5. CASE Announce
  BY <1>5 DEF Announce, TypeOK, connectionVars
<1>6. CASE StartBroadcast
  <2>1. CASE Ready = {} \/ closing
    <3>1. uncovered' \in BOOLEAN
      BY <1>6, <2>1, Zenon DEF StartBroadcast
    <3>2. /\ queue' \in Nat
          /\ UNCHANGED <<broadcast, revision, facts, owed, stage, joining, view, closing, failures>>
      BY <1>6, <2>1 DEF StartBroadcast, TypeOK, connectionVars
    <3> QED BY <3>1, <3>2 DEF TypeOK
  <2>2. CASE ~(Ready = {} \/ closing)
    <3>1. revision' \in Nat /\ Ready \in SUBSET Connection
      BY <1>6, <2>2 DEF StartBroadcast, TypeOK, Ready
    <3>2. broadcast' = [revision |-> revision', todo |-> Ready, to |-> None, content |-> 0]
      BY <1>6, <2>2 DEF StartBroadcast
    <3>3. broadcast' \in Broadcast
      BY <3>1, <3>2 DEF Broadcast
    <3>4. /\ queue' \in Nat /\ uncovered' = FALSE
          /\ UNCHANGED <<facts, owed, stage, joining, view, closing, failures>>
      BY <1>6, <2>2 DEF StartBroadcast, TypeOK, connectionVars
    <3> QED BY <3>1, <3>3, <3>4 DEF TypeOK
  <2> QED BY <2>1, <2>2
<1>7. CASE BroadcastSend
  <2>1. /\ broadcast \in Broadcast
        /\ broadcast.to \in Connection /\ broadcast.revision \in Nat /\ broadcast.content \in Nat
    BY <1>7 DEF BroadcastSend, TypeOK, Broadcast
  <2>2. view' \in [Connection -> Snapshot \union {None}]
    <3>1. CASE stage[broadcast.to] = "ready"
      BY <1>7, <2>1, <3>1, ReceivedType DEF BroadcastSend
    <3>2. CASE stage[broadcast.to] # "ready"
      BY <1>7, <3>2 DEF BroadcastSend, TypeOK
    <3> QED BY <3>1, <3>2
  <2>3. broadcast' \in Broadcast
    BY <1>7, <2>1 DEF BroadcastSend, Served, Broadcast
  <2> QED BY <1>7, <2>2, <2>3 DEF BroadcastSend, TypeOK
<1>8. CASE BroadcastDone
  BY <1>8 DEF BroadcastDone, TypeOK, connectionVars
<1>9. ASSUME NEW c \in Connection, BroadcastListed(c) PROVE TypeOK'
  BY <1>9 DEF BroadcastListed, TypeOK, connectionVars, Broadcast
<1>10. ASSUME NEW c \in Connection, Hello(c) PROVE TypeOK'
  BY <1>10 DEF Hello, TypeOK, publisherVars, Collecting, Start
<1>11. ASSUME NEW c \in Connection, Listed(c) PROVE TypeOK'
  <2>1. /\ [joining[c] EXCEPT !.pc = "listed", !.content = facts] \in Collecting
        /\ joining' = [joining EXCEPT ![c] = [joining[c] EXCEPT !.pc = "listed", !.content = facts]]
    <3>1. facts \in Nat /\ joining \in [Connection -> Collecting]
      BY DEF TypeOK
    <3> QED BY <1>11, <3>1, JoiningType DEF Listed
  <2> QED BY <1>11, <2>1 DEF Listed, TypeOK, publisherVars
<1>12. ASSUME NEW c \in Connection, SendHello(c) PROVE TypeOK'
  <2>1. joining[c].revision \in Nat /\ joining[c].content \in Nat
    BY <1>12, JoiningType DEF SendHello
  <2>2. view' \in [Connection -> Snapshot \union {None}]
    BY <1>12, <2>1, ReceivedType DEF SendHello, TypeOK
  <2>3. joining' \in [Connection -> Collecting]
    <3>1. Idle \in Collecting /\ [joining[c] EXCEPT !.pc = "sent"] \in Collecting
      BY <1>12, JoiningType DEF SendHello, Collecting, Idle
    <3>2. joining \in [Connection -> Collecting]
      BY DEF TypeOK
    <3> QED BY <1>12, <3>1, <3>2 DEF SendHello
  <2> QED BY <1>12, <2>2, <2>3 DEF SendHello, TypeOK, publisherVars
<1>13. ASSUME NEW c \in Connection, HelloSent(c) PROVE TypeOK'
  BY <1>13 DEF HelloSent, TypeOK, publisherVars, Collecting, CatchUp, Start, Idle
<1>14. ASSUME NEW c \in Connection, SendCatchUp(c) PROVE TypeOK'
  <2>1. joining[c].revision \in Nat /\ joining[c].content \in Nat
    BY <1>14, JoiningType DEF SendCatchUp
  <2>2. view' \in [Connection -> Snapshot \union {None}]
    BY <1>14, <2>1, ReceivedType DEF SendCatchUp
  <2>3. joining' \in [Connection -> Collecting]
    BY <1>14 DEF SendCatchUp, TypeOK, Collecting, Idle
  <2> QED BY <1>14, <2>2, <2>3 DEF SendCatchUp, TypeOK, publisherVars
<1>15. ASSUME NEW c \in Connection, Disconnect(c) PROVE TypeOK'
  BY <1>15 DEF Disconnect, TypeOK, publisherVars, Collecting, Idle
<1>16. CASE UNCHANGED vars
  BY <1>16 DEF vars, TypeOK, publisherVars, connectionVars
<1> QED
  BY <1>1, <1>2, <1>3, <1>4, <1>5, <1>6, <1>7, <1>8, <1>9, <1>10, <1>11, <1>12, <1>13, <1>14,
     <1>15, <1>16 DEF Next, Publish

\* Types: a snapshot that is read, kept or sent is complete.
THEOREM TypeCorrect == Spec => []TypeOK
  BY TypeInit, TypeStep, PTL DEF Spec

-----------------------------------------------------------------------------
LEMMA JoiningStep == IInv /\ [Next]_vars => (\A d \in Connection : Joining(d))'
<1> SUFFICES ASSUME IInv, [Next]_vars, NEW d \in Connection PROVE Joining(d)'
  OBVIOUS
<1> USE SnapshotsAssumption
<1>0. /\ TypeOK /\ Joining(d) /\ revision \in Nat
      /\ joining[d] \in Collecting /\ view[d] \in Snapshot \union {None}
      /\ joining[d].revision \in Nat
  BY JoiningType DEF IInv, TypeOK
<1>1. CASE UNCHANGED <<revision, connectionVars>>
  BY <1>0, <1>1 DEF Joining, connectionVars
<1>2. CASE StartBroadcast
  <2>1. revision' \in Nat /\ revision <= revision' /\ UNCHANGED connectionVars
    BY <1>0, <1>2 DEF StartBroadcast
  <2> QED BY <1>0, <2>1 DEF Joining, connectionVars, Snapshot
<1>3. CASE BroadcastSend
  <2>1. /\ broadcast.to \in Connection /\ broadcast.revision = revision /\ broadcast.content \in Nat
        /\ UNCHANGED <<revision, joining, stage>>
    BY <1>3 DEF BroadcastSend, IInv, Broadcasting, TypeOK, Broadcast
  <2>2. CASE stage[broadcast.to] # "ready" \/ broadcast.to # d
    <3>1. view'[d] = view[d]
      BY <1>0, <1>3, <2>1, <2>2, ReceivedType DEF BroadcastSend
    <3> QED BY <1>0, <2>1, <3>1 DEF Joining
  <2>3. CASE stage[d] = "ready" /\ broadcast.to = d
    <3>1. view'[d] = view[d] \/ view'[d] = [revision |-> revision, content |-> broadcast.content]
      BY <1>0, <1>3, <2>1, <2>3, ReceivedType DEF BroadcastSend
    <3> QED BY <1>0, <2>1, <2>3, <3>1 DEF Joining
  <2> QED BY <2>2, <2>3
<1>4. ASSUME NEW c \in Connection,
             Hello(c) \/ Listed(c) \/ SendHello(c) \/ HelloSent(c) \/ SendCatchUp(c) \/ Disconnect(c)
      PROVE  Joining(d)'
  <2>1. CASE c # d
    <3>1. UNCHANGED <<revision, stage[d], joining[d]>>
      BY <1>0, <1>4, <2>1 DEF Hello, Listed, SendHello, HelloSent, SendCatchUp, Disconnect, TypeOK,
                              publisherVars
    <3>2. view'[d] = view[d]
      <4>1. /\ joining[c].revision \in Nat
            /\ joining[c].pc = "listed" => joining[c].content \in Nat
        BY <1>0, JoiningType
      <4> QED
        BY <1>0, <1>4, <2>1, <4>1, ReceivedType
        DEF Hello, Listed, SendHello, HelloSent, SendCatchUp, Disconnect
    <3> QED BY <1>0, <3>1, <3>2 DEF Joining
  <2>2. CASE Hello(d)
    BY <1>0, <2>2 DEF Hello, Joining, TypeOK, publisherVars, Start
  <2>3. CASE Listed(d)
    <3>1. /\ joining'[d].pc = "listed" /\ joining'[d].revision = joining[d].revision
          /\ UNCHANGED <<revision, stage, view>>
      BY <1>0, <2>3 DEF Listed, TypeOK, publisherVars, Collecting
    <3> QED BY <1>0, <2>3, <3>1 DEF Joining, Listed
  <2>4. CASE SendHello(d)
    <3>1. CASE closing
      <4>1. joining'[d] = Idle /\ UNCHANGED <<revision, stage, view>>
        BY <1>0, <2>4, <3>1 DEF SendHello, TypeOK, publisherVars
      <4> QED BY <1>0, <2>4, <4>1 DEF Joining, SendHello, Idle
    <3>2. CASE ~closing
      <4>1. /\ joining'[d].pc = "sent" /\ joining'[d].revision = joining[d].revision
            /\ joining'[d].content = joining[d].content
            /\ UNCHANGED <<revision, stage>> /\ stage[d] = "handshaking"
        BY <1>0, <2>4, <3>2 DEF SendHello, TypeOK, publisherVars, Collecting
      <4>2. view[d] = None
        BY <1>0, <2>4 DEF Joining, SendHello
      <4>3. view'[d] = [revision |-> joining[d].revision, content |-> joining[d].content]
        <5>1. /\ joining[d].revision \in Nat /\ joining[d].content \in Nat
              /\ Received(d, joining[d].revision, joining[d].content)
          BY <1>0, <2>4, <3>2, JoiningType DEF SendHello
        <5> QED BY <1>0, <4>2, <5>1, ReceivedType
      <4> QED BY <1>0, <4>1, <4>3 DEF Joining
    <3> QED BY <3>1, <3>2
  <2>5. CASE HelloSent(d)
    <3>1. /\ stage'[d] = "ready" /\ joining'[d] \in {Start(revision), Idle}
          /\ UNCHANGED <<revision, view>>
      BY <1>0, <2>5 DEF HelloSent, TypeOK, publisherVars, CatchUp
    <3>2. CASE joining'[d] = Start(revision)
      BY <1>0, <3>1, <3>2 DEF Joining, Start
    <3>3. CASE joining'[d] = Idle
      BY <1>0, <3>1, <3>3 DEF Joining, Idle
    <3> QED BY <3>1, <3>2, <3>3
  <2>6. CASE SendCatchUp(d)
    <3>1. joining'[d] = Idle /\ stage[d] = "ready" /\ UNCHANGED <<revision, stage>>
      BY <1>0, <2>6 DEF SendCatchUp, TypeOK, publisherVars
    <3>2. \/ view'[d] = view[d]
          \/ view'[d] = [revision |-> joining[d].revision, content |-> joining[d].content]
      <4>1. /\ joining[d].revision \in Nat /\ joining[d].content \in Nat
            /\ Received(d, joining[d].revision, joining[d].content)
        BY <1>0, <2>6, JoiningType DEF SendCatchUp
      <4> QED BY <1>0, <4>1, ReceivedType
    <3> QED BY <1>0, <3>1, <3>2 DEF Joining, Idle
  <2>7. CASE Disconnect(d)
    <3>1. joining'[d] = Idle /\ stage'[d] = "closed" /\ UNCHANGED <<revision, view>>
      BY <1>0, <2>7 DEF Disconnect, TypeOK, publisherVars
    <3> QED BY <1>0, <3>1 DEF Joining, Idle
  <2> QED BY <1>4, <2>1, <2>2, <2>3, <2>4, <2>5, <2>6, <2>7
<1> QED
  BY <1>1, <1>2, <1>3, <1>4
  DEF Next, Publish, Change, AnnounceLost, Close, BroadcastFails, Announce, BroadcastDone,
      BroadcastListed, vars, publisherVars, connectionVars

LEMMA BroadcastingStep == IInv /\ [Next]_vars => Broadcasting'
<1> SUFFICES ASSUME IInv, [Next]_vars PROVE Broadcasting'
  OBVIOUS
<1> USE SnapshotsAssumption
<1>0. TypeOK /\ Broadcasting
  BY DEF IInv
<1>1. CASE UNCHANGED <<broadcast, revision>> \/ broadcast' = None
  BY <1>0, <1>1 DEF Broadcasting
<1>2. CASE StartBroadcast
  BY <1>0, <1>1, <1>2 DEF StartBroadcast, Broadcasting
<1>3. CASE BroadcastSend
  BY <1>0, <1>3 DEF BroadcastSend, Served, Broadcasting, TypeOK, Broadcast
<1>4. ASSUME NEW c \in Connection, BroadcastListed(c) PROVE Broadcasting'
  BY <1>0, <1>4 DEF BroadcastListed, Broadcasting, TypeOK, Broadcast
<1> QED
  BY <1>1, <1>2, <1>3, <1>4
  DEF Next, Publish, Change, AnnounceLost, Close, BroadcastFails, Announce, BroadcastDone,
      Hello, Listed, SendHello, HelloSent, SendCatchUp, Disconnect, vars, publisherVars, connectionVars

\* Every action either leaves what a connection is owed alone, announces
\* another broadcast, or serves the connection with the list of the moment.
LEMMA CoveredStep == IInv /\ [Next]_vars => Covered'
<1> SUFFICES ASSUME IInv, [Next]_vars, ~uncovered', ~closing' PROVE Covered'
  BY DEF Covered
<1> USE SnapshotsAssumption
<1>0. /\ TypeOK /\ Broadcasting /\ \A d \in Connection : Joining(d)
      /\ revision \in Nat /\ queue \in Nat /\ owed \in Nat /\ facts \in Nat
  BY DEF IInv, TypeOK
<1>t. TypeOK'
  BY <1>0, TypeStep
<1>u. ASSUME ~uncovered, ~closing
      PROVE  /\ \A d \in Connection : ReadyCovered(d) /\ JoiningCovered(d)
             /\ broadcast # None /\ broadcast.to # None => Announced \/ broadcast.content = facts
  BY <1>u DEF IInv, Covered
<1>1. CASE Announced'
  BY <1>1 DEF Covered, ReadyCovered, JoiningCovered
<1>2. CASE UNCHANGED vars \/ BroadcastDone
  <2>1. /\ UNCHANGED <<facts, owed, queue, revision, stage, joining, view, uncovered, closing>>
        /\ broadcast' = broadcast \/ (broadcast.todo = {} /\ broadcast' = None)
    BY <1>2 DEF vars, publisherVars, connectionVars, BroadcastDone
  <2>2. ~uncovered /\ ~closing
    BY <2>1
  <2> QED
    BY <1>u, <2>1, <2>2
    DEF Covered, ReadyCovered, JoiningCovered, Announced, Present, Catching
<1>3. CASE Change \/ Announce
  BY <1>0, <1>1, <1>3 DEF Change, Announce, Announced
<1>4. CASE AnnounceLost \/ Close \/ BroadcastFails
  BY <1>4 DEF AnnounceLost, Close, BroadcastFails
<1>5. CASE StartBroadcast
  <2>1. ~closing /\ UNCHANGED <<facts, owed, stage, joining, view>>
    BY <1>5 DEF StartBroadcast, connectionVars
  <2>2. CASE Ready = {}
    <3>1. /\ ~uncovered /\ UNCHANGED <<broadcast, revision>> /\ broadcast = None
          /\ \A d \in Connection : stage[d] \notin {"ready", "handshaking"}
      BY <1>5, <2>2, <1>0 DEF StartBroadcast, Ready
    <3>2. \A d \in Connection : joining[d].pc = "none"
      BY <1>0, <3>1 DEF Joining, TypeOK
    <3> QED BY <2>1, <3>1, <3>2 DEF Covered, ReadyCovered, JoiningCovered
  <2>3. CASE Ready # {}
    <3>1. revision' = revision + 1 /\ broadcast'.to = None /\ broadcast'.todo = Ready /\ broadcast' # None
      <4>1. broadcast' = [revision |-> revision', todo |-> Ready, to |-> None, content |-> 0]
        BY <1>5, <2>1, <2>3 DEF StartBroadcast
      <4>2. revision' = revision + 1 /\ Ready \in SUBSET Connection
        BY <1>5, <2>1, <2>3 DEF StartBroadcast, Ready
      <4>3. broadcast' \in Broadcast
        BY <1>0, <4>1, <4>2 DEF Broadcast
      <4> QED BY <4>1, <4>2, <4>3
    <3>2. ASSUME NEW d \in Connection PROVE ReadyCovered(d)' /\ JoiningCovered(d)'
      <4>1. joining[d].revision <= revision /\ joining[d].revision \in Nat
        BY <1>0 DEF Joining, TypeOK, Collecting
      <4> QED BY <1>0, <2>1, <3>1, <4>1 DEF ReadyCovered, JoiningCovered, Ready
    <3> QED BY <3>1, <3>2 DEF Covered
  <2> QED BY <2>2, <2>3
<1>6. ASSUME NEW c \in Connection, BroadcastListed(c) PROVE Covered'
  <2>1. /\ ~uncovered /\ ~closing
        /\ UNCHANGED <<facts, owed, queue, revision, stage, joining, view>>
        /\ broadcast # None /\ broadcast'.todo = broadcast.todo /\ broadcast'.content = facts
        /\ broadcast' # None
    <3>1. broadcast' = [broadcast EXCEPT !.to = c, !.content = facts] /\ broadcast \in Broadcast
      BY <1>0, <1>6 DEF BroadcastListed, TypeOK
    <3>2. broadcast'.todo = broadcast.todo /\ broadcast'.content = facts /\ broadcast'.to = c
      BY <3>1 DEF Broadcast
    <3>3. broadcast' # None
      BY <1>0, <3>1 DEF Broadcast
    <3> QED BY <1>6, <3>2, <3>3 DEF BroadcastListed, connectionVars
  <2> QED
    BY <1>u, <2>1 DEF Covered, ReadyCovered, JoiningCovered, Announced, Present, Catching
<1>7. CASE BroadcastSend
  <2>1. /\ ~uncovered /\ ~closing
        /\ UNCHANGED <<facts, owed, queue, revision, stage, joining>>
        /\ broadcast # None /\ broadcast.to # None
    BY <1>7 DEF BroadcastSend
  <2>2. /\ broadcast \in Broadcast /\ broadcast.to \in Connection
        /\ broadcast.revision = revision /\ broadcast.content \in Nat
    BY <1>0, <2>1 DEF TypeOK, Broadcasting, Broadcast
  <2>3. broadcast'.to = None /\ broadcast'.todo = broadcast.todo \ {broadcast.to}
    BY <1>7, <2>2 DEF BroadcastSend, Served, Broadcast
  <2>4. broadcast' # None
    BY <1>7, <2>2 DEF BroadcastSend, Served, Broadcast
  <2>5. CASE Announced
    BY <1>1, <2>1, <2>5 DEF Announced
  <2>6. CASE ~Announced
    <3>1. broadcast.content = facts
      BY <1>u, <2>1, <2>6
    <3>2. ASSUME NEW d \in Connection PROVE ReadyCovered(d)' /\ JoiningCovered(d)'
      <4>1. JoiningCovered(d)'
        BY <1>u, <2>1 DEF JoiningCovered, Announced
      <4>2. CASE stage[d] # "ready"
        BY <2>1, <4>1, <4>2 DEF ReadyCovered
      <4>3. CASE stage[d] = "ready" /\ d # broadcast.to
        <5>1. view'[d] = view[d]
          BY <1>0, <1>7, <2>2, <4>3, ReceivedType DEF BroadcastSend
        <5>2. ReadyCovered(d)
          BY <1>u, <2>1
        <5> QED
          BY <2>1, <2>3, <2>4, <4>1, <4>3, <5>1, <5>2 DEF ReadyCovered, Announced, Present, Catching
      <4>4. CASE stage[d] = "ready" /\ d = broadcast.to
        <5>1. view[d] # None => ~(revision < view[d].revision)
          <6>1. view[d] # None => view[d].revision <= revision /\ view[d].revision \in Nat
            BY <1>0 DEF Joining, TypeOK, Snapshot
          <6> QED BY <1>0, <6>1
        <5>2. view'[d] = [revision |-> revision, content |-> facts]
          BY <1>0, <1>7, <2>2, <3>1, <4>4, <5>1, ReceivedType DEF BroadcastSend
        <5> QED BY <2>1, <4>1, <5>2 DEF ReadyCovered, Present
      <4> QED BY <4>2, <4>3, <4>4
    <3> QED BY <2>3, <3>2 DEF Covered
  <2> QED BY <2>5, <2>6
<1>8. ASSUME NEW c \in Connection,
             Hello(c) \/ Listed(c) \/ SendHello(c) \/ HelloSent(c) \/ SendCatchUp(c) \/ Disconnect(c)
      PROVE  Covered'
  <2>1. /\ ~uncovered /\ ~closing /\ UNCHANGED <<queue, revision, broadcast>>
    BY <1>8 DEF Hello, Listed, SendHello, HelloSent, SendCatchUp, Disconnect, publisherVars
  <2>2. CASE Announced \/ facts' # facts
    BY <1>0, <1>1, <1>8, <2>1, <2>2
    DEF Announced, Hello, Listed, SendHello, HelloSent, SendCatchUp, Disconnect, publisherVars
  <2>3. CASE ~Announced /\ UNCHANGED facts
    <3>1. broadcast # None /\ broadcast.to # None => broadcast.content = facts
      BY <1>u, <2>1, <2>3
    <3>j. joining[c] \in Collecting
      BY <1>0 DEF TypeOK
    <3>2. ASSUME NEW d \in Connection PROVE ReadyCovered(d)' /\ JoiningCovered(d)'
      <4>0. ReadyCovered(d) /\ JoiningCovered(d)
        BY <1>u, <2>1
      <4>1. CASE d # c
        <5>1. UNCHANGED <<stage[d], joining[d], owed>>
          BY <1>0, <1>8, <2>3, <4>1
          DEF Hello, Listed, SendHello, HelloSent, SendCatchUp, Disconnect, TypeOK
        <5>2. view'[d] = view[d]
          BY <1>0, <1>8, <3>j, <4>1, ReceivedType
          DEF Hello, Listed, SendHello, HelloSent, SendCatchUp, Disconnect, Collecting
        <5> QED
          BY <2>1, <2>3, <4>0, <5>1, <5>2
          DEF ReadyCovered, JoiningCovered, Announced, Present, Catching
      <4>2. CASE d = c /\ Hello(c)
        BY <1>0, <4>2 DEF Hello, ReadyCovered, JoiningCovered, TypeOK, Start
      <4>3. CASE d = c /\ Listed(c)
        <5>1. /\ joining'[c].pc = "listed" /\ joining'[c].revision = joining[c].revision
              /\ joining'[c].content = facts
              /\ UNCHANGED <<stage, view, owed>> /\ joining[c].pc = "listing"
          BY <1>0, <3>j, <4>3 DEF Listed, TypeOK, Collecting
        <5> QED
          BY <2>1, <2>3, <4>0, <4>3, <5>1
          DEF ReadyCovered, JoiningCovered, Announced, Present, Catching
      <4>4. CASE d = c /\ SendHello(c)
        <5>1. /\ joining'[c].pc = "sent" /\ joining'[c].revision = joining[c].revision
              /\ joining'[c].content = joining[c].content /\ joining[c].pc = "listed"
              /\ UNCHANGED <<stage, owed>> /\ stage[c] = "handshaking"
          BY <1>0, <2>1, <3>j, <4>4 DEF SendHello, TypeOK, Collecting
        <5> QED
          BY <2>1, <2>3, <4>0, <4>4, <5>1 DEF ReadyCovered, JoiningCovered, Announced
      <4>5. CASE d = c /\ HelloSent(c)
        <5>1. /\ stage'[c] = "ready" /\ UNCHANGED <<view, owed>>
              /\ joining'[c] = IF joining[c].revision # revision THEN Start(revision) ELSE Idle
              /\ joining[c].pc = "sent"
          BY <1>0, <4>5 DEF HelloSent, TypeOK, CatchUp
        <5>2. JoiningCovered(d)'
          BY <4>5, <5>1 DEF JoiningCovered, Start, Idle
        <5>3. CASE joining[c].revision # revision
          <6>1. Catching(d)'
            BY <2>1, <4>5, <5>1, <5>3 DEF Catching, Start
          <6> QED BY <5>2, <6>1 DEF ReadyCovered
        <5>4. CASE joining[c].revision = revision
          <6>1. /\ stage[c] = "handshaking"
                /\ view[c] = [revision |-> joining[c].revision, content |-> joining[c].content]
            BY <1>0, <5>1 DEF Joining
          <6>2. joining[c].content = facts
            BY <2>3, <4>0, <4>5, <5>1, <5>4, <6>1 DEF JoiningCovered
          <6> QED BY <2>1, <2>3, <4>5, <5>1, <5>2, <5>4, <6>1, <6>2 DEF ReadyCovered, Present
        <5> QED BY <5>3, <5>4
      <4>6. CASE d = c /\ SendCatchUp(c)
        <5>1. /\ joining'[c] = Idle /\ UNCHANGED <<stage, owed>> /\ stage[c] = "ready"
              /\ joining[c].pc = "listed"
              /\ Received(c, joining[c].revision, joining[c].content)
          BY <1>0, <4>6 DEF SendCatchUp, TypeOK
        <5>2. /\ joining[c].revision \in Nat /\ joining[c].content \in Nat
              /\ joining[c].revision <= revision
              /\ view[c] # None => view[c].revision <= revision /\ view[c].revision \in Nat
          BY <1>0, <3>j, <4>6, JoiningType DEF SendCatchUp, Joining, TypeOK, Snapshot
        <5>3. view'[c] = IF view[c] # None /\ joining[c].revision < view[c].revision THEN view[c]
                         ELSE [revision |-> joining[c].revision, content |-> joining[c].content]
          BY <1>0, <5>1, <5>2, ReceivedType
        <5>4. JoiningCovered(d)'
          BY <4>6, <5>1 DEF JoiningCovered, Idle
        <5>5. CASE view[c] = Present
          <6>0. Present # None /\ view[c].revision = revision
            BY <1>0, <5>5 DEF Present, Snapshot
          <6>1. view'[c] = Present \/ joining[c].revision = revision
            BY <1>0, <5>2, <5>3, <5>5, <6>0
          <6>2. joining[c].revision # revision => view'[c] = Present
            BY <6>1
          <6>3. CASE joining[c].revision = revision
            <7>1. joining[c].content = facts
              BY <2>3, <4>0, <4>6, <5>1, <6>3 DEF JoiningCovered
            <7> QED BY <1>0, <2>1, <2>3, <4>6, <5>2, <5>3, <5>4, <6>3, <7>1 DEF Present, ReadyCovered
          <6>5. CASE view'[c] = Present
            BY <2>1, <2>3, <4>6, <5>1, <5>4, <6>5 DEF ReadyCovered, Present
          <6> QED BY <6>2, <6>3, <6>5
        <5>6. CASE Catching(c)
          BY <1>0, <2>1, <2>3, <4>6, <5>1, <5>2, <5>3, <5>4, <5>6 DEF Catching, Present, ReadyCovered
        <5>7. CASE broadcast # None /\ c \in broadcast.todo
          BY <2>1, <4>6, <5>4, <5>7 DEF ReadyCovered
        <5> QED BY <2>3, <4>0, <4>6, <5>1, <5>5, <5>6, <5>7 DEF ReadyCovered
      <4>7. CASE d = c /\ Disconnect(c)
        BY <1>0, <4>7 DEF Disconnect, ReadyCovered, JoiningCovered, TypeOK, Idle
      <4> QED BY <1>8, <4>1, <4>2, <4>3, <4>4, <4>5, <4>6, <4>7
    <3> QED BY <2>1, <2>3, <3>1, <3>2 DEF Covered
  <2> QED BY <2>2, <2>3
<1> QED
  BY <1>2, <1>3, <1>4, <1>5, <1>6, <1>7, <1>8 DEF Next, Publish

-----------------------------------------------------------------------------
LEMMA IInvInit == Init => IInv
<1> SUFFICES ASSUME Init PROVE IInv
  OBVIOUS
<1> QED
  BY TypeInit DEF Init, IInv, Joining, Broadcasting, Covered, ReadyCovered, JoiningCovered, Idle

LEMMA IInvStep == IInv /\ [Next]_vars => IInv'
<1> SUFFICES ASSUME IInv, [Next]_vars PROVE IInv'
  OBVIOUS
<1>1. TypeOK'
  BY TypeStep DEF IInv
<1> QED BY <1>1, JoiningStep, BroadcastingStep, CoveredStep DEF IInv

THEOREM Invariant == Spec => []IInv
  BY IInvInit, IInvStep, PTL DEF Spec

\* Unless a broadcast was lost, failed or found nobody while a client was
\* joining, a ready client with an old list has a snapshot on its way: the
\* catch-up of finishHandshake() covers the gap before the ready stage.
THEOREM StaleCorrect == Spec => []StaleIsPending
<1>1. IInv => StaleIsPending
  BY DEF IInv, Covered, StaleIsPending, ReadyCovered, Announced, Catching, Pending
<1> QED BY <1>1, Invariant, PTL
=============================================================================
