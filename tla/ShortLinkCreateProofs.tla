----------------------- MODULE ShortLinkCreateProofs -----------------------
(***************************************************************************)
(* Proofs about the create transaction and the listing of links, for any   *)
(* number of threads, codes, requests and faults and any page sizes.       *)
(***************************************************************************)
EXTENDS ShortLinkListing, FiniteSetTheorems, TLAPS

LEMMA InitInv == Init => Inv
<1> SUFFICES ASSUME Init PROVE Inv
  OBVIOUS
<1>1. TypeOK
  BY CreateAssumption DEF Init, TypeOK, Ids, Stages, Inside, Sessions, Answers, Story, NoStory
<1>2. ASSUME NEW t \in Threads PROVE SessionInv(t) /\ StageInv(t) /\ RowInv(t)
  <2>1. SessionInv(t)
    BY DEF Init, SessionInv, Inside
  <2>2. StageInv(t)
    BY DEF Init, StageInv, Begun, NoStory
  <2>3. RowInv(t)
    BY DEF Init, RowInv, Inserted
  <2> QED
    BY <2>1, <2>2, <2>3
<1>3. TableInv
  BY DEF Init, TableInv, NoStory
<1>4. ConflictIsReal /\ LinksAreWhole
  BY DEF Init, ConflictIsReal, LinksAreWhole
<1> QED
  BY <1>1, <1>2, <1>3, <1>4 DEF Inv

(* Without a write, TableInv survives an answer that is no "created".      *)
LEMMA TableKept ==
  ASSUME TypeOK, TableInv, UNCHANGED <<table, pending, story, torn>>,
         nextId' \in {nextId, nextId + 1},
         \A s \in Threads : answer[s] = "created" => answer'[s] = "created"
  PROVE  TableInv'
<1>1. /\ \A r \in table' : r.id < nextId'
      /\ \A i \in torn' : i < nextId'
  BY DEF TableInv, TypeOK, Link, Ids
<1> QED
  BY <1>1 DEF TableInv

(* What a create that is about to insert has.                              *)
LEMMA AtInsert ==
  ASSUME Inv, NEW t \in Threads, pc[t] = "insert"
  PROVE  /\ pending[t] = {}
         /\ story[t].made = 0
         /\ ~story[t].doubtful
         /\ answer[t] = "none"
         /\ request[t] \in Requests
BY DEF Inv, TypeOK, SessionInv, StageInv, RowInv, Sessions

(* Rows of an open transaction are not in the table, and have its id.      *)
LEMMA OpenRows ==
  ASSUME Inv, NEW t \in Threads, NEW r \in pending[t]
  PROVE  /\ session[t] = "transaction"
         /\ ~story[t].disturbed /\ ~story[t].doubtful /\ answer[t] # "created"
         /\ r \in Link /\ r.id = story[t].made /\ r.id # 0 /\ r.id \notin torn
         /\ \A q \in table : q.id # r.id
         /\ r.code # None => \A q \in table : q.code # r.code
<1>1. session[t] = "transaction"
  BY DEF Inv, SessionInv
<1>2. ~story[t].disturbed /\ ~story[t].doubtful /\ pc[t] \in Inside \cup {"rollback"}
  BY <1>1 DEF Inv, SessionInv
<1>3. answer[t] # "created"
  BY <1>2 DEF Inv, StageInv, Inside
<1>4. r \in Link /\ r.id # 0
  BY DEF Inv, TypeOK, Link, Ids
<1>5. r.id = story[t].made
  BY DEF Inv, RowInv
<1>6. \A q \in table : q.id # r.id
  BY <1>2, <1>3, <1>5 DEF Inv, TableInv, RowInv
<1> QED
  BY <1>1, <1>2, <1>3, <1>4, <1>5, <1>6 DEF Inv, TableInv, RowInv

(* What a create that is about to commit will answer.                      *)
LEMMA AtCommit ==
  ASSUME Inv, NEW t \in Threads, pc[t] = "commit", pending[t] # {}
  PROVE  /\ pending[t] = {record[t]}
         /\ record[t].owner = request[t].owner
         /\ record[t].code = CodeDue(t)
         /\ record[t].code # None
<1>1. PICK r \in pending[t] : TRUE
  OBVIOUS
<1>2. session[t] = "transaction"
  BY <1>1, OpenRows
<1>3. pending[t] = {record[t]}
  BY <1>2 DEF Inv, RowInv, Inserted
<1>4. record[t].code # None
  BY <1>2, <1>3 DEF Inv, RowInv
<1> QED
  BY <1>3, <1>4 DEF Inv, RowInv, CodeDue

(* What a statement keeps locked is a code.                                *)
LEMMA KeepsCode ==
  ASSUME TypeOK, NEW t \in Threads, NEW code \in Codes \cup {None}, Keeps(t, code)
  PROVE  checking' \in [Threads -> Codes \cup {None}]
BY DEF TypeOK, Keeps

LEMMA WantedCode ==
  ASSUME Inv, NEW t \in Threads
  PROVE  Wanted(t) \in Codes \cup {None}
<1>1. CASE pc[t] = "insert"
  BY <1>1, AtInsert, CreateAssumption DEF Wanted
<1>2. CASE pc[t] = "update" /\ Targets(t) # {}
  <2>1. PICK r \in Visible(t) : r.id = id[t]
    BY <1>2 DEF Targets
  <2>2. id[t] \in Ids
    BY <2>1 DEF Inv, TypeOK, Visible, Link
  <2> QED
    BY <1>2, <2>2, CreateAssumption DEF Wanted
<1> QED
  BY <1>1, <1>2 DEF Wanted

(* Both ways in which a COMMIT may go.                                     *)
LEMMA Committed ==
  ASSUME Inv, NEW t \in Threads, pc[t] = "commit", MakePermanent(t),
         UNCHANGED <<nextId, torn>>,
         \A s \in Threads \ {t} :
           /\ pc'[s] = pc[s] /\ session'[s] = session[s] /\ story'[s] = story[s]
           /\ id'[s] = id[s] /\ record'[s] = record[s] /\ answer'[s] = answer[s]
           /\ request'[s] = request[s] /\ lastInsertId'[s] = lastInsertId[s],
         story'[t].made = story[t].made, story'[t].disturbed = story[t].disturbed,
         story'[t].doubtful \/ answer'[t] = "created"
  PROVE  /\ TableInv'
         /\ LinksAreWhole'
         /\ \A s \in Threads \ {t} : RowInv(s)'
<1>1. CASE pending[t] = {}
  <2>1. table' = table /\ pending' = pending
    BY <1>1 DEF MakePermanent, Inv, TypeOK
  <2>2. TableInv'
    BY <2>1 DEF Inv, TableInv
  <2>3. LinksAreWhole'
    BY <2>1 DEF Inv, LinksAreWhole
  <2>4. \A s \in Threads \ {t} : RowInv(s)'
    BY <2>1 DEF Inv, RowInv, Inserted, Visible
  <2> QED
    BY <2>2, <2>3, <2>4
<1>2. CASE pending[t] # {}
  <2> DEFINE new == record[t]
  <2>1. /\ pending[t] = {new} /\ new.code # None /\ new \in Link
        /\ new.id = story[t].made /\ new.id # 0
        /\ \A q \in table : q.id # new.id /\ q.code # new.code
    BY <1>2, AtCommit, OpenRows
  <2>2. /\ table' = table \cup {new}
        /\ \A s \in Threads \ {t} : pending'[s] = pending[s]
        /\ pending'[t] = {}
    BY <2>1 DEF MakePermanent, Inv, TypeOK
  <2>3. \A s \in Threads \ {t} : story[s].made # new.id
    BY <2>1 DEF Inv, TableInv
  <2> HIDE DEF new
  <2>4. TableInv'
    <3>1. /\ \A r \in table' : r.id < nextId'
          /\ \A i \in torn' : i < nextId'
      BY <2>1, <2>2 DEF Inv, TableInv, StageInv
    <3>2. \A s \in Threads : \A r \in table' : r.id = story'[s].made =>
            \/ story'[s].disturbed /\ r.id \in torn'
            \/ story'[s].doubtful
            \/ answer'[s] = "created"
      BY <2>2, <2>3 DEF Inv, TableInv
    <3>3. \A s, u \in Threads : s # u /\ story'[s].made = story'[u].made => story'[s].made = 0
      BY DEF Inv, TableInv
    <3>4. \A s \in Threads : \A r \in pending'[s] : r.code # None =>
            /\ \A q \in table' : q.code # r.code
            /\ \A u \in Threads \ {s} : \A q \in pending'[u] : q.code # r.code
      <4> SUFFICES ASSUME NEW s \in Threads \ {t}, NEW r \in pending[s], r.code # None
                   PROVE  /\ \A q \in table' : q.code # r.code
                          /\ \A u \in Threads \ {s} : \A q \in pending'[u] : q.code # r.code
        BY <2>2
      <4>1. \A u \in Threads \ {s} : \A q \in pending[u] : q.code # r.code
        BY DEF Inv, TableInv
      <4>2. \A q \in table : q.code # r.code
        BY DEF Inv, TableInv
      <4>3. new.code # r.code
        BY <2>1, <4>1
      <4> QED
        BY <2>2, <4>1, <4>2, <4>3
    <3> QED
      BY <3>1, <3>2, <3>3, <3>4 DEF TableInv
  <2>5. LinksAreWhole'
    BY <2>1, <2>2 DEF Inv, LinksAreWhole
  <2>6. ASSUME NEW s \in Threads \ {t} PROVE RowInv(s)'
    <3>1. pending'[s] = pending[s]
      BY <2>2
    <3>2. pc[s] \in {"last_id", "update"} =>
            \A r \in table' \cup pending'[s] : r.id = story[s].made => r.code = request[s].code
      BY <2>2, <2>3 DEF Inv, RowInv, Visible
    <3> QED
      BY <3>1, <3>2 DEF Inv, RowInv, Inserted, Visible
  <2> QED
    BY <2>4, <2>5, <2>6
<1> QED
  BY <1>1, <1>2

(* The rows of S after the code of one of them was set.                    *)
LEMMA Recoded ==
  ASSUME NEW t \in Threads, NEW S \in SUBSET Link, id[t] \in Ids
  PROVE  /\ WithCode(S, t) \in SUBSET Link
         /\ \A q \in WithCode(S, t) :
              \/ q \in S /\ q.id # id[t]
              \/ /\ q.id = id[t] /\ q.code = encodeBase62[id[t]]
                 /\ \E r \in S : r.id = q.id /\ r.owner = q.owner
         /\ \A r \in S : r.id # id[t] => r \in WithCode(S, t)
         /\ S # {} => WithCode(S, t) # {}
<1>1. encodeBase62[id[t]] \in Codes
  BY CreateAssumption
<1>2. ASSUME NEW r \in S
      PROVE  LET q == [r EXCEPT !.code = encodeBase62[id[t]]]
             IN  q \in Link /\ q.id = r.id /\ q.owner = r.owner /\ q.code = encodeBase62[id[t]]
  BY <1>1 DEF Link
<1>3. WithCode(S, t) \in SUBSET Link
  BY <1>2 DEF WithCode
<1>4. ASSUME NEW q \in WithCode(S, t)
      PROVE  \/ q \in S /\ q.id # id[t]
             \/ /\ q.id = id[t] /\ q.code = encodeBase62[id[t]]
                /\ \E r \in S : r.id = q.id /\ r.owner = q.owner
  BY <1>2 DEF WithCode
<1>5. ASSUME NEW r \in S, r.id # id[t]
      PROVE  r \in WithCode(S, t)
  BY <1>5 DEF WithCode
<1>6. S # {} => WithCode(S, t) # {}
  BY DEF WithCode
<1> QED
  BY <1>3, <1>4, <1>5, <1>6

LEMMA NotRecoded ==
  ASSUME NEW t \in Threads, NEW S \in SUBSET Link, \A r \in S : r.id # id[t]
  PROVE  WithCode(S, t) = S
BY DEF WithCode

(* AssignCode finds no row, the row of the open transaction, or one that   *)
(* was inserted outside a transaction.                                     *)
LEMMA AtUpdate ==
  ASSUME Inv, NEW t \in Threads, AssignCode(t)
  PROVE  LET code == encodeBase62[id[t]] IN
         \/ table' = table /\ pending' = pending /\ pending[t] = {}
         \/ /\ id[t] \in Ids /\ id[t] = story[t].made /\ code \in Codes
            /\ \A q \in table : q.code # code
            /\ \A s \in Threads \ {t} : \A q \in pending[s] : q.code # code
            /\ \A q \in table : q.id = id[t] => q.code = None
            /\ \A s \in Threads \ {t} : story[s].made # id[t]
            /\ \/ /\ pending[t] # {} /\ table' = table
                  /\ pending' = [pending EXCEPT ![t] = WithCode(pending[t], t)]
               \/ /\ pending[t] = {} /\ table' = WithCode(table, t)
                  /\ pending' = pending
<1> DEFINE code == encodeBase62[id[t]]
<1>1. /\ table \in SUBSET Link /\ pending[t] \in SUBSET Link
      /\ pending' = [pending EXCEPT ![t] = WithCode(pending[t], t)]
      /\ table' = WithCode(table, t)
  BY DEF Inv, TypeOK, AssignCode
<1>2. CASE Targets(t) = {}
  <2>1. table' = table /\ pending' = pending
    BY <1>1, <1>2, NotRecoded DEF Targets, Visible, Inv, TypeOK
  <2>2. pending[t] = {}
    <3>1. ASSUME NEW r \in pending[t] PROVE FALSE
      <4>1. session[t] = "transaction" /\ r.id = story[t].made
        BY OpenRows
      <4>2. id[t] = story[t].made
        BY <4>1 DEF Inv, RowInv, Inserted, AssignCode
      <4> QED
        BY <1>2, <4>1, <4>2 DEF Targets, Visible
    <3> QED
      BY <3>1
  <2> QED
    BY <2>1, <2>2
<1>3. CASE Targets(t) # {}
  <2>1. PICK r \in Visible(t) : r.id = id[t]
    BY <1>3 DEF Targets
  <2>2. id[t] \in Ids /\ id[t] # 0
    BY <1>1, <2>1 DEF Visible, Link, Ids
  <2>3. id[t] = story[t].made
    BY <2>2 DEF Inv, StageInv
  <2>4. code \in Codes
    BY <2>2, CreateAssumption
  <2>5. /\ \A q \in table : q.code # code
        /\ \A s \in Threads \ {t} : \A q \in pending[s] : q.code # code
    BY <1>3 DEF AssignCode, Locked, Undecided, Entered, Taken, Visible
  <2>6. \A q \in table : q.id = id[t] => q.code = None
    <3>1. pc[t] = "update"
      BY DEF AssignCode
    <3>2. StageInv(t) /\ RowInv(t)
      BY DEF Inv
    <3> QED
      BY <2>3, <3>1, <3>2 DEF StageInv, RowInv, Visible
  <2>7. \A s \in Threads \ {t} : story[s].made # id[t]
    BY <2>2, <2>3 DEF Inv, TableInv
  <2>8. CASE pending[t] # {}
    <3>1. \A q \in table : q.id # id[t]
      BY <2>3, <2>8, OpenRows
    <3>2. table' = table
      BY <1>1, <3>1, NotRecoded
    <3> QED
      BY <1>1, <2>2, <2>3, <2>4, <2>5, <2>6, <2>7, <2>8, <3>2
  <2>9. CASE pending[t] = {}
    <3>1. WithCode(pending[t], t) = pending[t]
      BY <2>9 DEF WithCode
    <3>2. pending' = pending
      BY <1>1, <3>1 DEF Inv, TypeOK
    <3> QED
      BY <1>1, <2>2, <2>3, <2>4, <2>5, <2>6, <2>7, <2>9, <3>2
  <2> QED
    BY <2>8, <2>9
<1> QED
  BY <1>2, <1>3

LEMMA ArriveInv ==
  ASSUME Inv, NEW t \in Threads, NEW wanted \in Requests, Arrive(t, wanted)
  PROVE  Inv'
<1> USE DEF Arrive, Goto, server
<1>1. TypeOK'
  BY CreateAssumption DEF Inv, TypeOK, Stages, Inside, Sessions, Answers, Ids, Story, NoStory, Link
<1>2. ASSUME NEW s \in Threads PROVE (SessionInv(s) /\ StageInv(s) /\ RowInv(s))'
  <2>1. SessionInv(s)'
    BY DEF Inv, TypeOK, SessionInv, StageInv, Inside, Begun, Stages, Sessions, Story, NoStory
  <2>2. StageInv(s)'
    BY CreateAssumption DEF Inv, TypeOK, StageInv, Inside, Begun, Stages, Story, NoStory, Ids
  <2>3. RowInv(s)'
    BY DEF Inv, TypeOK, SessionInv, StageInv, RowInv, TableInv, Inside, Begun, Inserted, Visible, Stages, Story, NoStory
  <2> QED
    BY <2>1, <2>2, <2>3
<1>3. TableInv'
  BY DEF Inv, TypeOK, SessionInv, StageInv, RowInv, TableInv, Begun, NoStory, Story
<1>4. ConflictIsReal'
  BY DEF Inv, TypeOK, StageInv, ConflictIsReal
<1>5. LinksAreWhole'
  BY DEF Inv, TypeOK, LinksAreWhole
<1> QED
  BY <1>1, <1>2, <1>3, <1>4, <1>5 DEF Inv

(* What a reconnection, made or not, leaves behind.                        *)
LEMMA Reconnected ==
  ASSUME TypeOK, NEW t \in Threads, PingAndReconnect(t)
  PROVE  /\ session' \in [Threads -> Sessions]
         /\ inTransaction' \in [Threads -> BOOLEAN]
<1>1. session' \in [Threads -> Sessions]
  BY DEF TypeOK, PingAndReconnect, Reopen, Sessions
<1>2. CASE Reopen(t)
  BY <1>1, <1>2 DEF TypeOK, Reopen
<1>3. CASE Forgets(t)
  <2>1. PICK believes \in {inTransaction[t], FALSE} :
          inTransaction' = [inTransaction EXCEPT ![t] = believes]
    BY <1>3 DEF Forgets
  <2>2. believes \in BOOLEAN
    BY DEF TypeOK
  <2> QED
    BY <1>1, <2>1, <2>2 DEF TypeOK
<1> QED
  BY <1>1, <1>2, <1>3 DEF TypeOK, PingAndReconnect

LEMMA GetConnectionInv ==
  ASSUME Inv, NEW t \in Threads, GetConnection(t)
  PROVE  Inv'
<1> USE DEF GetConnection, PingAndReconnect, Reopen, Forgets, Goto
<1>1. TypeOK'
  <2>1. session' \in [Threads -> Sessions] /\ inTransaction' \in [Threads -> BOOLEAN]
    BY Reconnected DEF Inv
  <2>2. pc' \in [Threads -> Stages] /\ answer' \in [Threads -> Answers]
    BY DEF Inv, TypeOK, Stages, Answers
  <2> QED
    BY <2>1, <2>2 DEF Inv, TypeOK
<1>2. ASSUME NEW s \in Threads PROVE (SessionInv(s) /\ StageInv(s) /\ RowInv(s))'
  <2>1. SessionInv(s)'
    BY DEF Inv, TypeOK, SessionInv, StageInv, Inside, Begun, Stages, Sessions, Story, NoStory
  <2>2. StageInv(s)'
    BY DEF Inv, TypeOK, StageInv, Inside, Begun, Stages, Story, NoStory, Ids
  <2>3. RowInv(s)'
    BY DEF Inv, TypeOK, SessionInv, StageInv, RowInv, TableInv, Inside, Begun, Inserted, Visible, Stages, Story, NoStory
  <2> QED
    BY <2>1, <2>2, <2>3
<1>3. TableInv'
  <2>1. answer[t] = "none"
    BY DEF Inv, StageInv
  <2>2. \A s \in Threads : answer[s] = "created" => answer'[s] = "created"
    BY <2>1 DEF Inv, TypeOK
  <2> QED
    BY <2>2, TableKept DEF Inv, TypeOK
<1>4. ConflictIsReal'
  BY DEF Inv, TypeOK, StageInv, ConflictIsReal
<1>5. LinksAreWhole'
  BY DEF Inv, TypeOK, LinksAreWhole
<1> QED
  BY <1>1, <1>2, <1>3, <1>4, <1>5 DEF Inv

LEMMA StartTransactionInv ==
  ASSUME Inv, NEW t \in Threads, StartTransaction(t)
  PROVE  Inv'
<1> USE DEF StartTransaction, Reaches, MakePermanent, Goto
<1>a. table' = table /\ pending' = pending
  BY DEF Inv, TypeOK, SessionInv, Inside
<1>1. TypeOK'
  BY <1>a DEF Inv, TypeOK, Stages, Inside, Sessions
<1>2. ASSUME NEW s \in Threads PROVE (SessionInv(s) /\ StageInv(s) /\ RowInv(s))'
  <2>1. SessionInv(s)'
    BY DEF Inv, TypeOK, SessionInv, StageInv, Inside, Begun, Stages, Sessions, Story, NoStory
  <2>2. StageInv(s)'
    BY DEF Inv, TypeOK, StageInv, Inside, Begun, Stages, Story, NoStory, Ids
  <2>3. RowInv(s)'
    <3>1. session[s] # "transaction" /\ s = t => pending[s] = {}
      BY DEF Inv, SessionInv
    <3>2. session[t] # "transaction"
      BY DEF Inv, SessionInv, Inside
    <3> QED
      BY <1>a, <3>1, <3>2 DEF Inv, TypeOK, RowInv, Inserted, Visible
  <2> QED
    BY <2>1, <2>2, <2>3
<1>3. TableInv'
  BY <1>a, TableKept DEF Inv
<1>4. ConflictIsReal'
  BY DEF Inv, TypeOK, StageInv, ConflictIsReal
<1>5. LinksAreWhole'
  BY <1>a DEF Inv, LinksAreWhole
<1> QED
  BY <1>1, <1>2, <1>3, <1>4, <1>5 DEF Inv

LEMMA InsertInv ==
  ASSUME Inv, NEW t \in Threads, Insert(t)
  PROVE  Inv'
<1> USE DEF Insert, Runs, Reaches, SessionOf, Locked, Undecided, Entered, Taken, Visible, Goto
<1> DEFINE new == [id |-> nextId, owner |-> request[t].owner, code |-> request[t].code]
<1>a. /\ pending[t] = {} /\ story[t].made = 0 /\ ~story[t].doubtful /\ answer[t] = "none"
      /\ new \in Link /\ nextId # 0
  BY AtInsert, CreateAssumption DEF Link, Ids
<1>b. \/ /\ session[t] = "transaction" /\ session' = session
         /\ table' = table /\ torn' = torn
         /\ pending' = [pending EXCEPT ![t] = {new}]
      \/ /\ session'[t] = "plain" /\ story[t].disturbed
         /\ table' = table \cup {new} /\ torn' = torn \cup {nextId}
         /\ pending' = pending
  BY <1>a DEF Inv, TypeOK, SessionInv, Inside, Sessions
<1>c. /\ story'[t].made = nextId
      /\ story'[t].disturbed = story[t].disturbed /\ story'[t].doubtful = story[t].doubtful
      /\ story' \in [Threads -> Story]
      /\ \A s \in Threads \ {t} : story'[s] = story[s]
  <2>1. [story[t] EXCEPT !.made = nextId] \in Story
    BY DEF Inv, TypeOK, Story
  <2> QED
    BY <2>1 DEF Inv, TypeOK, Story
<1>d. /\ \A i \in torn : i < nextId /\ i # nextId
      /\ \A q \in table : q.id # nextId
      /\ \A s \in Threads : \A q \in pending[s] : q.id # nextId
      /\ \A s \in Threads : story[s].made < nextId
  <2>1. \A q \in table : q.id < nextId /\ q.id \in Nat
    BY CreateAssumption DEF Inv, TypeOK, TableInv, Link, Ids
  <2>2. \A s \in Threads : story[s].made < nextId /\ story[s].made \in Nat
    BY CreateAssumption DEF Inv, TypeOK, StageInv, Story, Ids
  <2>3. \A s \in Threads : \A q \in pending[s] : q.id = story[s].made
    BY OpenRows
  <2>4. \A i \in torn : i < nextId /\ i \in Nat
    BY CreateAssumption DEF Inv, TypeOK, TableInv, Ids
  <2> QED
    BY <2>1, <2>2, <2>3, <2>4 DEF Inv, TypeOK
<1>e. new.id = nextId /\ new.owner = request[t].owner /\ new.code = request[t].code
  OBVIOUS
<1>f. new.code # None =>
        /\ \A q \in table : q.code # new.code
        /\ \A s \in Threads \ {t} : \A q \in pending[s] : q.code # new.code
  BY <1>e
<1> HIDE DEF new
<1>1. TypeOK'
  <2>1. table' \in SUBSET Link /\ torn' \in SUBSET Ids /\ pending' \in [Threads -> SUBSET Link]
    BY <1>a, <1>b DEF Inv, TypeOK
  <2>2. session' \in [Threads -> Sessions] /\ pc' \in [Threads -> Stages]
    BY DEF Inv, TypeOK, Sessions, Stages, Inside
  <2>3. nextId' \in 1..MaxRequests + 1 /\ lastInsertId' \in [Threads -> Ids \cup {0}]
    BY CreateAssumption DEF Inv, TypeOK, Ids
  <2>4. checking' \in [Threads -> Codes \cup {None}]
    BY KeepsCode DEF Inv, TypeOK
  <2> QED
    BY <1>c, <2>1, <2>2, <2>3, <2>4 DEF Inv, TypeOK
<1>2. ASSUME NEW s \in Threads PROVE (SessionInv(s) /\ StageInv(s) /\ RowInv(s))'
  <2>1. SessionInv(s)'
    BY DEF Inv, TypeOK, SessionInv, StageInv, Inside, Begun, Stages, Sessions, Story, NoStory
  <2>2. StageInv(s)'
    <3>1. CASE s = t
      BY <1>a, <1>c, <3>1 DEF Inv, TypeOK, StageInv, Inside, Begun, Ids
    <3>2. CASE s # t
      BY <1>c, <1>d, <3>2 DEF Inv, TypeOK, StageInv, Inside, Begun, Story, Ids
    <3> QED
      BY <3>1, <3>2
  <2>3. RowInv(s)'
    <3>1. CASE s = t
      <4>1. \A r \in pending'[t] : r = new
        BY <1>a, <1>b DEF Inv, TypeOK
      <4>2. session'[t] = "transaction" => pending'[t] # {}
        BY <1>b DEF Inv, TypeOK
      <4>3. \A r \in Visible(t)' : r.id = nextId => r = new
        BY <1>b, <1>d, <4>1 DEF Visible
      <4>4. pc'[t] = "last_id" /\ lastInsertId'[t] = nextId
        BY DEF Inv, TypeOK
      <4>5. \A r \in pending'[t] : r.id \notin torn'
        BY <1>a, <1>b, <1>d, <1>e, <4>1
      <4> QED
        BY <1>c, <1>e, <3>1, <4>1, <4>2, <4>3, <4>4, <4>5 DEF RowInv, Inserted
    <3>2. CASE s # t
      <4>1. pending'[s] = pending[s]
        BY <1>b, <3>2
      <4>2. \A r \in Visible(s)' : r \in Visible(s) \/ r.id = nextId
        BY <1>b, <1>e, <4>1 DEF Visible
      <4>3. story'[s] = story[s] /\ story[s].made # nextId
        BY <1>c, <1>d, <3>2 DEF Inv, TypeOK, Story, Ids
      <4>4. pc'[s] = pc[s] /\ session'[s] = session[s] /\ lastInsertId'[s] = lastInsertId[s]
        BY <3>2 DEF Inv, TypeOK
      <4>5. RowInv(s)
        BY DEF Inv
      <4>6. \A r \in pending[s] : r.id \notin torn'
        BY <1>b, <1>d, <4>5 DEF RowInv
      <4> HIDE DEF Insert
      <4>7. UNCHANGED <<id, record, request>>
        BY DEF Insert
      <4> QED
        BY <4>1, <4>2, <4>3, <4>4, <4>5, <4>6, <4>7 DEF RowInv, Inserted, Visible
    <3> QED
      BY <3>1, <3>2
  <2> QED
    BY <2>1, <2>2, <2>3
<1>3. TableInv'
  <2>1. /\ \A r \in table' : r.id < nextId'
        /\ \A i \in torn' : i < nextId'
    BY <1>b, <1>d, <1>e DEF Inv, TypeOK, TableInv, Link, Ids
  <2>2. ASSUME NEW s \in Threads, NEW r \in table', r.id = story'[s].made
        PROVE  \/ story'[s].disturbed /\ r.id \in torn'
               \/ story'[s].doubtful
               \/ answer'[s] = "created"
    <3>1. CASE s = t
      BY <1>b, <1>c, <1>d, <2>2, <3>1
    <3>2. CASE s # t
      <4>1. r \in table
        BY <1>b, <1>c, <1>d, <1>e, <2>2, <3>2 DEF Inv, TypeOK, Story, Ids
      <4> QED
        BY <1>c, <2>2, <3>2, <4>1 DEF Inv, TableInv
    <3> QED
      BY <3>1, <3>2
  <2>3. \A s, u \in Threads : s # u /\ story'[s].made = story'[u].made => story'[s].made = 0
    BY <1>c, <1>d DEF Inv, TypeOK, TableInv, Story, Ids
  <2>4. ASSUME NEW s \in Threads, NEW r \in pending'[s], r.code # None
        PROVE  /\ \A q \in table' : q.code # r.code
               /\ \A u \in Threads \ {s} : \A q \in pending'[u] : q.code # r.code
    <3>1. CASE session[t] = "transaction" /\ s = t
      BY <1>b, <1>f, <2>4, <3>1 DEF Inv, TypeOK, Sessions
    <3>2. CASE session[t] = "transaction" /\ s # t
      <4>1. table' = table /\ r \in pending[s]
        BY <1>b, <2>4, <3>2 DEF Inv, TypeOK
      <4>2. \A u \in Threads \ {s} : \A q \in pending'[u] : q \in pending[u] \/ q = new
        BY <1>b, <3>2 DEF Inv, TypeOK
      <4>3. new.code # r.code
        BY <1>f, <2>4, <3>2, <4>1
      <4> QED
        BY <2>4, <4>1, <4>2, <4>3 DEF Inv, TableInv
    <3>3. CASE session[t] # "transaction"
      <4>1. table' = table \cup {new} /\ pending' = pending
        BY <1>b, <3>3
      <4>2. s # t
        BY <1>a, <2>4, <4>1
      <4>3. new.code # r.code
        BY <1>f, <2>4, <4>1, <4>2
      <4> QED
        BY <2>4, <4>1, <4>3 DEF Inv, TableInv
    <3> QED
      BY <3>1, <3>2, <3>3
  <2> QED
    BY <2>1, <2>2, <2>3, <2>4 DEF TableInv
<1>4. ConflictIsReal'
  BY <1>b DEF Inv, ConflictIsReal
<1>5. LinksAreWhole'
  BY <1>b, <1>d, <1>e, <1>f DEF Inv, LinksAreWhole
<1> QED
  BY <1>1, <1>2, <1>3, <1>4, <1>5 DEF Inv

LEMMA InsertRefusedInv ==
  ASSUME Inv, NEW t \in Threads, InsertRefused(t)
  PROVE  Inv'
<1> USE DEF InsertRefused, Runs, Reaches, SessionOf, Taken, Visible, Throw, Goto
<1>1. TypeOK'
  <2>1. checking' \in [Threads -> Codes \cup {None}]
    BY AtInsert, CreateAssumption, KeepsCode DEF Inv
  <2>2. nextId' \in 1..MaxRequests + 1
    BY CreateAssumption DEF Inv, TypeOK, Ids
  <2>3. /\ session' \in [Threads -> Sessions] /\ pc' \in [Threads -> Stages]
        /\ answer' \in [Threads -> Answers]
    BY DEF Inv, TypeOK, Stages, Sessions, Answers
  <2> QED
    BY <2>1, <2>2, <2>3 DEF Inv, TypeOK
<1>2. ASSUME NEW s \in Threads PROVE (SessionInv(s) /\ StageInv(s) /\ RowInv(s))'
  <2>1. SessionInv(s)'
    BY DEF Inv, TypeOK, SessionInv, StageInv, Inside, Begun, Stages, Sessions, Story, NoStory
  <2>2. StageInv(s)'
    BY DEF Inv, TypeOK, StageInv, Inside, Begun, Stages, Story, NoStory, Ids
  <2>3. RowInv(s)'
    BY DEF Inv, TypeOK, SessionInv, StageInv, RowInv, TableInv, Inside, Begun, Inserted, Visible, Stages, Story, NoStory
  <2> QED
    BY <2>1, <2>2, <2>3
<1>3. TableInv'
  <2>1. answer[t] = "none"
    BY DEF Inv, StageInv, Inside
  <2>2. nextId' \in {nextId, nextId + 1}
    BY DEF Inv, TypeOK
  <2> QED
    BY <2>1, <2>2, TableKept DEF Inv, TypeOK
<1>4. ConflictIsReal'
  <2>1. \E r \in table : r.code = request[t].code
    BY AtInsert
  <2> QED
    BY <2>1 DEF Inv, TypeOK, ConflictIsReal
<1>5. LinksAreWhole'
  BY DEF Inv, TypeOK, LinksAreWhole
<1> QED
  BY <1>1, <1>2, <1>3, <1>4, <1>5 DEF Inv

LEMMA ReadLastInsertIdInv ==
  ASSUME Inv, NEW t \in Threads, ReadLastInsertId(t)
  PROVE  Inv'
<1> USE DEF ReadLastInsertId, Runs, Reaches, SessionOf, Goto
<1>1. TypeOK'
  BY CreateAssumption DEF Inv, TypeOK, Stages, Inside, Sessions, Answers, Ids, Story, NoStory, Link
<1>2. ASSUME NEW s \in Threads PROVE (SessionInv(s) /\ StageInv(s) /\ RowInv(s))'
  <2>1. SessionInv(s)'
    BY DEF Inv, TypeOK, SessionInv, StageInv, Inside, Begun, Stages, Sessions, Story, NoStory
  <2>2. StageInv(s)'
    BY DEF Inv, TypeOK, StageInv, Inside, Begun, Stages, Story, NoStory, Ids
  <2>3. RowInv(s)'
    BY DEF Inv, TypeOK, SessionInv, StageInv, RowInv, TableInv, Inside, Begun, Inserted, Visible, Stages, Story, NoStory
  <2> QED
    BY <2>1, <2>2, <2>3
<1>3. TableInv'
  BY DEF Inv, TypeOK, SessionInv, StageInv, RowInv, TableInv, Begun, NoStory, Story
<1>4. ConflictIsReal'
  BY DEF Inv, TypeOK, StageInv, ConflictIsReal
<1>5. LinksAreWhole'
  BY DEF Inv, TypeOK, LinksAreWhole
<1> QED
  BY <1>1, <1>2, <1>3, <1>4, <1>5 DEF Inv

LEMMA AssignCodeInv ==
  ASSUME Inv, NEW t \in Threads, AssignCode(t)
  PROVE  Inv'
<1> DEFINE code == encodeBase62[id[t]]
           Coded(q) == q.id = id[t] /\ q.code = code
<1>a. /\ request[t].code = None /\ answer[t] = "none" /\ ~story[t].doubtful
      /\ pc[t] = "update"
      /\ session' \in [Threads -> Sessions] /\ session'[t] = SessionOf(t)
      /\ \A s \in Threads \ {t} : session'[s] = session[s]
      /\ pc' = [pc EXCEPT ![t] = "read"]
      /\ UNCHANGED <<inTransaction, nextId, lastInsertId, request, id, record,
                     answer, copied, story, torn, faults>>
  BY DEF AssignCode, Runs, Goto, Inv, TypeOK, StageInv, SessionOf, Sessions
<1>b. /\ table' \in SUBSET Link
      /\ \A q \in table' : \/ q \in table /\ (q.id # id[t] \/ table' = table)
                           \/ Coded(q) /\ pending[t] = {}
      /\ \A q \in table' : \E r \in table : r.id = q.id /\ r.owner = q.owner
      /\ \A r \in table : r.code # None => r \in table'
  <2>1. CASE table' = table
    BY <2>1 DEF Inv, TypeOK
  <2>2. CASE table' # table
    <3>1. /\ id[t] \in Ids /\ pending[t] = {} /\ table' = WithCode(table, t)
          /\ \A q \in table : q.id = id[t] => q.code = None
      BY <2>2, AtUpdate
    <3>2. table \in SUBSET Link
      BY DEF Inv, TypeOK
    <3>3. \A r \in table : r.code # None => r.id # id[t]
      BY <3>1
    <3>4. \A r \in table : r.code # None => r \in table'
      BY <3>1, <3>2, <3>3, Recoded
    <3>5. \A q \in table' : \E r \in table : r.id = q.id /\ r.owner = q.owner
      BY <3>1, <3>2, Recoded
    <3>6. /\ table' \in SUBSET Link
          /\ \A q \in table' : (q \in table /\ q.id # id[t]) \/ Coded(q)
      BY <3>1, <3>2, Recoded
    <3> QED
      BY <3>1, <3>4, <3>5, <3>6
  <2> QED
    BY <2>1, <2>2
<1>c. /\ pending' \in [Threads -> SUBSET Link]
      /\ \A s \in Threads \ {t} : pending'[s] = pending[s]
      /\ \A q \in pending'[t] : Coded(q) /\ \E r \in pending[t] : r.id = q.id /\ r.owner = q.owner
      /\ pending[t] # {} => pending'[t] # {}
      /\ pending[t] = {} => pending'[t] = {}
  BY AtUpdate, Recoded, OpenRows DEF Inv, TypeOK
<1>d. table' # table \/ pending' # pending \/ pending[t] # {} =>
        /\ id[t] \in Ids /\ id[t] = story[t].made /\ code # None
        /\ \A q \in table : q.code # code
        /\ \A s \in Threads \ {t} : \A q \in pending[s] : q.code # code
        /\ \A s \in Threads \ {t} : story[s].made # id[t]
  BY AtUpdate, CreateAssumption
<1> HIDE DEF code, Coded
<1>1. TypeOK'
  <2>1. checking' \in [Threads -> Codes \cup {None}]
    BY KeepsCode DEF AssignCode, Inv, TypeOK
  <2> QED
    BY <1>a, <1>b, <1>c, <2>1 DEF Inv, TypeOK, Stages, Inside
<1>2. ASSUME NEW s \in Threads PROVE (SessionInv(s) /\ StageInv(s) /\ RowInv(s))'
  <2>1. SessionInv(s)'
    BY <1>a, <1>c DEF Inv, TypeOK, AssignCode, Runs, Reaches, SessionInv, SessionOf, Inside
  <2>2. StageInv(s)'
    BY <1>a DEF Inv, TypeOK, StageInv, Begun
  <2>3. RowInv(s)'
    <3>1. CASE s = t
      <4>1. ASSUME NEW q \in pending'[t]
            PROVE  /\ q.id = story[t].made /\ q.owner = request[t].owner
                   /\ q.code = encodeBase62[q.id] /\ q.code # None /\ q.id \notin torn
        BY <1>c, <1>d, OpenRows DEF Inv, RowInv, Coded, code
      <4>2. session'[t] = "transaction" => pending'[t] # {} /\ id[t] = story[t].made
        BY <1>a, <1>c DEF SessionOf, Inv, RowInv, Inserted
      <4>3. pc'[t] = "read"
        BY <1>a DEF Inv, TypeOK
      <4> QED
        BY <1>a, <3>1, <4>1, <4>2, <4>3 DEF RowInv, Inserted
    <3>2. CASE s # t
      <4>1. ASSUME NEW q \in Visible(s)', q.id = story[s].made PROVE q \in Visible(s)
        BY <1>b, <1>c, <1>d, <3>2, <4>1 DEF Visible, Coded
      <4>2. pending'[s] = pending[s] /\ session'[s] = session[s] /\ pc'[s] = pc[s]
        BY <1>a, <1>c, <3>2 DEF Inv, TypeOK
      <4> QED
        BY <1>a, <4>1, <4>2 DEF Inv, RowInv, Inserted
    <3> QED
      BY <3>1, <3>2
  <2> QED
    BY <2>1, <2>2, <2>3
<1>3. TableInv'
  <2>1. /\ \A r \in table' : r.id < nextId'
        /\ \A i \in torn' : i < nextId'
    BY <1>a, <1>b DEF Inv, TableInv
  <2>2. \A s \in Threads : \A r \in table' : r.id = story'[s].made =>
          \/ story'[s].disturbed /\ r.id \in torn'
          \/ story'[s].doubtful
          \/ answer'[s] = "created"
    BY <1>a, <1>b DEF Inv, TableInv
  <2>3. \A s, u \in Threads : s # u /\ story'[s].made = story'[u].made => story'[s].made = 0
    BY <1>a DEF Inv, TableInv
  <2>4. ASSUME NEW s \in Threads, NEW r \in pending'[s], r.code # None
        PROVE  /\ \A q \in table' : q.code # r.code
               /\ \A u \in Threads \ {s} : \A q \in pending'[u] : q.code # r.code
    <3>1. CASE s = t
      <4>1. pending[t] # {} /\ r.code = code
        BY <1>c, <3>1 DEF Coded
      <4>2. \A q \in table' : q \in table
        BY <1>b, <4>1
      <4> QED
        BY <1>c, <1>d, <3>1, <4>1, <4>2
    <3>2. CASE s # t
      <4>1. r \in pending[s]
        BY <1>c, <3>2
      <4>2. /\ \A q \in table : q.code # r.code
            /\ \A u \in Threads \ {s} : \A q \in pending[u] : q.code # r.code
        BY <2>4, <4>1 DEF Inv, TableInv
      <4>3. \A q \in table' : q.code # r.code
        BY <1>b, <1>d, <3>2, <4>1, <4>2 DEF Coded
      <4>4. \A q \in pending'[t] : q.code # r.code
        BY <1>c, <1>d, <3>2, <4>1 DEF Coded
      <4> QED
        BY <1>c, <4>2, <4>3, <4>4
    <3> QED
      BY <3>1, <3>2
  <2> QED
    BY <2>1, <2>2, <2>3, <2>4 DEF TableInv
<1>4. ConflictIsReal'
  <2>1. ASSUME NEW s \in Threads, answer[s] = "conflict"
        PROVE  \E r \in table' : r.code = request[s].code
    BY <1>b, <2>1 DEF Inv, StageInv, ConflictIsReal
  <2> QED
    BY <1>a, <2>1 DEF ConflictIsReal
<1>5. LinksAreWhole'
  <2>1. ASSUME NEW r \in table', r.code = None PROVE r.id \in torn'
    BY <1>a, <1>b, <1>d, <2>1 DEF Inv, LinksAreWhole, Coded
  <2>2. ASSUME NEW r \in table', NEW q \in table', r.id = q.id \/ (r.code = q.code /\ r.code # None)
        PROVE  r = q
    <3>1. CASE table' = table
      BY <2>2, <3>1 DEF Inv, LinksAreWhole
    <3>2. CASE table' # table
      <4>1. /\ (r \in table /\ r.id # id[t]) \/ Coded(r)
            /\ (q \in table /\ q.id # id[t]) \/ Coded(q)
        BY <1>b, <3>2
      <4>2. CASE Coded(r) /\ Coded(q)
        <5>1. r.owner = q.owner
          BY <1>b, <4>2 DEF Inv, LinksAreWhole, Coded
        <5> QED
          BY <1>b, <4>2, <5>1 DEF Coded, Link
      <4>3. CASE r \in table /\ r.id # id[t] /\ q \in table /\ q.id # id[t]
        BY <2>2, <4>3 DEF Inv, LinksAreWhole
      <4>4. CASE r \in table /\ r.id # id[t] /\ Coded(q)
        BY <1>d, <2>2, <3>2, <4>4 DEF Coded
      <4>5. CASE Coded(r) /\ q \in table /\ q.id # id[t]
        BY <1>d, <2>2, <3>2, <4>5 DEF Coded
      <4> QED
        BY <4>1, <4>2, <4>3, <4>4, <4>5
    <3> QED
      BY <3>1, <3>2
  <2> QED
    BY <2>1, <2>2 DEF LinksAreWhole
<1> QED
  BY <1>1, <1>2, <1>3, <1>4, <1>5 DEF Inv

LEMMA AssignRefusedInv ==
  ASSUME Inv, NEW t \in Threads, AssignRefused(t)
  PROVE  Inv'
<1> USE DEF AssignRefused, Runs, Reaches, SessionOf, Throw, Goto
<1>1. TypeOK'
  <2>1. Wanted(t) = encodeBase62[id[t]]
    BY DEF Wanted
  <2>2. checking' \in [Threads -> Codes \cup {None}]
    BY <2>1, WantedCode, KeepsCode DEF Inv
  <2>3. /\ session' \in [Threads -> Sessions] /\ pc' \in [Threads -> Stages]
        /\ answer' \in [Threads -> Answers]
    BY DEF Inv, TypeOK, Stages, Sessions, Answers
  <2> QED
    BY <2>2, <2>3 DEF Inv, TypeOK
<1>2. ASSUME NEW s \in Threads PROVE (SessionInv(s) /\ StageInv(s) /\ RowInv(s))'
  <2>1. SessionInv(s)'
    BY DEF Inv, TypeOK, SessionInv, StageInv, Inside, Begun, Stages, Sessions, Story, NoStory
  <2>2. StageInv(s)'
    BY DEF Inv, TypeOK, StageInv, Inside, Begun, Stages, Story, NoStory, Ids
  <2>3. RowInv(s)'
    BY DEF Inv, TypeOK, SessionInv, StageInv, RowInv, TableInv, Inside, Begun, Inserted, Visible, Stages, Story, NoStory
  <2> QED
    BY <2>1, <2>2, <2>3
<1>3. TableInv'
  <2>1. answer[t] = "none"
    BY DEF Inv, StageInv, Inside
  <2>2. nextId' \in {nextId, nextId + 1}
    BY DEF Inv, TypeOK
  <2> QED
    BY <2>1, <2>2, TableKept DEF Inv, TypeOK
<1>4. ConflictIsReal'
  BY DEF Inv, TypeOK, StageInv, ConflictIsReal
<1>5. LinksAreWhole'
  BY DEF Inv, TypeOK, LinksAreWhole
<1> QED
  BY <1>1, <1>2, <1>3, <1>4, <1>5 DEF Inv

LEMMA ReadRecordInv ==
  ASSUME Inv, NEW t \in Threads, ReadRecord(t)
  PROVE  Inv'
<1> USE DEF ReadRecord, Runs, Reaches, SessionOf, Targets, Visible, Throw, Goto
<1>a. \A r \in Visible(t) : r \in Link
  BY DEF Inv, TypeOK
<1>1. TypeOK'
  <2>1. session' \in [Threads -> Sessions]
    BY DEF Inv, TypeOK, Sessions
  <2>2. pc' \in [Threads -> Stages] /\ answer' \in [Threads -> Answers]
    BY DEF Inv, TypeOK, Stages, Inside, Answers
  <2>3. record' \in [Threads -> Link \cup {None}]
    BY <1>a DEF Inv, TypeOK
  <2> QED
    BY <2>1, <2>2, <2>3 DEF Inv, TypeOK
<1>2. ASSUME NEW s \in Threads PROVE (SessionInv(s) /\ StageInv(s) /\ RowInv(s))'
  <2>1. SessionInv(s)'
    BY DEF Inv, TypeOK, SessionInv, StageInv, Inside, Begun, Stages, Sessions, Story, NoStory
  <2>2. StageInv(s)'
    BY DEF Inv, TypeOK, StageInv, Inside, Begun, Stages, Story, NoStory, Ids
  <2>3. RowInv(s)'
    <3>1. CASE s = t /\ session'[t] = "transaction" /\ pc'[t] = "commit"
      <4>1. session[t] = "transaction"
        BY <3>1 DEF Inv, TypeOK, Sessions
      <4>2. record'[t] \in Visible(t) /\ record'[t].id = story[t].made
        BY <3>1, <4>1 DEF Inv, TypeOK, RowInv, Inserted, Stages
      <4>3. record'[t] \in pending[t]
        <5>1. PICK r \in pending[t] : TRUE
          BY <4>1 DEF Inv, RowInv, Inserted
        <5>2. record'[t] \notin table
          BY <4>2, <5>1, OpenRows
        <5> QED
          BY <4>2, <5>2
      <4>4. ASSUME NEW r \in pending[t] PROVE r = record'[t]
        <5>1. r.id = record'[t].id /\ r.owner = record'[t].owner /\ r.code = record'[t].code
          BY <4>1, <4>3 DEF Inv, RowInv
        <5>2. r \in Link /\ record'[t] \in Link
          BY <4>3 DEF Inv, TypeOK
        <5> QED
          BY <5>1, <5>2 DEF Link
      <4>5. pending'[t] = {record'[t]}
        BY <4>3, <4>4
      <4> QED
        BY <3>1, <4>1, <4>5 DEF Inv, TypeOK, RowInv, Inserted
    <3>2. CASE ~(s = t /\ session'[t] = "transaction" /\ pc'[t] = "commit")
      BY <3>2 DEF Inv, TypeOK, SessionInv, StageInv, RowInv, Inserted, Sessions
    <3> QED
      BY <3>1, <3>2
  <2> QED
    BY <2>1, <2>2, <2>3
<1>3. TableInv'
  <2>1. answer[t] = "none"
    BY DEF Inv, StageInv, Inside
  <2>2. nextId' \in {nextId, nextId + 1}
    BY DEF Inv, TypeOK
  <2> QED
    BY <2>1, <2>2, TableKept DEF Inv, TypeOK
<1>4. ConflictIsReal'
  BY DEF Inv, TypeOK, StageInv, ConflictIsReal
<1>5. LinksAreWhole'
  BY DEF Inv, TypeOK, LinksAreWhole
<1> QED
  BY <1>1, <1>2, <1>3, <1>4, <1>5 DEF Inv

LEMMA CommitInv ==
  ASSUME Inv, NEW t \in Threads, Commit(t)
  PROVE  Inv'
<1> USE DEF Commit, Reaches, MakePermanent, Reopen, Goto
<1>a. /\ \A s \in Threads \ {t} : RowInv(s)'
      /\ TableInv'
      /\ LinksAreWhole'
  <2>1. /\ story'[t].made = story[t].made /\ story'[t].disturbed = story[t].disturbed
        /\ story'[t].doubtful \/ answer'[t] = "created"
    BY DEF Inv, TypeOK, Story
  <2> QED
    BY <2>1, Committed DEF Inv, TypeOK
<1>1. TypeOK'
  BY CreateAssumption DEF Inv, TypeOK, Stages, Inside, Sessions, Answers
<1>2. ASSUME NEW s \in Threads PROVE (SessionInv(s) /\ StageInv(s) /\ RowInv(s))'
  <2>1. SessionInv(s)'
    BY DEF Inv, TypeOK, SessionInv, StageInv, Inside, Begun, Stages, Sessions, Story, NoStory
  <2>2. StageInv(s)'
    BY DEF Inv, TypeOK, StageInv, Inside, Begun, Stages, Story, NoStory, Ids
  <2>3. RowInv(s)'
    <3>1. CASE s = t
      BY <3>1 DEF Inv, TypeOK, RowInv, Inserted
    <3> QED
      BY <1>a, <3>1
  <2> QED
    BY <2>1, <2>2, <2>3
<1>3. TableInv'
  BY <1>a
<1>4. ConflictIsReal'
  BY DEF Inv, TypeOK, StageInv, ConflictIsReal
<1>5. LinksAreWhole'
  BY <1>a
<1> QED
  BY <1>1, <1>2, <1>3, <1>4, <1>5 DEF Inv

LEMMA CommitUnansweredInv ==
  ASSUME Inv, NEW t \in Threads, CommitUnanswered(t)
  PROVE  Inv'
<1> USE DEF CommitUnanswered, Fault, MakePermanent, Forgets, Throw, Goto
<1>a. /\ \A s \in Threads \ {t} : RowInv(s)'
      /\ TableInv'
      /\ LinksAreWhole'
  <2>1. /\ story'[t].made = story[t].made /\ story'[t].disturbed = story[t].disturbed
        /\ story'[t].doubtful \/ answer'[t] = "created"
    BY DEF Inv, TypeOK, Story
  <2> QED
    BY <2>1, Committed DEF Inv, TypeOK
<1>1. TypeOK'
  <2>1. inTransaction' \in [Threads -> BOOLEAN]
    BY DEF Inv, TypeOK
  <2>2. story' \in [Threads -> Story]
    <3>1. story[t] \in Story
      BY DEF Inv, TypeOK
    <3>2. [story[t] EXCEPT !.doubtful = TRUE] \in Story
      BY <3>1 DEF Story
    <3> QED
      BY <3>2 DEF Inv, TypeOK
  <2>3. table' \in SUBSET Link /\ pending' \in [Threads -> SUBSET Link]
    BY DEF Inv, TypeOK
  <2>4. pc' \in [Threads -> Stages] /\ answer' \in [Threads -> Answers]
    BY DEF Inv, TypeOK, Stages, Answers
  <2>5. session' \in [Threads -> Sessions] /\ lastInsertId' \in [Threads -> Ids \cup {0}]
    BY DEF Inv, TypeOK, Sessions
  <2>6. faults' \in 0..MaxFaults
    BY CreateAssumption DEF Inv, TypeOK
  <2> QED
    BY <2>1, <2>2, <2>3, <2>4, <2>5, <2>6 DEF Inv, TypeOK
<1>2. ASSUME NEW s \in Threads PROVE (SessionInv(s) /\ StageInv(s) /\ RowInv(s))'
  <2>1. SessionInv(s)'
    BY DEF Inv, TypeOK, SessionInv, StageInv, Inside, Begun, Stages, Sessions, Story, NoStory
  <2>2. StageInv(s)'
    BY DEF Inv, TypeOK, StageInv, Inside, Begun, Stages, Story, NoStory, Ids
  <2>3. RowInv(s)'
    <3>1. CASE s = t
      BY <3>1 DEF Inv, TypeOK, RowInv, Inserted
    <3> QED
      BY <1>a, <3>1
  <2> QED
    BY <2>1, <2>2, <2>3
<1>3. TableInv'
  BY <1>a
<1>4. ConflictIsReal'
  BY DEF Inv, TypeOK, StageInv, ConflictIsReal
<1>5. LinksAreWhole'
  BY <1>a
<1> QED
  BY <1>1, <1>2, <1>3, <1>4, <1>5 DEF Inv

LEMMA StatementFailsInv ==
  ASSUME Inv, NEW t \in Threads, StatementFails(t)
  PROVE  Inv'
<1> USE DEF StatementFails, server, Forgets, Throw, Goto
<1>1. TypeOK'
  <2>1. inTransaction' \in [Threads -> BOOLEAN]
    BY DEF Inv, TypeOK
  <2>2. pc' \in [Threads -> Stages] /\ answer' \in [Threads -> Answers]
    BY DEF Inv, TypeOK, Stages, Answers
  <2> QED
    BY <2>1, <2>2 DEF Inv, TypeOK
<1>2. ASSUME NEW s \in Threads PROVE (SessionInv(s) /\ StageInv(s) /\ RowInv(s))'
  <2>1. SessionInv(s)'
    BY DEF Inv, TypeOK, SessionInv, StageInv, Inside, Begun, Stages, Sessions, Story, NoStory
  <2>2. StageInv(s)'
    BY DEF Inv, TypeOK, StageInv, Inside, Begun, Stages, Story, NoStory, Ids
  <2>3. RowInv(s)'
    BY DEF Inv, TypeOK, SessionInv, StageInv, RowInv, TableInv, Inside, Begun, Inserted, Visible, Stages, Story, NoStory
  <2> QED
    BY <2>1, <2>2, <2>3
<1>3. TableInv'
  <2>1. answer[t] = "none"
    BY DEF Inv, StageInv, Inside
  <2>2. nextId' \in {nextId, nextId + 1}
    BY DEF Inv, TypeOK
  <2> QED
    BY <2>1, <2>2, TableKept DEF Inv, TypeOK
<1>4. ConflictIsReal'
  BY DEF Inv, TypeOK, StageInv, ConflictIsReal
<1>5. LinksAreWhole'
  BY DEF Inv, TypeOK, LinksAreWhole
<1> QED
  BY <1>1, <1>2, <1>3, <1>4, <1>5 DEF Inv

LEMMA LockWaitTimesOutInv ==
  ASSUME Inv, NEW t \in Threads, LockWaitTimesOut(t)
  PROVE  Inv'
<1>b. checking' \in [Threads -> Codes \cup {None}]
  <2>1. checking[t] \in Codes \cup {None} /\ TypeOK
    BY DEF Inv, TypeOK
  <2>2. Keeps(t, checking[t])
    BY DEF LockWaitTimesOut
  <2> QED
    BY <2>1, <2>2, KeepsCode
<1> USE DEF LockWaitTimesOut, server, Fault, Throw, Goto
<1>a. pc[t] \in {"insert", "update"}
  BY DEF Wanted
<1>1. TypeOK'
  <2>1. pc' \in [Threads -> Stages] /\ answer' \in [Threads -> Answers]
    BY DEF Inv, TypeOK, Stages, Answers
  <2>2. faults' \in 0..MaxFaults
    BY CreateAssumption DEF Inv, TypeOK
  <2> QED
    BY <1>b, <2>1, <2>2 DEF Inv, TypeOK
<1>2. ASSUME NEW s \in Threads PROVE (SessionInv(s) /\ StageInv(s) /\ RowInv(s))'
  <2>1. SessionInv(s)'
    BY DEF Inv, TypeOK, SessionInv, StageInv, Inside, Begun, Stages, Sessions, Story, NoStory
  <2>2. StageInv(s)'
    BY <1>a DEF Inv, TypeOK, StageInv, Inside, Begun, Stages, Story, NoStory, Ids
  <2>3. RowInv(s)'
    BY DEF Inv, TypeOK, SessionInv, StageInv, RowInv, TableInv, Inside, Begun, Inserted, Visible, Stages, Story, NoStory
  <2> QED
    BY <2>1, <2>2, <2>3
<1>3. TableInv'
  <2>1. answer[t] = "none"
    BY <1>a DEF Inv, StageInv
  <2>2. nextId' \in {nextId, nextId + 1}
    BY DEF Inv, TypeOK
  <2> QED
    BY <2>1, <2>2, TableKept DEF Inv, TypeOK
<1>4. ConflictIsReal'
  BY DEF Inv, TypeOK, StageInv, ConflictIsReal
<1>5. LinksAreWhole'
  BY DEF Inv, TypeOK, LinksAreWhole
<1> QED
  BY <1>1, <1>2, <1>3, <1>4, <1>5 DEF Inv

LEMMA AwaitEntryInv ==
  ASSUME Inv, NEW t \in Threads, AwaitEntry(t)
  PROVE  Inv'
<1> USE DEF AwaitEntry, Runs, Reaches, SessionOf
<1>1. TypeOK'
  <2>1. checking' \in [Threads -> Codes \cup {None}]
    BY WantedCode DEF Inv, TypeOK
  <2>2. session' \in [Threads -> Sessions]
    BY DEF Inv, TypeOK, Sessions
  <2> QED
    BY <2>1, <2>2 DEF Inv, TypeOK
<1>2. ASSUME NEW s \in Threads PROVE (SessionInv(s) /\ StageInv(s) /\ RowInv(s))'
  <2>1. SessionInv(s)'
    BY DEF Inv, TypeOK, SessionInv, Inside, Sessions
  <2>2. StageInv(s)'
    BY DEF Inv, StageInv, Begun
  <2>3. RowInv(s)'
    BY DEF Inv, TypeOK, RowInv, Inserted, Visible, Sessions
  <2> QED
    BY <2>1, <2>2, <2>3
<1>3. TableInv' /\ ConflictIsReal' /\ LinksAreWhole'
  BY DEF Inv, TableInv, ConflictIsReal, LinksAreWhole
<1> QED
  BY <1>1, <1>2, <1>3 DEF Inv

LEMMA DeadlockFoundInv ==
  ASSUME Inv, NEW t \in Threads, DeadlockFound(t)
  PROVE  Inv'
<1> USE DEF DeadlockFound, Inherits, Throw, Goto
<1>a. pc[t] \in {"insert", "update"}
  BY DEF Wanted
<1>1. TypeOK'
  <2>1. session' \in [Threads -> Sessions] /\ pending' \in [Threads -> SUBSET Link]
    BY DEF Inv, TypeOK, Sessions
  <2>2. pc' \in [Threads -> Stages] /\ answer' \in [Threads -> Answers]
    BY DEF Inv, TypeOK, Stages, Answers
  <2>3. checking' \in [Threads -> Codes \cup {None}]
    BY DEF Inv, TypeOK
  <2> QED
    BY <2>1, <2>2, <2>3 DEF Inv, TypeOK
<1>2. ASSUME NEW s \in Threads PROVE (SessionInv(s) /\ StageInv(s) /\ RowInv(s))'
  <2>1. SessionInv(s)'
    BY DEF Inv, TypeOK, SessionInv, Inside, Sessions
  <2>2. StageInv(s)'
    BY <1>a DEF Inv, TypeOK, StageInv, Begun
  <2>3. RowInv(s)'
    BY DEF Inv, TypeOK, RowInv, Inserted, Visible
  <2> QED
    BY <2>1, <2>2, <2>3
<1>3. TableInv'
  <2>1. answer[t] = "none"
    BY <1>a DEF Inv, StageInv
  <2> QED
    BY <2>1 DEF Inv, TypeOK, TableInv
<1>4. ConflictIsReal' /\ LinksAreWhole'
  BY DEF Inv, TypeOK, StageInv, ConflictIsReal, LinksAreWhole
<1> QED
  BY <1>1, <1>2, <1>3, <1>4 DEF Inv

LEMMA RollbackInv ==
  ASSUME Inv, NEW t \in Threads, Rollback(t)
  PROVE  Inv'
<1> USE DEF Rollback, Reopen, Forgets, Reaches, Goto
<1>1. TypeOK'
  <2>1. session' \in [Threads -> Sessions]
    BY DEF Inv, TypeOK, Sessions
  <2>2. inTransaction' \in [Threads -> BOOLEAN]
    BY DEF Inv, TypeOK
  <2>3. pending' \in [Threads -> SUBSET Link] /\ pc' \in [Threads -> Stages]
    BY DEF Inv, TypeOK, Stages
  <2> QED
    BY <2>1, <2>2, <2>3 DEF Inv, TypeOK
<1>2. ASSUME NEW s \in Threads PROVE (SessionInv(s) /\ StageInv(s) /\ RowInv(s))'
  <2>1. SessionInv(s)'
    BY DEF Inv, TypeOK, SessionInv, StageInv, Inside, Begun, Stages, Sessions, Story, NoStory
  <2>2. StageInv(s)'
    BY DEF Inv, TypeOK, StageInv, Inside, Begun, Stages, Story, NoStory, Ids
  <2>3. RowInv(s)'
    BY DEF Inv, TypeOK, SessionInv, StageInv, RowInv, TableInv, Inside, Begun, Inserted, Visible, Stages, Story, NoStory
  <2> QED
    BY <2>1, <2>2, <2>3
<1>3. TableInv'
  BY DEF Inv, TypeOK, SessionInv, StageInv, RowInv, TableInv, Begun, NoStory, Story
<1>4. ConflictIsReal'
  BY DEF Inv, TypeOK, StageInv, ConflictIsReal
<1>5. LinksAreWhole'
  BY DEF Inv, TypeOK, LinksAreWhole
<1> QED
  BY <1>1, <1>2, <1>3, <1>4, <1>5 DEF Inv

LEMMA RespondInv ==
  ASSUME Inv, NEW t \in Threads, Respond(t)
  PROVE  Inv'
<1> USE DEF Respond, Goto
<1>1. TypeOK'
  BY CreateAssumption DEF Inv, TypeOK, Stages, Inside, Sessions, Answers, Ids, Story, NoStory, Link
<1>2. ASSUME NEW s \in Threads PROVE (SessionInv(s) /\ StageInv(s) /\ RowInv(s))'
  <2>1. SessionInv(s)'
    BY DEF Inv, TypeOK, SessionInv, StageInv, Inside, Begun, Stages, Sessions, Story, NoStory
  <2>2. StageInv(s)'
    BY DEF Inv, TypeOK, StageInv, Inside, Begun, Stages, Story, NoStory, Ids
  <2>3. RowInv(s)'
    BY DEF Inv, TypeOK, SessionInv, StageInv, RowInv, TableInv, Inside, Begun, Inserted, Visible, Stages, Story, NoStory
  <2> QED
    BY <2>1, <2>2, <2>3
<1>3. TableInv'
  <2>1. \A s \in Threads : story'[s].made # 0 => s # t /\ story'[s] = story[s] /\ answer'[s] = answer[s]
    BY DEF Inv, TypeOK, NoStory
  <2>2. \A r \in table : r.id # 0
    BY DEF Inv, TypeOK, Link, Ids
  <2>3. story'[t].made = 0
    BY DEF Inv, TypeOK, NoStory
  <2>4. \A s \in Threads : \A r \in table : r.id = story'[s].made =>
          \/ story'[s].disturbed /\ r.id \in torn'
          \/ story'[s].doubtful
          \/ answer'[s] = "created"
    BY <2>1, <2>2 DEF Inv, TableInv
  <2>5. \A s, u \in Threads : s # u /\ story'[s].made = story'[u].made => story'[s].made = 0
    BY <2>1 DEF Inv, TableInv
  <2> QED
    BY <2>4, <2>5 DEF Inv, TableInv
<1>4. ConflictIsReal'
  BY DEF Inv, TypeOK, StageInv, ConflictIsReal
<1>5. LinksAreWhole'
  BY DEF Inv, TypeOK, LinksAreWhole
<1> QED
  BY <1>1, <1>2, <1>3, <1>4, <1>5 DEF Inv

LEMMA SessionLostInv ==
  ASSUME Inv, NEW t \in Threads, SessionLost(t)
  PROVE  Inv'
<1> USE DEF SessionLost, Fault, client
<1>1. TypeOK'
  BY CreateAssumption DEF Inv, TypeOK, Stages, Inside, Sessions, Answers, Ids, Story, NoStory, Link
<1>2. ASSUME NEW s \in Threads PROVE (SessionInv(s) /\ StageInv(s) /\ RowInv(s))'
  <2>1. SessionInv(s)'
    BY DEF Inv, TypeOK, SessionInv, StageInv, Inside, Begun, Stages, Sessions, Story, NoStory
  <2>2. StageInv(s)'
    BY DEF Inv, TypeOK, StageInv, Inside, Begun, Stages, Story, NoStory, Ids
  <2>3. RowInv(s)'
    BY DEF Inv, TypeOK, SessionInv, StageInv, RowInv, TableInv, Inside, Begun, Inserted, Visible, Stages, Story, NoStory
  <2> QED
    BY <2>1, <2>2, <2>3
<1>3. TableInv'
  BY DEF Inv, TypeOK, SessionInv, StageInv, RowInv, TableInv, Begun, NoStory, Story
<1>4. ConflictIsReal'
  BY DEF Inv, TypeOK, StageInv, ConflictIsReal
<1>5. LinksAreWhole'
  BY DEF Inv, TypeOK, LinksAreWhole
<1> QED
  BY <1>1, <1>2, <1>3, <1>4, <1>5 DEF Inv

LEMMA CheckerVisitsInv ==
  ASSUME Inv, NEW t \in Threads, CheckerVisits(t)
  PROVE  Inv'
<1> USE DEF CheckerVisits, PingAndReconnect, Reopen, Forgets
<1>1. TypeOK'
  <2>1. session' \in [Threads -> Sessions] /\ inTransaction' \in [Threads -> BOOLEAN]
    BY Reconnected DEF Inv
  <2>2. [story EXCEPT ![t].disturbed = TRUE] \in [Threads -> Story]
    BY DEF Inv, TypeOK, Story
  <2>3. story' \in [Threads -> Story] /\ copied' \subseteq Threads
    BY <2>2 DEF Inv, TypeOK
  <2> QED
    BY <2>1, <2>3 DEF Inv, TypeOK
<1>2. ASSUME NEW s \in Threads PROVE (SessionInv(s) /\ StageInv(s) /\ RowInv(s))'
  <2>1. SessionInv(s)'
    BY DEF Inv, TypeOK, SessionInv, StageInv, Inside, Begun, Stages, Sessions, Story, NoStory
  <2>2. StageInv(s)'
    <3>1. story'[s].made = story[s].made /\ story'[s].doubtful = story[s].doubtful
      BY DEF Inv, TypeOK, Story
    <3>2. ~Begun(s) => story'[s] = story[s]
      BY DEF Inv, TypeOK, Begun, Inside
    <3> QED
      BY <3>1, <3>2 DEF Inv, StageInv, Begun
  <2>3. RowInv(s)'
    BY DEF Inv, TypeOK, SessionInv, StageInv, RowInv, TableInv, Inside, Begun, Inserted, Visible, Stages, Story, NoStory
  <2> QED
    BY <2>1, <2>2, <2>3
<1>3. TableInv'
  BY DEF Inv, TypeOK, SessionInv, StageInv, RowInv, TableInv, Begun, NoStory, Story
<1>4. ConflictIsReal'
  BY DEF Inv, TypeOK, StageInv, ConflictIsReal
<1>5. LinksAreWhole'
  BY DEF Inv, TypeOK, LinksAreWhole
<1> QED
  BY <1>1, <1>2, <1>3, <1>4, <1>5 DEF Inv

LEMMA CheckerCopiesInv ==
  ASSUME Inv, CheckerCopies
  PROVE  Inv'
<1> USE DEF CheckerCopies, server, client
<1>1. TypeOK'
  BY DEF Inv, TypeOK
<1>2. ASSUME NEW s \in Threads PROVE (SessionInv(s) /\ StageInv(s) /\ RowInv(s))'
  BY DEF Inv, SessionInv, StageInv, RowInv, Begun, Inserted, Visible
<1>3. TableInv'
  BY DEF Inv, TableInv
<1>4. ConflictIsReal' /\ LinksAreWhole'
  BY DEF Inv, ConflictIsReal, LinksAreWhole
<1> QED
  BY <1>1, <1>2, <1>3, <1>4 DEF Inv

LEMMA StutterInv ==
  ASSUME Inv, UNCHANGED vars
  PROVE  Inv'
<1> USE DEF vars, server, client
<1>1. TypeOK'
  BY DEF Inv, TypeOK
<1>2. ASSUME NEW s \in Threads PROVE (SessionInv(s) /\ StageInv(s) /\ RowInv(s))'
  BY DEF Inv, SessionInv, StageInv, RowInv, Begun, Inserted, Visible
<1>3. TableInv'
  BY DEF Inv, TableInv
<1>4. ConflictIsReal' /\ LinksAreWhole'
  BY DEF Inv, ConflictIsReal, LinksAreWhole
<1> QED
  BY <1>1, <1>2, <1>3, <1>4 DEF Inv

LEMMA StepInv ==
  ASSUME Inv, [Next]_vars
  PROVE  Inv'
<1>1. ASSUME NEW t \in Threads, NEW wanted \in Requests, Arrive(t, wanted) PROVE Inv'
  BY <1>1, ArriveInv
<1>2. ASSUME NEW t \in Threads, Work(t) PROVE Inv'
  <2>1. CASE GetConnection(t)
    BY <2>1, GetConnectionInv
  <2>2. CASE StartTransaction(t)
    BY <2>2, StartTransactionInv
  <2>3. CASE Insert(t)
    BY <2>3, InsertInv
  <2>4. CASE InsertRefused(t)
    BY <2>4, InsertRefusedInv
  <2>5. CASE ReadLastInsertId(t)
    BY <2>5, ReadLastInsertIdInv
  <2>6. CASE AssignCode(t)
    BY <2>6, AssignCodeInv
  <2>7. CASE AssignRefused(t)
    BY <2>7, AssignRefusedInv
  <2>8. CASE ReadRecord(t)
    BY <2>8, ReadRecordInv
  <2>9. CASE Commit(t)
    BY <2>9, CommitInv
  <2>10. CASE StatementFails(t)
    BY <2>10, StatementFailsInv
  <2>11. CASE Rollback(t)
    BY <2>11, RollbackInv
  <2>12. CASE Respond(t)
    BY <2>12, RespondInv
  <2>13. CASE AwaitEntry(t)
    BY <2>13, AwaitEntryInv
  <2> QED
    BY <1>2, <2>1, <2>2, <2>3, <2>4, <2>5, <2>6, <2>7, <2>8, <2>9, <2>10, <2>11,
       <2>12, <2>13 DEF Work
<1>3. ASSUME NEW t \in Threads, CommitUnanswered(t) PROVE Inv'
  BY <1>3, CommitUnansweredInv
<1>4. ASSUME NEW t \in Threads, LockWaitTimesOut(t) PROVE Inv'
  BY <1>4, LockWaitTimesOutInv
<1>5. ASSUME NEW t \in Threads, SessionLost(t) PROVE Inv'
  BY <1>5, SessionLostInv
<1>6. ASSUME NEW t \in Threads, CheckerVisits(t) PROVE Inv'
  BY <1>6, CheckerVisitsInv
<1>7. CASE CheckerCopies
  BY <1>7, CheckerCopiesInv
<1>8. CASE UNCHANGED vars
  BY <1>8, StutterInv
<1>9. ASSUME NEW t \in Threads, DeadlockFound(t) PROVE Inv'
  BY <1>9, DeadlockFoundInv
<1> QED
  BY <1>1, <1>2, <1>3, <1>4, <1>5, <1>6, <1>7, <1>8, <1>9 DEF Next

(***************************************************************************)
(* The invariant of the create transaction: an open transaction belongs to *)
(* an undisturbed create and holds nothing but its row, and the promises   *)
(* of MySqlShortLinkRepository::create to its caller are kept.             *)
(***************************************************************************)
THEOREM InvAlways == Spec => []Inv
<1>1. Inv /\ [Next]_vars => Inv'
  BY StepInv
<1> QED
  BY InitInv, <1>1, PTL DEF Spec

(* Rows, sessions and local variables keep to their types.                 *)
THEOREM TypeCorrect == Spec => []TypeOK
<1>1. Inv => TypeOK
  BY DEF Inv
<1> QED
  BY InvAlways, <1>1, PTL

(***************************************************************************)
(* The ROLLBACK of create's catch clause leaves nothing of a failed create *)
(* in the table, unless its COMMIT was done and only the reply lost, or    *)
(* its INSERT ran outside of a transaction because the checker thread had  *)
(* replaced the session.                                                   *)
(***************************************************************************)
THEOREM FailedAlwaysLeavesNothing == Spec => []FailedLeavesNothing
<1>1. Inv => FailedLeavesNothing
  BY DEF Inv, TableInv, FailedLeavesNothing
<1> QED
  BY InvAlways, <1>1, PTL

(* ShortCodeConflict is thrown of nothing but a duplicate code.            *)
THEOREM ConflictAlwaysReal == Spec => []ConflictIsReal
<1>1. Inv => ConflictIsReal
  BY DEF Inv
<1> QED
  BY InvAlways, <1>1, PTL

(***************************************************************************)
(* Links that readers can see have codes and ids of their own.  Each has a *)
(* code, but for one that was inserted outside of its transaction.         *)
(***************************************************************************)
THEOREM LinksAlwaysWhole == Spec => []LinksAreWhole
<1>1. Inv => LinksAreWhole
  BY DEF Inv
<1> QED
  BY InvAlways, <1>1, PTL

-----------------------------------------------------------------------------
(***************************************************************************)
(* AnswerInv, on top of Inv.  A step leaves the creates of other threads   *)
(* as they are: their variables, the row of each, and what is committed.   *)
(***************************************************************************)
Same(s) ==
  /\ pc'[s] = pc[s] /\ request'[s] = request[s] /\ id'[s] = id[s]
  /\ record'[s] = record[s] /\ answer'[s] = answer[s]
  /\ story'[s].made = story[s].made
  /\ story[s].disturbed => story'[s].disturbed
  /\ checking'[s] \in {checking[s], None}

RowKept(s) == \A r \in Visible(s)' : r.id = story[s].made => r \in Visible(s)

CodedRowsStay ==
  /\ \A r \in table : r.code # None => r \in table'
  /\ \A i \in torn' : i < nextId => i \in torn

Stored(s) ==
  answer[s] = "created" /\ ~story[s].disturbed => record[s] \in table

Told(s) == RecordInv(s) /\ CheckInv(s) /\ Stored(s)

LEMMA AnswerParts ==
  Inv => (AnswerInv <=> \A s \in Threads : Told(s))
BY DEF AnswerInv, Told, RecordInv, CreatedIsStored, Stored

(* Ids of a create are those of its row, or 0, which is nobody's.          *)
LEMMA RowIds ==
  ASSUME Inv, NEW s \in Threads, NEW r \in Visible(s)
  PROVE  /\ r \in Link /\ r.id \in Ids /\ r.id # 0
         /\ r.id = id[s] => id[s] = story[s].made
BY DEF Inv, TypeOK, StageInv, Visible, Link, Ids

(* What a create has to be told is a code.                                 *)
LEMMA DueIsCode ==
  ASSUME Inv, NEW s \in Threads, record[s] \in table
  PROVE  CodeDue(s) # None
<1>1. record[s].id \in Ids
  BY DEF Inv, TypeOK, Link
<1> QED
  BY <1>1, CreateAssumption DEF CodeDue

LEMMA SameTold ==
  ASSUME Inv, Inv', NEW s \in Threads, Told(s), Same(s), RowKept(s), CodedRowsStay
  PROVE  Told(s)'
<1>1. \A r \in Visible(s)' : r.id # 0 /\ (r.id = id[s] => id[s] = story[s].made)
  <2>1. \A r \in Visible(s)' : r.id # 0
    BY DEF Inv, TypeOK, Visible, Link, Ids
  <2> QED
    BY <2>1 DEF Inv, StageInv
<1>2. ASSUME pc[s] = "commit" \/ answer[s] = "created", record[s].id \in torn'
      PROVE  record[s] \in table'
  <2>1. record[s].id = story[s].made /\ record[s].code = CodeDue(s)
    BY <1>2 DEF Told, RecordInv
  <2>2. record[s].id < nextId
    BY <2>1 DEF Inv, StageInv
  <2>3. record[s] \in table
    BY <1>2, <2>2 DEF CodedRowsStay, Told, RecordInv
  <2> QED
    BY <2>1, <2>3, DueIsCode DEF CodedRowsStay
<1>3. ASSUME answer[s] = "created", ~story[s].disturbed
      PROVE  record[s] \in table'
  <2>1. record[s] \in table /\ record[s].code = CodeDue(s)
    BY <1>3 DEF Told, RecordInv, Stored
  <2> QED
    BY <2>1, DueIsCode DEF CodedRowsStay
<1>4. CodeDue(s)' = CodeDue(s)
  BY DEF Same, CodeDue
<1>5. RecordInv(s)'
  BY <1>1, <1>2, <1>4 DEF Told, RecordInv, Same, RowKept
<1>6. CheckInv(s)'
  BY DEF Told, CheckInv, Same
<1>7. Stored(s)'
  BY <1>3 DEF Stored, Same
<1> QED
  BY <1>5, <1>6, <1>7 DEF Told

(* Statements that write no row.                                           *)
Quiet(t) ==
  \/ \E wanted \in Requests : Arrive(t, wanted)
  \/ GetConnection(t) \/ StartTransaction(t) \/ InsertRefused(t) \/ ReadLastInsertId(t)
  \/ AwaitEntry(t) \/ AssignRefused(t) \/ ReadRecord(t) \/ StatementFails(t)
  \/ Rollback(t) \/ Respond(t) \/ LockWaitTimesOut(t) \/ DeadlockFound(t)
  \/ SessionLost(t) \/ CheckerVisits(t)

LEMMA QuietRows ==
  ASSUME Inv, NEW t \in Threads, Quiet(t)
  PROVE  /\ table' = table /\ torn' = torn
         /\ \A s \in Threads : pending'[s] \subseteq pending[s]
         /\ nextId <= nextId'
<1>1. CASE StartTransaction(t)
  <2>1. pending[t] = {}
    BY <1>1 DEF StartTransaction, Inv, TypeOK, SessionInv, Inside, Sessions
  <2> QED
    BY <1>1, <2>1 DEF StartTransaction, MakePermanent, Inv, TypeOK
<1>2. CASE \E wanted \in Requests : Arrive(t, wanted)
  BY <1>2 DEF Arrive, server, Inv, TypeOK
<1>3. CASE GetConnection(t) \/ InsertRefused(t) \/ ReadLastInsertId(t) \/ AwaitEntry(t)
  BY <1>3 DEF GetConnection, InsertRefused, ReadLastInsertId, AwaitEntry, Inv, TypeOK
<1>4. CASE AssignRefused(t) \/ ReadRecord(t) \/ StatementFails(t) \/ Respond(t)
  BY <1>4 DEF AssignRefused, ReadRecord, StatementFails, Respond, server, Inv, TypeOK
<1>5. CASE Rollback(t) \/ DeadlockFound(t) \/ SessionLost(t)
  BY <1>5 DEF Rollback, DeadlockFound, SessionLost, Inv, TypeOK
<1>6. CASE LockWaitTimesOut(t) \/ CheckerVisits(t)
  BY <1>6 DEF LockWaitTimesOut, CheckerVisits, Inv, TypeOK
<1> QED
  BY <1>1, <1>2, <1>3, <1>4, <1>5, <1>6 DEF Quiet

LEMMA QuietOthers ==
  ASSUME Inv, NEW t \in Threads, Quiet(t), NEW s \in Threads \ {t}
  PROVE  Same(s)
<1> USE DEF Same, Goto, Throw, Keeps
<1>1. CASE StartTransaction(t) \/ \E wanted \in Requests : Arrive(t, wanted)
  BY <1>1 DEF StartTransaction, MakePermanent, Arrive, server, Inv, TypeOK
<1>2. CASE GetConnection(t) \/ InsertRefused(t) \/ ReadLastInsertId(t) \/ AwaitEntry(t)
  BY <1>2 DEF GetConnection, InsertRefused, ReadLastInsertId, AwaitEntry, Inv, TypeOK
<1>3. CASE AssignRefused(t) \/ ReadRecord(t) \/ StatementFails(t) \/ Respond(t)
  BY <1>3 DEF AssignRefused, ReadRecord, StatementFails, Respond, server, Inv, TypeOK
<1>4. CASE Rollback(t) \/ DeadlockFound(t) \/ SessionLost(t)
  BY <1>4 DEF Rollback, DeadlockFound, SessionLost, client, Inv, TypeOK
<1>5. CASE LockWaitTimesOut(t) \/ CheckerVisits(t)
  BY <1>5 DEF LockWaitTimesOut, CheckerVisits, Inv, TypeOK
<1> QED
  BY <1>1, <1>2, <1>3, <1>4, <1>5 DEF Quiet

LEMMA QuietKept ==
  ASSUME Inv, NEW t \in Threads, Quiet(t)
  PROVE  CodedRowsStay /\ \A s \in Threads : RowKept(s)
BY QuietRows DEF CodedRowsStay, RowKept, Visible

(* A thread that has nothing to tell, or is only about to fail.            *)
LEMMA SilentTold ==
  ASSUME Inv', NEW t \in Threads, RecordInv(t), RowKept(t),
         pc'[t] \notin {"read", "commit"}, answer'[t] # "created",
         \/ story'[t].made = 0
         \/ story'[t].made = story[t].made /\ request'[t] = request[t],
         pc'[t] \in {"insert", "last_id", "update"} => checking'[t] = None
  PROVE  Told(t)'
<1>1. \A r \in Visible(t)' : r.id # 0
  BY DEF Inv, TypeOK, Visible, Link, Ids
<1>2. RecordInv(t)'
  BY <1>1 DEF RecordInv, RowKept
<1> QED
  BY <1>2 DEF Told, CheckInv, Stored

LEMMA QuietTold ==
  ASSUME Inv, Inv', NEW t \in Threads, Quiet(t), Told(t)
  PROVE  Told(t)'
<1>a. CodedRowsStay /\ RowKept(t)
  BY QuietKept
<1>b. RecordInv(t) /\ StageInv(t)
  BY DEF Told, Inv
<1>1. CASE \E wanted \in Requests : Arrive(t, wanted)
  <2>1. story'[t].made = 0 /\ pc'[t] = "ping" /\ answer'[t] = "none"
    BY <1>1, <1>b DEF Arrive, Goto, StageInv, Begun, NoStory, Inv, TypeOK
  <2> QED
    BY <1>a, <1>b, <2>1, SilentTold
<1>2. CASE \/ StartTransaction(t) \/ GetConnection(t) \/ InsertRefused(t)
           \/ AssignRefused(t) \/ StatementFails(t) \/ Rollback(t)
           \/ LockWaitTimesOut(t) \/ DeadlockFound(t)
  <2>1. /\ story' = story /\ request' = request
        /\ pc'[t] \in {"insert", "start", "respond", "rollback"}
        /\ pc'[t] = "insert" => checking'[t] = None
    BY <1>2 DEF StartTransaction, MakePermanent, GetConnection, InsertRefused, AssignRefused,
                StatementFails, Rollback, LockWaitTimesOut, DeadlockFound, Throw, Goto, Inv, TypeOK
  <2>2. answer'[t] # "created"
    BY <1>2, <1>b DEF StartTransaction, GetConnection, InsertRefused, AssignRefused,
                StatementFails, Rollback, LockWaitTimesOut, DeadlockFound, Throw, StageInv,
                Inv, TypeOK
  <2> QED
    BY <1>a, <1>b, <2>1, <2>2, SilentTold
<1>3. CASE Respond(t)
  <2>1. story'[t].made = 0 /\ pc'[t] = "idle" /\ answer'[t] = "none"
    BY <1>3 DEF Respond, Goto, NoStory, Inv, TypeOK
  <2> QED
    BY <1>a, <1>b, <2>1, SilentTold
<1>4. CASE SessionLost(t) \/ CheckerVisits(t)
  <2>1. Same(t)
    BY <1>4 DEF Same, SessionLost, CheckerVisits, client, Inv, TypeOK, Story
  <2> QED
    BY <1>a, <2>1, SameTold
<1>5. CASE AwaitEntry(t)
  <2>1. /\ pc' = pc /\ checking'[t] = Wanted(t) /\ Wanted(t) # None
        /\ pc[t] \in {"insert", "update"}
        /\ UNCHANGED <<request, id, story, answer>>
    BY <1>5 DEF AwaitEntry, Wanted, Inv, TypeOK
  <2>2. answer[t] = "none"
    BY <1>b, <2>1 DEF StageInv
  <2>3. RecordInv(t)'
    BY <1>a, <1>b, <2>1, <2>2 DEF RecordInv, RowKept
  <2>4. CheckInv(t)'
    BY <2>1 DEF CheckInv, Wanted
  <2> QED
    BY <2>1, <2>2, <2>3, <2>4 DEF Told, Stored
<1>6. CASE ReadLastInsertId(t)
  <2>1. /\ pc[t] = "last_id" /\ id'[t] = lastInsertId[t]
        /\ pc'[t] = (IF request[t].code = None THEN "update" ELSE "read")
        /\ UNCHANGED <<request, story, answer, checking>>
    BY <1>6 DEF ReadLastInsertId, Goto, Inv, TypeOK
  <2>2. answer[t] = "none" /\ id'[t] \in {0, story[t].made}
    BY <1>b, <2>1 DEF StageInv
  <2>3. \A r \in Visible(t)' : r.id # 0
    BY DEF Inv, TypeOK, Visible, Link, Ids
  <2>4. \A r \in Visible(t) : r.id = story[t].made => r.code = request[t].code
    BY <2>1 DEF Inv, RowInv
  <2>5. RecordInv(t)'
    BY <1>a, <1>b, <2>1, <2>2, <2>3, <2>4 DEF RecordInv, RowKept
  <2>6. CheckInv(t)'
    BY <2>1 DEF Told, CheckInv
  <2> QED
    BY <2>1, <2>2, <2>5, <2>6 DEF Told, Stored
<1>7. CASE ReadRecord(t)
  <2>1. /\ pc[t] = "read"
        /\ UNCHANGED <<table, pending, request, story, checking, torn>>
        /\ \/ pc'[t] = "rollback" /\ answer'[t] = "failed"
           \/ /\ pc'[t] = "commit" /\ answer' = answer /\ record'[t] \in Targets(t)
    BY <1>7 DEF ReadRecord, Throw, Goto, Inv, TypeOK
  <2>2. CASE pc'[t] = "rollback" /\ answer'[t] = "failed"
    BY <1>a, <1>b, <2>1, <2>2, SilentTold
  <2>3. CASE pc'[t] = "commit" /\ answer' = answer /\ record'[t] \in Targets(t)
    <3>1. /\ record'[t] \in Visible(t) /\ record'[t].id = story[t].made
          /\ record'[t].code # None
      BY <1>b, <2>1, <2>3, RowIds DEF Targets, RecordInv
    <3>2. /\ record'[t].owner = request[t].owner
          /\ record'[t].code = CodeDue(t)'
      BY <1>b, <2>1, <3>1 DEF RecordInv, CodeDue
    <3>3. record'[t].id \in torn => record'[t] \in table
      BY <3>1, OpenRows DEF Visible
    <3>4. \A r \in Visible(t)' : r.id # 0 /\ (r.id = id'[t] => r.code # None)
      <4>1. id' = id
        BY <1>7 DEF ReadRecord
      <4> QED
        BY <1>b, <2>1, <4>1, RowIds DEF RecordInv, Visible
    <3>5. RecordInv(t)'
      BY <1>a, <1>b, <2>1, <3>1, <3>2, <3>3, <3>4 DEF RecordInv, RowKept
    <3>6. answer[t] = "none"
      BY <1>b, <2>1 DEF StageInv
    <3> QED
      BY <2>3, <3>5, <3>6 DEF Told, CheckInv, Stored
  <2> QED
    BY <2>1, <2>2, <2>3
<1> QED
  BY <1>1, <1>2, <1>3, <1>4, <1>5, <1>6, <1>7 DEF Quiet

LEMMA InsertTold ==
  ASSUME Inv, Inv', NEW t \in Threads, Insert(t), \A s \in Threads : Told(s)
  PROVE  \A s \in Threads : Told(s)'
<1> DEFINE new == [id |-> nextId, owner |-> request[t].owner, code |-> request[t].code]
<1>1. /\ table' \subseteq table \cup {new}
      /\ table \subseteq table'
      /\ torn' \subseteq torn \cup {nextId}
      /\ \A s \in Threads : pending'[s] \subseteq pending[s] \cup {new}
      /\ \A s \in Threads \ {t} : pending'[s] = pending[s]
  BY DEF Insert, Inv, TypeOK
<1>2. /\ pc[t] = "insert" /\ pc'[t] = "last_id" /\ answer'[t] = "none"
      /\ request' = request /\ story'[t].made = nextId
      /\ checking'[t] \in {checking[t], None}
  <2>1. answer[t] = "none"
    BY AtInsert DEF Insert
  <2> QED
    BY <2>1 DEF Insert, Keeps, Goto, Inv, TypeOK, Story
<1>3. new.id = nextId /\ new.owner = request[t].owner /\ new.code = request[t].code
  OBVIOUS
<1> HIDE DEF new
<1>4. ASSUME NEW s \in Threads \ {t} PROVE Told(s)'
  <2>1. Same(s)
    BY DEF Same, Insert, Keeps, Goto, Inv, TypeOK
  <2>2. story[s].made < nextId /\ story[s].made \in Nat /\ nextId \in Nat
    BY CreateAssumption DEF Inv, StageInv, TypeOK, Story, Ids
  <2>3. RowKept(s)
    BY <1>1, <1>3, <2>2 DEF RowKept, Visible
  <2>4. CodedRowsStay
    BY <1>1, <2>2 DEF CodedRowsStay
  <2> QED
    BY <2>1, <2>3, <2>4, SameTold
<1>5. Told(t)'
  <2>1. \A r \in Visible(t) : r.id < nextId /\ r.id # nextId
    <3>1. \A r \in Visible(t) : r.id < nextId
      BY AtInsert DEF Insert, Inv, TableInv, Visible
    <3>2. nextId \in Nat /\ \A r \in Visible(t) : r.id \in Nat
      BY RowIds, CreateAssumption DEF Inv, TypeOK, Ids
    <3> QED
      BY <3>1, <3>2
  <2>2. \A r \in Visible(t)' : r.id = nextId => r = new
    BY <1>1, <2>1 DEF Visible
  <2>3. RecordInv(t)'
    BY <1>2, <1>3, <2>2 DEF RecordInv
  <2>4. CheckInv(t)'
    BY <1>2 DEF Told, CheckInv
  <2> QED
    BY <1>2, <2>3, <2>4 DEF Told, Stored
<1> QED
  BY <1>4, <1>5

LEMMA AssignCodeTold ==
  ASSUME Inv, Inv', NEW t \in Threads, AssignCode(t), \A s \in Threads : Told(s)
  PROVE  \A s \in Threads : Told(s)'
<1> DEFINE Coded(q) == q.id = id[t] /\ q.code = encodeBase62[id[t]]
<1>1. /\ pc[t] = "update" /\ pc'[t] = "read"
      /\ UNCHANGED <<request, id, record, answer, story, torn>>
      /\ checking'[t] \in {checking[t], None}
      /\ \A s \in Threads \ {t} : Same(s)
  BY DEF Same, AssignCode, Keeps, Goto, Inv, TypeOK
<1>2. answer[t] = "none" /\ request[t].code = None
  BY <1>1 DEF Inv, StageInv
<1>3. /\ \A q \in Visible(t)' :
           /\ (q \in Visible(t) /\ q.id # id[t]) \/ Coded(q)
           /\ \E r \in Visible(t) : r.id = q.id /\ r.owner = q.owner
      /\ \A q \in table' : q \in table \/ q.id = id[t]
  <2>1. /\ table' = WithCode(table, t) /\ pending'[t] = WithCode(pending[t], t)
        /\ table \in SUBSET Link /\ pending[t] \in SUBSET Link
    BY DEF AssignCode, Inv, TypeOK
  <2>2. \A S \in SUBSET Link : \A q \in WithCode(S, t) :
          /\ (q \in S /\ q.id # id[t]) \/ Coded(q)
          /\ \E r \in S : r.id = q.id /\ r.owner = q.owner
    <3> SUFFICES ASSUME NEW S \in SUBSET Link, NEW q \in WithCode(S, t)
                 PROVE  /\ (q \in S /\ q.id # id[t]) \/ Coded(q)
                        /\ \E r \in S : r.id = q.id /\ r.owner = q.owner
      OBVIOUS
    <3>1. PICK r \in S :
            q = IF r.id = id[t] THEN [r EXCEPT !.code = encodeBase62[id[t]]] ELSE r
      BY DEF WithCode
    <3>2. r \in Link
      OBVIOUS
    <3> QED
      BY <3>1, <3>2 DEF Link
  <2> QED
    BY <2>1, <2>2 DEF Visible
<1> HIDE DEF Coded
<1>4. CodedRowsStay
  <2>1. CASE table' = table
    BY <1>1, <2>1 DEF CodedRowsStay
  <2>2. CASE table' # table
    <3>1. /\ id[t] \in Ids /\ table' = WithCode(table, t)
          /\ \A q \in table : q.id = id[t] => q.code = None
      BY <2>2, AtUpdate
    <3>2. table \in SUBSET Link
      BY DEF Inv, TypeOK
    <3>3. ASSUME NEW r \in table, r.code # None PROVE r \in table'
      <4>1. r.id # id[t]
        BY <3>1, <3>3
      <4> QED
        BY <3>1, <3>2, <4>1, Recoded
    <3> QED
      BY <1>1, <3>3 DEF CodedRowsStay
  <2> QED
    BY <2>1, <2>2
<1>5. ASSUME NEW s \in Threads \ {t} PROVE Told(s)'
  <2>1. pending'[s] = pending[s]
    BY DEF AssignCode, Inv, TypeOK
  <2>2. \A q \in table' : q.id = story[s].made => q \in table
    <3>1. CASE table' = table
      BY <3>1
    <3>2. CASE table' # table
      <4>1. story[s].made # id[t]
        BY <3>2, AtUpdate
      <4> QED
        BY <1>3, <4>1
    <3> QED
      BY <3>1, <3>2
  <2>3. RowKept(s)
    BY <2>1, <2>2 DEF RowKept, Visible
  <2> QED
    BY <1>1, <1>4, <2>3, SameTold
<1>6. Told(t)'
  <2>1. \A q \in Visible(t)' : q.id # 0 /\ q.id \in Ids
    BY DEF Inv, TypeOK, Visible, Link, Ids
  <2>2. ASSUME NEW q \in Visible(t)', q.id = story[t].made
        PROVE  /\ q.owner = request[t].owner
               /\ q.code = request[t].code \/ q.code = encodeBase62[q.id]
    <3>1. PICK r \in Visible(t) : r.id = q.id /\ r.owner = q.owner
      BY <1>3
    <3>2. r.owner = request[t].owner
      BY <2>2, <3>1 DEF Told, RecordInv
    <3>3. CASE q \in Visible(t)
      BY <2>2, <3>3 DEF Told, RecordInv
    <3>4. CASE Coded(q)
      BY <3>1, <3>2, <3>4 DEF Coded
    <3> QED
      BY <1>3, <3>1, <3>2, <3>3, <3>4
  <2>3. ASSUME NEW q \in Visible(t)', q.id = id[t] PROVE q.code # None
    <3>1. q.code = encodeBase62[id[t]] /\ id[t] \in Ids
      BY <1>3, <2>1, <2>3 DEF Coded
    <3> QED
      BY <3>1, CreateAssumption
  <2>4. RecordInv(t)'
    BY <1>1, <1>2, <2>2, <2>3 DEF RecordInv
  <2> QED
    BY <1>1, <1>2, <2>4 DEF Told, CheckInv, Stored
<1> QED
  BY <1>5, <1>6

(* COMMIT, with or without its reply.                                      *)
LEMMA CommitTold ==
  ASSUME Inv, Inv', NEW t \in Threads, Commit(t) \/ CommitUnanswered(t),
         \A s \in Threads : Told(s)
  PROVE  \A s \in Threads : Told(s)'
<1>1. /\ pc[t] = "commit" /\ torn' = torn /\ nextId' = nextId
      /\ table' = table \cup pending[t] /\ pending'[t] = {}
      /\ \A s \in Threads \ {t} : pending'[s] = pending[s]
  BY DEF Commit, CommitUnanswered, MakePermanent, Inv, TypeOK
<1>2. CodedRowsStay
  BY <1>1 DEF CodedRowsStay
<1>3. ASSUME NEW s \in Threads \ {t} PROVE Told(s)'
  <2>1. Same(s)
    BY DEF Same, Commit, CommitUnanswered, MakePermanent, Throw, Goto, Inv, TypeOK
  <2>2. ASSUME NEW r \in pending[t] PROVE r.id # story[s].made
    BY OpenRows DEF Inv, TableInv
  <2>3. RowKept(s)
    BY <1>1, <2>2 DEF RowKept, Visible
  <2> QED
    BY <1>2, <2>1, <2>3, SameTold
<1>4. RowKept(t)
  BY <1>1 DEF RowKept, Visible
<1>5. RecordInv(t)
  BY DEF Told
<1>6. CASE CommitUnanswered(t)
  <2>1. /\ pc'[t] = "rollback" /\ answer'[t] = "failed" /\ request' = request
        /\ story'[t].made = story[t].made
    BY <1>6 DEF CommitUnanswered, Throw, Goto, Inv, TypeOK, Story
  <2>2. Told(t)'
    BY <1>4, <1>5, <2>1, SilentTold
  <2> QED
    BY <1>3, <2>2
<1>7. CASE Commit(t)
  <2>1. /\ pc'[t] = "respond"
        /\ UNCHANGED <<story, request, record, torn>>
    BY <1>7 DEF Commit, Goto, Inv, TypeOK
  <2>2. table \subseteq table'
    BY <1>1
  <2>3. CodeDue(t)' = CodeDue(t)
    BY <2>1 DEF CodeDue
  <2>4. RecordInv(t)'
    BY <1>1, <1>4, <1>5, <2>1, <2>2, <2>3 DEF RecordInv, RowKept
  <2>5. ASSUME ~story[t].disturbed PROVE record[t] \in table'
    <3>1. session[t] = "transaction"
      BY <1>1, <1>7, <2>5 DEF Commit, Reaches, Inv, TypeOK, SessionInv, Inside, Sessions
    <3>2. pending[t] = {record[t]}
      BY <1>1, <3>1 DEF Inv, RowInv
    <3> QED
      BY <1>1, <3>2
  <2>6. Told(t)'
    BY <2>1, <2>4, <2>5 DEF Told, CheckInv, Stored
  <2> QED
    BY <1>3, <2>6
<1> QED
  BY <1>6, <1>7

LEMMA StepTold ==
  ASSUME Inv, Inv', AnswerInv, [Next]_vars
  PROVE  AnswerInv'
<1>a. \A s \in Threads : Told(s)
  BY AnswerParts
<1>1. ASSUME NEW t \in Threads, Quiet(t), NEW s \in Threads PROVE Told(s)'
  <2>1. CASE s = t
    BY <1>1, <1>a, <2>1, QuietTold
  <2>2. CASE s # t
    <3>1. Same(s)
      BY <1>1, <2>2, QuietOthers
    <3> QED
      BY <1>1, <1>a, <3>1, QuietKept, SameTold
  <2> QED
    BY <2>1, <2>2
<1>2. ASSUME NEW t \in Threads, Insert(t) PROVE \A s \in Threads : Told(s)'
  BY <1>2, <1>a, InsertTold
<1>3. ASSUME NEW t \in Threads, AssignCode(t) PROVE \A s \in Threads : Told(s)'
  BY <1>3, <1>a, AssignCodeTold
<1>4. ASSUME NEW t \in Threads, Commit(t) \/ CommitUnanswered(t)
      PROVE  \A s \in Threads : Told(s)'
  BY <1>4, <1>a, CommitTold
<1>5. ASSUME CheckerCopies \/ UNCHANGED vars, NEW s \in Threads PROVE Told(s)'
  <2>1. UNCHANGED <<server, client, story, torn>>
    BY <1>5 DEF CheckerCopies, vars
  <2>2. Same(s) /\ RowKept(s) /\ CodedRowsStay
    BY <2>1 DEF Same, RowKept, CodedRowsStay, Visible, server, client
  <2> QED
    BY <1>a, <2>2, SameTold
<1>6. \A s \in Threads : Told(s)'
  BY <1>1, <1>2, <1>3, <1>4, <1>5 DEF Next, Work, Quiet
<1> QED
  BY <1>6 DEF AnswerInv, Told, RecordInv, CreatedIsStored, Stored

(***************************************************************************)
(* Whatever befalls a create - a session replaced in the middle of it      *)
(* included -, what it reads back is the row it wrote, and a lock that a   *)
(* duplicate check left it is on the code it is about to enter.            *)
(***************************************************************************)
THEOREM AnswerInvAlways == Spec => []AnswerInv
<1>1. Init => AnswerInv
  BY DEF Init, AnswerInv, RecordInv, CheckInv, CreatedIsStored, NoStory, Visible
<1>2. Inv /\ Inv' /\ AnswerInv /\ [Next]_vars => AnswerInv'
  BY StepTold
<1> QED
  BY InvAlways, <1>1, <1>2, PTL DEF Spec

(***************************************************************************)
(* A 201 of handleCreate tells the requester of its own link with the code *)
(* it should have, and the row is committed - unless the checker thread    *)
(* reconnects the connection in the middle of the create, after a row that *)
(* was still in the transaction: that row may be gone, the rest holds.     *)
(***************************************************************************)
THEOREM CreatedAlwaysStored == Spec => []CreatedIsStored
<1>1. AnswerInv => CreatedIsStored
  BY DEF AnswerInv
<1> QED
  BY AnswerInvAlways, <1>1, PTL

(***************************************************************************)
(* Whoever has entered a code waits for no other create.  A circle of      *)
(* waits can only be made of the shared locks of duplicate checks, all for *)
(* codes still wanted, which InnoDB breaks by failing a create that has    *)
(* entered nothing.                                                        *)
(***************************************************************************)
THEOREM HoldersAlwaysGoOn == Spec => []HoldersGoOn
<1>1. Inv /\ AnswerInv => HoldersGoOn
  <2> SUFFICES ASSUME Inv, AnswerInv, NEW s \in Threads, NEW t \in Threads,
                      Hinders(s, t), Wanted(t) # None, Wanted(s) # None
               PROVE  /\ \A r \in pending[s] : r.code = None
                      /\ checking[s] = Wanted(s)
    BY DEF HoldersGoOn
  <2>1. \A r \in pending[s] : r.code = None
    <3>1. CASE pc[s] = "insert"
      BY <3>1, AtInsert
    <3>2. CASE pc[s] = "update"
      <4>1. request[s].code = None
        BY <3>2 DEF Inv, StageInv
      <4> QED
        BY <3>2, <4>1, OpenRows DEF Inv, RowInv, Visible
    <3> QED
      BY <3>1, <3>2 DEF Wanted
  <2>2. checking[s] # None
    BY <2>1 DEF Hinders, Entered
  <2>3. checking[s] = Wanted(s)
    BY <2>2 DEF AnswerInv, CheckInv, Wanted
  <2> QED
    BY <2>1, <2>3
<1> QED
  BY InvAlways, AnswerInvAlways, <1>1, PTL

-----------------------------------------------------------------------------
(* The listing.  No statement takes a link from its owner.                 *)
RowsStay == \A owner : OwnedIds(owner) \subseteq OwnedIds(owner)'

LEMMA SameRows ==
  ASSUME \A r \in table : \E q \in table' : q.id = r.id /\ q.owner = r.owner
  PROVE  RowsStay
BY DEF RowsStay, OwnedIds

LEMMA RecodedRows ==
  ASSUME TypeOK, NEW t \in Threads, AssignCode(t)
  PROVE  RowsStay
<1> SUFFICES ASSUME NEW r \in table
             PROVE  \E q \in table' : q.id = r.id /\ q.owner = r.owner
  BY SameRows
<1> DEFINE q == IF r.id = id[t] THEN [r EXCEPT !.code = encodeBase62[id[t]]] ELSE r
<1>1. q \in table'
  BY DEF AssignCode, WithCode
<1>2. r \in Link
  BY DEF TypeOK
<1>3. q.id = r.id /\ q.owner = r.owner
  BY <1>2 DEF Link
<1> QED
  BY <1>1, <1>3

LEMMA LinksStay ==
  ASSUME TypeOK, [Next]_vars
  PROVE  RowsStay
<1>1. CASE \E t \in Threads : AssignCode(t)
  BY <1>1, RecodedRows
<1>2. CASE table \subseteq table'
  BY <1>2, SameRows
<1>3. ASSUME NEW t \in Threads,
             \/ \E wanted \in Requests : Arrive(t, wanted)
             \/ GetConnection(t) \/ StartTransaction(t) \/ Insert(t) \/ InsertRefused(t)
             \/ AwaitEntry(t)
      PROVE  table \subseteq table'
  BY <1>3 DEF Arrive, GetConnection, StartTransaction, MakePermanent, Insert,
              InsertRefused, AwaitEntry, server
<1>4. ASSUME NEW t \in Threads,
             \/ ReadLastInsertId(t) \/ AssignRefused(t) \/ ReadRecord(t) \/ Commit(t)
             \/ StatementFails(t) \/ Rollback(t) \/ Respond(t)
      PROVE  table \subseteq table'
  BY <1>4 DEF ReadLastInsertId, AssignRefused, ReadRecord, Commit, MakePermanent,
              StatementFails, Rollback, Respond, server
<1>5. ASSUME NEW t \in Threads,
             \/ CommitUnanswered(t) \/ LockWaitTimesOut(t) \/ SessionLost(t)
             \/ CheckerVisits(t) \/ DeadlockFound(t)
      PROVE  table \subseteq table'
  BY <1>5 DEF CommitUnanswered, MakePermanent, LockWaitTimesOut, SessionLost,
              CheckerVisits, DeadlockFound, server
<1>6. CASE CheckerCopies \/ UNCHANGED vars
  BY <1>2, <1>6 DEF CheckerCopies, server, vars
<1> QED
  BY <1>1, <1>2, <1>3, <1>4, <1>5, <1>6 DEF Next, Work

ListingPart == ListingType /\ CursorInv /\ ListingIsExact

(* While links are created, the walk stands still.                         *)
LEMMA CreateListing ==
  ASSUME Inv, ListingPart, [Next]_vars, listing' = listing
  PROVE  ListingPart'
<1>1. OwnedIds(listing.owner) \subseteq OwnedIds(listing.owner)'
  <2>1. PICK owner : owner = listing.owner
    OBVIOUS
  <2>2. OwnedIds(owner) \subseteq OwnedIds(owner)'
    BY LinksStay DEF Inv, RowsStay
  <2> QED
    BY <2>1, <2>2 DEF OwnedIds
<1>2. Shown' = Shown
  BY DEF Shown
<1> QED
  BY <1>1, <1>2 DEF ListingPart, ListingType, CursorInv, ListingIsExact

LEMMA BeginListingPart ==
  ASSUME Inv, ListingPart, NEW owner \in Owners, BeginListing(owner)
  PROVE  ListingPart'
<1>1. /\ listing' = [stage |-> "paging", owner |-> owner, cursor |-> 0, pages |-> <<>>,
                    due |-> OwnedIds(owner)]
      /\ table' = table
  BY DEF BeginListing, NoListing, vars, server
<1>2. OwnedIds(owner) \subseteq Ids
  BY DEF OwnedIds, Inv, TypeOK, Link
<1>3. Len(listing'.pages) = 0 /\ Shown' = {}
  BY <1>1 DEF Shown
<1>4. OwnedIds(listing.owner)' = OwnedIds(owner)
  BY <1>1 DEF OwnedIds
<1>5. ListingType'
  BY <1>1, <1>2 DEF ListingType
<1>6. CursorInv'
  <2>1. \A i \in OwnedIds(owner) : i > 0
    BY <1>2 DEF Ids
  <2>2. /\ listing'.stage = "paging" /\ listing'.due = OwnedIds(owner)
        /\ listing'.cursor = 0
    BY <1>1
  <2> QED
    BY <1>3, <1>4, <2>1, <2>2 DEF CursorInv
<1> QED
  BY <1>1, <1>3, <1>5, <1>6 DEF ListingPart, ListingIsExact

(* A page that was read shows what is due next, and only what the owner    *)
(* has; what it does not show lies behind the new cursor, unless it is the *)
(* last.                                                                   *)
LEMMA PageFacts ==
  ASSUME Inv, ListingPart, NEW limit \in Limits, ReadPage(limit)
  PROVE  \E items \in SUBSET Ids, cursor \in Nat, stage \in {"paging", "done"} :
           /\ listing.stage = "paging"
           /\ UNCHANGED vars
           /\ listing' = [listing EXCEPT !.stage = stage, !.cursor = cursor,
                                         !.pages = Append(@, items)]
           /\ items \subseteq OwnedIds(listing.owner)
           /\ \A i \in items : i > listing.cursor
           /\ stage = "paging" =>
                /\ cursor >= listing.cursor
                /\ \A i \in items : i <= cursor
                /\ \A i \in OwnedIds(listing.owner) :
                     i > listing.cursor => i \in items \/ i > cursor
           /\ stage = "done" =>
                \A i \in OwnedIds(listing.owner) : i > listing.cursor => i \in items
<1> DEFINE owned == OwnedIds(listing.owner)
           ids == {i \in owned : i > listing.cursor}
<1>1. /\ owned \subseteq Ids /\ listing.cursor \in Nat /\ limit \in Nat \ {0}
      /\ Ids \subseteq Nat
  BY ListingAssumption DEF OwnedIds, Inv, TypeOK, Link, ListingPart, ListingType, Ids
<1>2. PICK fetched \in SUBSET ids :
        /\ IsLowest(fetched, ids, limit + 1)
        /\ \E items \in SUBSET fetched :
             /\ IsLowest(items, fetched, limit)
             /\ ShowPage(items, Cardinality(fetched) > limit, items)
  BY DEF ReadPage, Select
<1>3. PICK items \in SUBSET fetched :
        /\ IsLowest(items, fetched, limit)
        /\ ShowPage(items, Cardinality(fetched) > limit, items)
  BY <1>2
<1>4. PICK cursor \in items \cup {listing.cursor} :
        /\ IF Cardinality(fetched) > limit THEN IsLast(cursor, items)
           ELSE cursor = listing.cursor
        /\ listing' =
             [listing EXCEPT !.stage = IF Cardinality(fetched) > limit
                                       THEN "paging" ELSE "done",
                             !.cursor = cursor, !.pages = Append(@, items)]
  BY <1>3 DEF ShowPage
<1>5. /\ items \in SUBSET Ids /\ cursor \in Nat /\ items \subseteq owned
      /\ \A i \in items : i > listing.cursor /\ i \in Nat
      /\ listing.stage = "paging" /\ UNCHANGED vars
  BY <1>1, <1>2, <1>4, <1>3 DEF ShowPage
<1>6. CASE Cardinality(fetched) > limit
  <2>1. cursor \in items /\ \A i \in items : i <= cursor
    BY <1>4, <1>6 DEF IsLast
  <2>2. ASSUME NEW i \in ids, i < cursor PROVE i \in items
    <3>1. i \in fetched
      BY <1>2, <1>3, <2>1, <2>2 DEF IsLowest
    <3> QED
      BY <1>3, <2>1, <2>2, <3>1 DEF IsLowest
  <2>3. \A i \in ids : i \in items \/ i > cursor
    BY <1>1, <1>5, <2>1, <2>2
  <2>4. cursor >= listing.cursor
    BY <1>1, <1>5, <2>1
  <2>5. listing' = [listing EXCEPT !.stage = "paging", !.cursor = cursor,
                                  !.pages = Append(@, items)]
    BY <1>4, <1>6
  <2> QED
    BY <1>5, <2>1, <2>3, <2>4, <2>5
<1>7. CASE ~(Cardinality(fetched) > limit)
  <2>1. fetched = ids /\ items = fetched
    <3>1. Cardinality(fetched) # limit + 1
      BY <1>1, <1>7
    <3>2. fetched = ids
      BY <1>2, <3>1 DEF IsLowest
    <3>3. IsFiniteSet(fetched) /\ Cardinality(fetched) \in Nat
      <4>1. fetched \in SUBSET (1..MaxRequests)
        BY <1>1 DEF Ids
      <4>2. IsFiniteSet(1..MaxRequests)
        <5>1. 1 \in Int /\ MaxRequests \in Int
          BY CreateAssumption
        <5> QED
          BY <5>1, FS_Interval
      <4> QED
        BY <4>1, <4>2, FS_Subset, FS_CardinalityType
    <3>4. items = fetched
      <4>1. CASE Cardinality(items) = limit
        BY <1>1, <1>7, <1>3, <3>3, <4>1, FS_Subset, FS_CardinalityType
      <4>2. CASE items = fetched
        BY <4>2
      <4> QED
        BY <1>3, <4>1, <4>2 DEF IsLowest
    <3> QED
      BY <3>2, <3>4
  <2>2. listing' = [listing EXCEPT !.stage = "done", !.cursor = cursor,
                                  !.pages = Append(@, items)]
    BY <1>4, <1>7
  <2> QED
    BY <1>5, <2>1, <2>2
<1> QED
  BY <1>6, <1>7

LEMMA ReadPagePart ==
  ASSUME Inv, ListingPart, NEW limit \in Limits, ReadPage(limit)
  PROVE  ListingPart'
<1> DEFINE owned == OwnedIds(listing.owner)
           pages == listing.pages
           N == Len(pages)
<1>1. PICK items \in SUBSET Ids, cursor \in Nat, stage \in {"paging", "done"} :
        /\ listing.stage = "paging"
        /\ UNCHANGED vars
        /\ listing' = [listing EXCEPT !.stage = stage, !.cursor = cursor,
                                      !.pages = Append(@, items)]
        /\ items \subseteq owned
        /\ \A i \in items : i > listing.cursor
        /\ stage = "paging" =>
             /\ cursor >= listing.cursor
             /\ \A i \in items : i <= cursor
             /\ \A i \in owned : i > listing.cursor => i \in items \/ i > cursor
        /\ stage = "done" => \A i \in owned : i > listing.cursor => i \in items
  BY PageFacts
<1>2. /\ listing.cursor \in Nat /\ pages \in Seq(SUBSET Ids) /\ listing.due \subseteq Ids
      /\ Ids \subseteq Nat /\ N \in Nat
  BY DEF ListingPart, ListingType, Ids
<1>3. /\ listing'.stage = stage /\ listing'.cursor = cursor
      /\ listing'.owner = listing.owner /\ listing'.due = listing.due
      /\ listing'.pages = Append(pages, items)
  BY <1>1 DEF ListingPart, ListingType
<1>4. ListingType'
  <2>1. Append(pages, items) \in Seq(SUBSET Ids)
    BY <1>1, <1>2
  <2> QED
    BY <1>1, <2>1 DEF ListingPart, ListingType
<1>5. /\ Len(listing'.pages) = N + 1 /\ listing'.pages[N + 1] = items
      /\ \A n \in 1..N : listing'.pages[n] = pages[n]
  BY <1>2, <1>3
<1>6. OwnedIds(listing.owner)' = owned
  BY <1>1, <1>3 DEF OwnedIds, vars, server
<1>7. /\ \A i \in Shown : i <= listing.cursor
      /\ \A i \in listing.due : i \in Shown \/ i > listing.cursor
      /\ listing.due \subseteq owned /\ Shown \subseteq owned
      /\ \A m, n \in 1..N : m < n => \A i \in pages[m], j \in pages[n] : i < j
  BY <1>1 DEF ListingPart, CursorInv, ListingIsExact
<1> HIDE DEF pages, N
<1>8. Shown' = Shown \cup items
  <2>1. Shown = UNION {pages[n] : n \in 1..N}
    BY DEF Shown, pages, N
  <2>2. Shown' = UNION {listing'.pages[n] : n \in 1..N + 1}
    BY <1>5 DEF Shown
  <2> QED
    BY <1>2, <1>5, <2>1, <2>2
<1>9. owned \subseteq Nat
  BY <1>2 DEF Inv, TypeOK, Link, OwnedIds
<1> HIDE DEF owned
<1>10. CursorInv'
  <2>1. stage = "paging" =>
          /\ \A i \in Shown \cup items : i <= cursor
          /\ \A i \in listing.due : i \in Shown \cup items \/ i > cursor
    BY <1>1, <1>2, <1>7, <1>9
  <2> QED
    BY <1>1, <1>3, <1>6, <1>7, <1>8, <2>1 DEF CursorInv
<1>11. ListingIsExact'
  <2>1. ASSUME NEW m \in 1..N + 1, NEW n \in 1..N + 1, m < n,
               NEW i \in listing'.pages[m], NEW j \in listing'.pages[n]
        PROVE  i < j
    <3>1. m \in 1..N /\ i \in pages[m]
      BY <1>2, <1>5, <2>1
    <3>2. CASE n \in 1..N
      BY <1>5, <1>7, <2>1, <3>1, <3>2
    <3>3. CASE n = N + 1
      <4>1. i \in Shown
        BY <3>1 DEF Shown, pages, N
      <4>2. j \in items
        BY <1>5, <2>1, <3>3
      <4> QED
        BY <1>1, <1>2, <1>7, <1>9, <4>1, <4>2
    <3> QED
      BY <1>2, <3>2, <3>3
  <2>2. stage = "done" => listing.due \subseteq Shown \cup items
    BY <1>1, <1>7
  <2> QED
    BY <1>1, <1>3, <1>5, <1>6, <1>7, <1>8, <2>1, <2>2 DEF ListingIsExact
<1> QED
  BY <1>4, <1>10, <1>11 DEF ListingPart

(***************************************************************************)
(* handleList loses no link and shows none twice: for any page sizes the   *)
(* client asks for, any number of creates that commit between two pages,   *)
(* in whatever order of their ids, and any failure of theirs.              *)
(***************************************************************************)
THEOREM ListingAlwaysExact == ListingSpec => []ListingIsExact
<1>1. ListingInit => Inv /\ ListingPart
  <2> SUFFICES ASSUME ListingInit PROVE Inv /\ ListingPart
    OBVIOUS
  <2>1. Inv
    BY InitInv DEF ListingInit
  <2>2. listing = NoListing /\ table = {}
    BY DEF ListingInit, Init
  <2>3. Shown = {} /\ Len(listing.pages) = 0
    BY <2>2 DEF NoListing, Shown
  <2>4. ListingType
    BY <2>2 DEF NoListing, ListingType
  <2> QED
    BY <2>1, <2>2, <2>3, <2>4 DEF NoListing, ListingPart, CursorInv, ListingIsExact
<1>2. Inv /\ ListingPart /\ [ListingNext]_listingVars => Inv' /\ ListingPart'
  <2> SUFFICES ASSUME Inv, ListingPart, [ListingNext]_listingVars
               PROVE  Inv' /\ ListingPart'
    OBVIOUS
  <2>1. CASE [Next]_vars /\ listing' = listing
    BY <2>1, StepInv, CreateListing
  <2>2. ASSUME NEW owner \in Owners, BeginListing(owner)
        PROVE  Inv' /\ ListingPart'
    BY <2>2, BeginListingPart, StutterInv DEF BeginListing
  <2>3. ASSUME NEW limit \in Limits, ReadPage(limit)
        PROVE  Inv' /\ ListingPart'
    BY <2>3, ReadPagePart, StutterInv DEF ReadPage, ShowPage
  <2> QED
    BY <2>1, <2>2, <2>3 DEF ListingNext, listingVars
<1>3. Inv /\ ListingPart => ListingIsExact
  BY DEF ListingPart
<1> QED
  BY <1>1, <1>2, <1>3, PTL DEF ListingSpec
=============================================================================
