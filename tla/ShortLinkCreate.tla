-------------------------- MODULE ShortLinkCreate --------------------------
(***************************************************************************)
(* POST /api/short-links on MySQL: the transaction of                      *)
(* MySqlShortLinkRepository::create, statement by statement, on pooled     *)
(* connections whose sessions may be lost at any moment and are opened     *)
(* again by the client library or by the checker thread of the pool.       *)
(*                                                                         *)
(* A thread serves one request at a time and every request uses one        *)
(* connection, so a connection is named by its thread.  Requests that      *)
(* handleCreate refuses before it reaches the repository (429, 400)        *)
(* change nothing and are left out.                                        *)
(***************************************************************************)
EXTENDS Integers

CONSTANTS
  Threads,        \* I/O threads, and their connections
  Owners,         \* users that create links
  Codes,          \* short codes
  Requests,       \* what is asked for: an owner and a custom code, or None
  encodeBase62,   \* the code made of an id
  None,           \* no code, no record
  MaxRequests,    \* bound: creates in a behaviour, and ids
  MaxFaults       \* bound: lost sessions and lock waits that time out

Ids == 1..MaxRequests

ASSUME CreateAssumption ==
  /\ MaxRequests \in Nat
  /\ MaxFaults \in Nat
  /\ Requests \subseteq [owner : Owners, code : Codes \cup {None}]
  /\ encodeBase62 \in [Ids -> Codes]
  /\ None \notin Codes \cup Requests

VARIABLES
  table,          \* the committed rows of short_links
  nextId,         \* AUTO_INCREMENT
  session,        \* of each connection, on the server
  pending,        \* rows its open transaction has written
  checking,       \* the code whose entry it has locked to look for a duplicate
  lastInsertId,   \* LAST_INSERT_ID() of the session
  inTransaction,  \* what the client library believes of the session
  copied,         \* connections the checker thread still has to visit
  pc,             \* the next statement of each thread
  request,        \* owner and custom code
  id,             \* create's local variable
  record,         \* create's local variable
  answer,         \* how the request ends
  story,          \* history: what befell the create, and the id it was given
  torn,           \* history: ids inserted outside a transaction
  faults          \* faults that may still happen

server == <<table, nextId, session, pending, checking, lastInsertId>>
client == <<inTransaction, pc, request, id, record, answer>>
vars == <<server, client, copied, story, torn, faults>>

-----------------------------------------------------------------------------
Link == [id : Ids, owner : Owners, code : Codes \cup {None}]
Story == [made : Ids \cup {0}, disturbed : BOOLEAN, doubtful : BOOLEAN]
NoStory == [made |-> 0, disturbed |-> FALSE, doubtful |-> FALSE]

Sessions == {"lost", "plain", "transaction"}
Answers == {"none", "created", "conflict", "failed"}

(* Between START TRANSACTION and COMMIT.                                   *)
Inside == {"insert", "last_id", "update", "read", "commit"}
Stages == {"idle", "ping", "start", "rollback", "respond"} \cup Inside

Init ==
  /\ table = {}
  /\ nextId = 1
  /\ session = [t \in Threads |-> "plain"]
  /\ pending = [t \in Threads |-> {}]
  /\ checking = [t \in Threads |-> None]
  /\ lastInsertId = [t \in Threads |-> 0]
  /\ inTransaction = [t \in Threads |-> FALSE]
  /\ copied = {}
  /\ pc = [t \in Threads |-> "idle"]
  /\ request = [t \in Threads |-> None]
  /\ id = [t \in Threads |-> 0]
  /\ record = [t \in Threads |-> None]
  /\ answer = [t \in Threads |-> "none"]
  /\ story = [t \in Threads |-> NoStory]
  /\ torn = {}
  /\ faults = MaxFaults

Goto(t, stage) == pc' = [pc EXCEPT ![t] = stage]
Fault == faults > 0 /\ faults' = faults - 1

(* The catch clause: the answer is decided, ROLLBACK comes next.           *)
Throw(t, result) ==
  /\ Goto(t, "rollback")
  /\ answer' = [answer EXCEPT ![t] = result]

-----------------------------------------------------------------------------
(***************************************************************************)
(* The client library.  With OPT_RECONNECT it opens a lost session again   *)
(* under the next statement, unless it believes a transaction to be open:  *)
(* then the statement fails, and it may forget the transaction.            *)
(***************************************************************************)
Reaches(t) == session[t] # "lost" \/ ~inTransaction[t]

(* The session the next statement runs on.                                 *)
SessionOf(t) == IF session[t] = "lost" THEN "plain" ELSE session[t]

Forgets(t) ==
  \E believes \in {inTransaction[t], FALSE} :
    inTransaction' = [inTransaction EXCEPT ![t] = believes]

Reopen(t) ==
  /\ session' = [session EXCEPT ![t] = "plain"]
  /\ inTransaction' = [inTransaction EXCEPT ![t] = FALSE]

(* ping and reconnect of DbConnection on a connection that may be lost;    *)
(* nobody looks at whether the reconnection succeeded.                     *)
PingAndReconnect(t) ==
  IF session[t] = "lost"
  THEN \/ Reopen(t)
       \/ Forgets(t) /\ UNCHANGED session
  ELSE UNCHANGED <<session, inTransaction>>

(* A statement that leaves the kind of its session as it is.               *)
Runs(t) ==
  /\ Reaches(t)
  /\ session' = [session EXCEPT ![t] = SessionOf(t)]
  /\ UNCHANGED inTransaction

(* Rows a statement of t sees.                                             *)
Visible(t) == table \cup pending[t]
Taken(t, code) == \E r \in Visible(t) : r.code = code

(***************************************************************************)
(* uk_short_links_code.  An entry is locked by the transaction that made   *)
(* it.  Who finds the entry of another asks for a shared lock on it, to    *)
(* see whether the code is a duplicate, and has it from the moment that    *)
(* transaction ends until its own does.  A new entry also has to wait for  *)
(* the shared locks of others.                                             *)
(***************************************************************************)
Entered(t, code) == \E r \in pending[t] : r.code = code
Undecided(t, code) == \E s \in Threads \ {t} : Entered(s, code)
Locked(t, code) == Undecided(t, code) \/ \E s \in Threads \ {t} : checking[s] = code

(* Without a transaction a statement is one, and its locks end with it.    *)
Keeps(t, code) ==
  checking' = [checking EXCEPT ![t] = IF SessionOf(t) = "transaction" THEN code ELSE None]

(* The code that the next statement of t enters into the index.            *)
Targets(t) == {r \in Visible(t) : r.id = id[t]}

Wanted(t) ==
  CASE pc[t] = "insert"                        -> request[t].code
    [] pc[t] = "update" /\ Targets(t) # {}     -> encodeBase62[id[t]]
    [] OTHER                                   -> None

-----------------------------------------------------------------------------
Arrive(t, wanted) ==
  /\ pc[t] = "idle"
  /\ nextId \in Ids
  /\ Goto(t, "ping")
  /\ request' = [request EXCEPT ![t] = wanted]
  /\ UNCHANGED <<server, inTransaction, id, record, answer, copied, story, torn,
                 faults>>

(* The response goes out and the variables of the request go out of scope; *)
(* nobody reads LAST_INSERT_ID() before the next INSERT sets it.           *)
Respond(t) ==
  /\ pc[t] = "respond"
  /\ Goto(t, "idle")
  /\ request' = [request EXCEPT ![t] = None]
  /\ id' = [id EXCEPT ![t] = 0]
  /\ record' = [record EXCEPT ![t] = None]
  /\ answer' = [answer EXCEPT ![t] = "none"]
  /\ story' = [story EXCEPT ![t] = NoStory]
  /\ lastInsertId' = [lastInsertId EXCEPT ![t] = 0]
  /\ UNCHANGED <<table, nextId, session, pending, checking, inTransaction, copied,
                 torn, faults>>

(* DbConnectionPool::getConnection; a reconnection that throws ends the    *)
(* request without a connection to roll back on.                           *)
GetConnection(t) ==
  /\ pc[t] = "ping"
  /\ PingAndReconnect(t)
  /\ \/ /\ Goto(t, "start")
        /\ UNCHANGED answer
     \/ /\ session'[t] = "lost"
        /\ Goto(t, "respond")
        /\ answer' = [answer EXCEPT ![t] = "failed"]
  /\ UNCHANGED <<table, nextId, pending, checking, lastInsertId, request, id,
                 record, copied, story, torn, faults>>

(* The transaction of t, if it has one, becomes permanent.                 *)
MakePermanent(t) ==
  /\ table' = table \cup pending[t]
  /\ pending' = [pending EXCEPT ![t] = {}]
  /\ checking' = [checking EXCEPT ![t] = None]

(* Slip: create runs its statements without a transaction.                 *)
StartTransactionNot(t) ==
  /\ pc[t] = "start"
  /\ Runs(t)
  /\ Goto(t, "insert")
  /\ UNCHANGED <<table, nextId, pending, checking, lastInsertId, request, id, record,
                 answer, copied, story, torn, faults>>

(* START TRANSACTION commits what was left open on the connection.         *)
StartTransaction(t) ==
  /\ pc[t] = "start"
  /\ Reaches(t)
  /\ MakePermanent(t)
  /\ session' = [session EXCEPT ![t] = "transaction"]
  /\ inTransaction' = [inTransaction EXCEPT ![t] = TRUE]
  /\ Goto(t, "insert")
  /\ UNCHANGED <<nextId, lastInsertId, request, id, record, answer, copied,
                 story, torn, faults>>

(* A new row goes into the transaction, or without one into the table.     *)
Insert(t) ==
  LET row == [id |-> nextId, owner |-> request[t].owner, code |-> request[t].code]
      inside == SessionOf(t) = "transaction"
  IN  /\ pc[t] = "insert"
      /\ nextId \in Ids
      /\ Runs(t)
      /\ row.code # None => ~Locked(t, row.code) /\ ~Taken(t, row.code)
      /\ nextId' = nextId + 1
      /\ pending' = IF inside THEN [pending EXCEPT ![t] = @ \cup {row}] ELSE pending
      /\ table' = IF inside THEN table ELSE table \cup {row}
      /\ torn' = IF inside THEN torn ELSE torn \cup {nextId}
      /\ Keeps(t, checking[t])
      /\ lastInsertId' = [lastInsertId EXCEPT ![t] = nextId]
      /\ story' = [story EXCEPT ![t].made = nextId]
      /\ Goto(t, "last_id")
      /\ UNCHANGED <<request, id, record, answer, copied, faults>>

(* uk_short_links_code refuses the row; the id is used up.                 *)
InsertRefused(t) ==
  /\ pc[t] = "insert"
  /\ nextId \in Ids
  /\ Runs(t)
  /\ request[t].code # None
  /\ ~Undecided(t, request[t].code)
  /\ Taken(t, request[t].code)
  /\ Keeps(t, request[t].code)
  /\ nextId' = nextId + 1
  /\ Throw(t, "conflict")
  /\ UNCHANGED <<table, pending, lastInsertId, request, id, record, copied,
                 story, torn, faults>>

(* Slip: a code is made of the id for every link, also for one with a      *)
(* custom code.                                                            *)
ReadLastInsertIdAlwaysUpdates(t) ==
  /\ pc[t] = "last_id"
  /\ Runs(t)
  /\ id' = [id EXCEPT ![t] = lastInsertId[t]]
  /\ Goto(t, "update")
  /\ UNCHANGED <<table, nextId, pending, checking, lastInsertId, request, record,
                 answer, copied, story, torn, faults>>

(* LAST_INSERT_ID() of the session: 0 in a new one.                        *)
ReadLastInsertId(t) ==
  /\ pc[t] = "last_id"
  /\ Runs(t)
  /\ id' = [id EXCEPT ![t] = lastInsertId[t]]
  /\ Goto(t, IF request[t].code = None THEN "update" ELSE "read")
  /\ UNCHANGED <<table, nextId, pending, checking, lastInsertId, request, record,
                 answer, copied, story, torn, faults>>

WithCode(rows, t) ==
  {IF r.id = id[t] THEN [r EXCEPT !.code = encodeBase62[id[t]]] ELSE r : r \in rows}

(* UPDATE short_links SET code = ? WHERE id = ?, of no row or of one.      *)
AssignCode(t) ==
  /\ pc[t] = "update"
  /\ Runs(t)
  /\ Targets(t) # {} =>
       ~Locked(t, encodeBase62[id[t]]) /\ ~Taken(t, encodeBase62[id[t]])
  /\ table' = WithCode(table, t)
  /\ pending' = [pending EXCEPT ![t] = WithCode(@, t)]
  /\ Keeps(t, checking[t])
  /\ Goto(t, "read")
  /\ UNCHANGED <<nextId, lastInsertId, request, id, record, answer, copied,
                 story, torn, faults>>

(* Somebody has asked for the very code that the id gives: an exception of *)
(* a request without custom code is no ShortCodeConflict.                  *)
AssignRefused(t) ==
  /\ pc[t] = "update"
  /\ Runs(t)
  /\ Targets(t) # {}
  /\ ~Undecided(t, encodeBase62[id[t]])
  /\ Taken(t, encodeBase62[id[t]])
  /\ Keeps(t, encodeBase62[id[t]])
  /\ Throw(t, "failed")
  /\ UNCHANGED <<table, nextId, pending, lastInsertId, request, id, record,
                 copied, story, torn, faults>>

ReadRecord(t) ==
  /\ pc[t] = "read"
  /\ Runs(t)
  /\ \/ /\ Targets(t) = {}
        /\ Throw(t, "failed")
        /\ UNCHANGED record
     \/ \E r \in Targets(t) :
          /\ record' = [record EXCEPT ![t] = r]
          /\ Goto(t, "commit")
          /\ UNCHANGED answer
  /\ UNCHANGED <<table, nextId, pending, checking, lastInsertId, request, id, copied,
                 story, torn, faults>>

(* The entry is there, and not yet for good: the statement waits.          *)
AwaitEntry(t) ==
  /\ Wanted(t) # None /\ checking[t] = None
  /\ Undecided(t, Wanted(t))
  /\ Runs(t)
  /\ checking' = [checking EXCEPT ![t] = Wanted(t)]
  /\ UNCHANGED <<table, nextId, pending, lastInsertId, pc, request, id, record,
                 answer, copied, story, torn, faults>>

-----------------------------------------------------------------------------
(* COMMIT also succeeds where no transaction is open.                      *)
Commit(t) ==
  /\ pc[t] = "commit"
  /\ Reaches(t)
  /\ MakePermanent(t)
  /\ Reopen(t)
  /\ Goto(t, "respond")
  /\ answer' = [answer EXCEPT ![t] = "created"]
  /\ UNCHANGED <<nextId, lastInsertId, request, id, record, copied, story,
                 torn, faults>>

(* The session ends after the COMMIT and before its reply.                 *)
CommitUnanswered(t) ==
  /\ pc[t] = "commit"
  /\ session[t] # "lost"
  /\ Fault
  /\ MakePermanent(t)
  /\ session' = [session EXCEPT ![t] = "lost"]
  /\ Forgets(t)
  /\ Throw(t, "failed")
  /\ lastInsertId' = [lastInsertId EXCEPT ![t] = 0]
  /\ story' = [story EXCEPT ![t].doubtful = TRUE]
  /\ UNCHANGED <<nextId, request, id, record, copied, torn>>

(* Slip: an exception of COMMIT is swallowed like one of ROLLBACK.         *)
StatementFailsUnlessCommit(t) ==
  /\ pc[t] \in Inside \cup {"start"}
  /\ session[t] = "lost"
  /\ Forgets(t)
  /\ Throw(t, IF pc[t] = "commit" THEN "created" ELSE "failed")
  /\ UNCHANGED <<server, request, id, record, copied, story, torn, faults>>

(* A statement on a lost session throws.                                   *)
StatementFails(t) ==
  /\ pc[t] \in Inside \cup {"start"}
  /\ session[t] = "lost"
  /\ Forgets(t)
  /\ Throw(t, "failed")
  /\ UNCHANGED <<server, request, id, record, copied, story, torn, faults>>

(* The lock on a code is waited for, and the wait takes too long.          *)
LockWaitTimesOut(t) ==
  /\ Wanted(t) # None
  /\ Locked(t, Wanted(t))
  /\ session[t] # "lost"
  /\ Fault
  /\ Keeps(t, checking[t])
  /\ Throw(t, "failed")
  /\ UNCHANGED <<table, nextId, session, pending, lastInsertId, inTransaction, request,
                 id, record, copied, story, torn>>

(* The entry that t waited for was rolled back, and t has the shared lock. *)
Inherits(t) ==
  /\ checking[t] # None /\ Wanted(t) = checking[t]
  /\ ~Undecided(t, Wanted(t)) /\ ~Taken(t, Wanted(t))

(* InnoDB finds that the shared locks of t and another stand in the way of *)
(* both their entries (of one code, or of two with no entry between them), *)
(* and rolls one of the transactions back.                                 *)
DeadlockFound(t) ==
  /\ Inherits(t)
  /\ \E s \in Threads \ {t} : Inherits(s)
  /\ session' = [session EXCEPT ![t] = "plain"]
  /\ pending' = [pending EXCEPT ![t] = {}]
  /\ checking' = [checking EXCEPT ![t] = None]
  /\ Throw(t, "failed")
  /\ UNCHANGED <<table, nextId, lastInsertId, inTransaction, request, id, record,
                 copied, story, torn, faults>>

(* Slip: the catch clause does not roll back.                              *)
RollbackForgotten(t) ==
  /\ pc[t] = "rollback"
  /\ Goto(t, "respond")
  /\ UNCHANGED <<server, inTransaction, request, id, record, answer, copied,
                 story, torn, faults>>

(* ROLLBACK; an exception of it is swallowed, and the connection goes back *)
(* to the pool as it is.                                                   *)
Rollback(t) ==
  /\ pc[t] = "rollback"
  /\ IF Reaches(t) THEN Reopen(t) ELSE Forgets(t) /\ UNCHANGED session
  /\ pending' = [pending EXCEPT ![t] = {}]
  /\ checking' = [checking EXCEPT ![t] = None]
  /\ Goto(t, "respond")
  /\ UNCHANGED <<table, nextId, lastInsertId, request, id, record, answer,
                 copied, story, torn, faults>>

-----------------------------------------------------------------------------
(* MySQL or the network ends a session; the server rolls back.             *)
SessionLost(t) ==
  /\ session[t] # "lost"
  /\ Fault
  /\ session' = [session EXCEPT ![t] = "lost"]
  /\ pending' = [pending EXCEPT ![t] = {}]
  /\ checking' = [checking EXCEPT ![t] = None]
  /\ lastInsertId' = [lastInsertId EXCEPT ![t] = 0]
  /\ UNCHANGED <<table, nextId, client, copied, story, torn>>

(***************************************************************************)
(* The checker thread copies the idle connections under the mutex of the   *)
(* pool and visits them without it: by then a request may have taken one.  *)
(***************************************************************************)
CheckerCopies ==
  /\ copied = {}
  /\ copied' = {t \in Threads : pc[t] = "idle"}
  /\ UNCHANGED <<server, client, story, torn, faults>>

CheckerVisits(t) ==
  /\ t \in copied
  /\ copied' = copied \ {t}
  /\ PingAndReconnect(t)
  /\ story' = IF pc[t] \in Inside /\ session[t] = "lost"
              THEN [story EXCEPT ![t].disturbed = TRUE] ELSE story
  /\ UNCHANGED <<table, nextId, pending, checking, lastInsertId, pc, request, id,
                 record, answer, torn, faults>>

-----------------------------------------------------------------------------
(* What a thread does by itself, once the request is there.                *)
Work(t) ==
  \/ GetConnection(t) \/ StartTransaction(t) \/ Insert(t) \/ InsertRefused(t)
  \/ AwaitEntry(t) \/ ReadLastInsertId(t) \/ AssignCode(t) \/ AssignRefused(t)
  \/ ReadRecord(t) \/ Commit(t) \/ StatementFails(t) \/ Rollback(t) \/ Respond(t)

Next ==
  \/ \E t \in Threads :
       \/ \E wanted \in Requests : Arrive(t, wanted)
       \/ Work(t) \/ CommitUnanswered(t) \/ LockWaitTimesOut(t) \/ DeadlockFound(t)
       \/ SessionLost(t) \/ CheckerVisits(t)
  \/ CheckerCopies

Spec == Init /\ [][Next]_vars

-----------------------------------------------------------------------------
TypeOK ==
  /\ table \subseteq Link
  /\ nextId \in 1..MaxRequests + 1
  /\ session \in [Threads -> Sessions]
  /\ pending \in [Threads -> SUBSET Link]
  /\ checking \in [Threads -> Codes \cup {None}]
  /\ lastInsertId \in [Threads -> Ids \cup {0}]
  /\ inTransaction \in [Threads -> BOOLEAN]
  /\ copied \subseteq Threads
  /\ pc \in [Threads -> Stages]
  /\ request \in [Threads -> Requests \cup {None}]
  /\ id \in [Threads -> Ids \cup {0}]
  /\ record \in [Threads -> Link \cup {None}]
  /\ answer \in [Threads -> Answers]
  /\ story \in [Threads -> Story]
  /\ torn \subseteq Ids
  /\ faults \in 0..MaxFaults

(* The code a create has to give its link.                                 *)
CodeDue(t) ==
  IF request[t].code = None THEN encodeBase62[record[t].id] ELSE request[t].code

(***************************************************************************)
(* Who is told 201 is told of a link of its own with the code asked for,   *)
(* or that of its id, and the link is committed; whatever sessions are     *)
(* lost, unless the checker thread reconnects the connection between two   *)
(* statements of the create.  Even then what is told is true but that the  *)
(* row may have been rolled back before, if it was inserted in the         *)
(* transaction.                                                            *)
(***************************************************************************)
CreatedIsStored ==
  \A t \in Threads : answer[t] = "created" =>
    /\ record[t].owner = request[t].owner
    /\ record[t].code = CodeDue(t)
    /\ ~story[t].disturbed \/ record[t].id \in torn => record[t] \in table

(***************************************************************************)
(* Who is told 409 or 500 has left nothing behind, but for a COMMIT whose  *)
(* reply was lost, and but for a row whose INSERT ran outside of its       *)
(* transaction, because the checker thread had replaced the session.       *)
(***************************************************************************)
FailedLeavesNothing ==
  \A t \in Threads :
    answer[t] \in {"conflict", "failed"} /\ ~story[t].doubtful =>
      \A r \in table :
        r.id = story[t].made => story[t].disturbed /\ r.id \in torn

(* A 409 is never said of a code that nobody has, whatever has failed.     *)
ConflictIsReal ==
  \A t \in Threads : answer[t] = "conflict" => \E r \in table : r.code = request[t].code

(***************************************************************************)
(* Every link that readers can see is whole: it has a code, no other link  *)
(* has it, and no two links share an id.  Only rows that were inserted     *)
(* outside their transaction may be without a code.                        *)
(***************************************************************************)
LinksAreWhole ==
  /\ \A r \in table : r.code = None => r.id \in torn
  /\ \A r, s \in table : r.id = s.id \/ (r.code = s.code /\ r.code # None) => r = s

(***************************************************************************)
(* Whoever has entered a code waits for no other create.  Creates that do  *)
(* wait while others wait for them - in a circle, which InnoDB breaks by   *)
(* failing one - have entered none, and hold no more than the lock of a    *)
(* duplicate check, for the very code they wait for.                       *)
(***************************************************************************)
Hinders(s, t) == Entered(s, Wanted(t)) \/ checking[s] # None

HoldersGoOn ==
  \A s, t \in Threads :
    s # t /\ Wanted(t) # None /\ Hinders(s, t) /\ Wanted(s) # None =>
      /\ \A r \in pending[s] : r.code = None
      /\ checking[s] = Wanted(s)

-----------------------------------------------------------------------------
(***************************************************************************)
(* The inductive strengthening.  An open transaction belongs to a create   *)
(* that nothing has disturbed; it holds nothing but the row of the create, *)
(* and what the create remembers of the row is true or has been reset.     *)
(***************************************************************************)
Begun(t) == pc[t] \notin {"idle", "ping", "start"}
Inserted(t) == pc[t] \in {"last_id", "update", "read", "commit"}

(* The session of the create.                                              *)
SessionInv(t) ==
  /\ session[t] # "transaction" => pending[t] = {}
  /\ session[t] = "transaction" =>
       /\ pc[t] \in Inside \cup {"rollback"}
       /\ ~story[t].disturbed
       /\ ~story[t].doubtful
  /\ pc[t] \in Inside /\ ~story[t].disturbed => session[t] # "plain" /\ inTransaction[t]

(* The variables of the create.                                            *)
StageInv(t) ==
  /\ pc[t] = "idle" <=> request[t] = None
  /\ ~Begun(t) => story[t] = NoStory
  /\ pc[t] = "insert" => story[t].made = 0
  /\ story[t].doubtful => pc[t] \in {"rollback", "respond"} /\ answer[t] = "failed"
  /\ pc[t] \notin {"rollback", "respond"} <=> answer[t] = "none"
  /\ pc[t] = "rollback" => answer[t] # "created"
  /\ answer[t] = "conflict" => request[t].code # None
  /\ pc[t] = "update" => request[t].code = None
  /\ story[t].made < nextId
  /\ lastInsertId[t] \in {0, story[t].made}
  /\ id[t] \in {0, story[t].made}

(* The row of the create, while its transaction is open.                   *)
RowInv(t) ==
  /\ \A r \in pending[t] :
       /\ r.id = story[t].made
       /\ r.owner = request[t].owner
       /\ \/ r.code = request[t].code
          \/ request[t].code = None /\ r.code = encodeBase62[r.id]
       /\ r.id \notin torn
  /\ session[t] = "transaction" =>
       /\ pc[t] = "insert" => pending[t] = {}
       /\ Inserted(t) => pending[t] # {}
       /\ pc[t] = "last_id" => lastInsertId[t] = story[t].made
       /\ Inserted(t) /\ pc[t] # "last_id" => id[t] = story[t].made
       /\ pc[t] \in {"read", "commit"} => \A r \in pending[t] : r.code # None
       /\ pc[t] = "commit" => pending[t] = {record[t]}
  /\ pc[t] \in {"last_id", "update"} =>
       \A r \in Visible(t) : r.id = story[t].made => r.code = request[t].code

(* The rows of the table, and those that may come.                         *)
TableInv ==
  /\ \A r \in table : r.id < nextId
  /\ \A i \in torn : i < nextId
  /\ \A t \in Threads : \A r \in table : r.id = story[t].made =>
       \/ story[t].disturbed /\ r.id \in torn
       \/ story[t].doubtful
       \/ answer[t] = "created"
  /\ \A s, t \in Threads : s # t /\ story[s].made = story[t].made => story[s].made = 0
  /\ \A t \in Threads : \A r \in pending[t] :
       r.code # None =>
         /\ \A q \in table : q.code # r.code
         /\ \A s \in Threads \ {t} : \A q \in pending[s] : q.code # r.code

Inv ==
  /\ TypeOK
  /\ \A t \in Threads : SessionInv(t) /\ StageInv(t) /\ RowInv(t)
  /\ TableInv
  /\ ConflictIsReal
  /\ LinksAreWhole

(***************************************************************************)
(* What the create reads back is true of its row, in a transaction or not, *)
(* and its duplicate check is for the code it is about to enter.           *)
(***************************************************************************)
RecordInv(t) ==
  /\ \A r \in Visible(t) : r.id = story[t].made =>
       /\ r.owner = request[t].owner
       /\ \/ r.code = request[t].code
          \/ request[t].code = None /\ r.code = encodeBase62[r.id]
  /\ pc[t] \in {"read", "commit"} =>
       \A r \in Visible(t) : r.id = id[t] => r.code # None
  /\ pc[t] = "commit" \/ answer[t] = "created" =>
       /\ record[t].id = story[t].made
       /\ record[t].owner = request[t].owner
       /\ record[t].code = CodeDue(t)
       /\ record[t].id \in torn => record[t] \in table

CheckInv(t) ==
  checking[t] # None =>
    /\ pc[t] = "insert" => checking[t] = request[t].code
    /\ pc[t] = "last_id" => request[t].code # None
    /\ pc[t] = "update" => checking[t] = encodeBase62[id[t]]

AnswerInv ==
  /\ \A t \in Threads : RecordInv(t) /\ CheckInv(t)
  /\ CreatedIsStored
=============================================================================
