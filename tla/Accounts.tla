------------------------------ MODULE Accounts ------------------------------
(***************************************************************************)
(* Accounts, sessions and what a session permits: the handlers of AuthHttp *)
(* on AuthService and MySqlAuthRepository, statement by statement, and the *)
(* way of POST /api/short-links through authentication and the rate limit  *)
(* to the repository (whose transaction is the module ShortLinkCreate).    *)
(*                                                                         *)
(* A client is a person with a password of its own; a password hash is     *)
(* known by the client it fits.  A token is the number of its session:     *)
(* 32 random bytes do not come twice.                                      *)
(***************************************************************************)
EXTENDS RateLimiter, Sequences

CONSTANTS
  Threads,        \* I/O threads, and their connections
  Clients,
  Names,          \* user names as they are spelled
  normalize,      \* normalizeUsername
  Requests,       \* what clients may ask for
  SessionTtl,     \* sessionTtlSeconds_
  None,
  MaxRequests,    \* bound: requests in a behaviour
  MaxFaults,      \* bound: failures of MySQL and Redis
  Pauses,         \* milliseconds that may pass between two steps
  MaxTime         \* bound: milliseconds

Kinds == {"register", "login", "logout", "create"}

ASSUME AccountsAssumption ==
  /\ normalize \in [Names -> Names]
  /\ Requests \subseteq [kind : Kinds, client : Clients, name : Names]
  /\ SessionTtl \in Nat \ {0}
  /\ None \notin Requests
  /\ Pauses \subseteq Nat
  /\ MaxRequests \in Nat /\ MaxFaults \in Nat /\ MaxTime \in Nat

VARIABLES
  users,          \* table users: the row of id i is the i-th
  sessions,       \* table user_sessions: the row of token i is the i-th
  links,          \* owner of each new link, and who asked for it
  lastInsertId,   \* LAST_INSERT_ID() of each connection
  key,            \* the counter in Redis
  clock,
  issued,         \* tokens each client has been sent
  pc, request, token, user, answer,  \* of each thread
  closed,         \* history: tokens whose logout was answered
  late,           \* history: the request arrived when its session had ended
  admitted,       \* history: when Redis allowed creates
  promises,       \* history: what 429 answers of this window promised
  requests, faults  \* what may still come

database == <<users, sessions, links>>
work == <<request, late>>
limiter == <<key, admitted, promises>>
vars == <<database, lastInsertId, limiter, clock, issued, pc, work, token, user,
          answer, closed, requests, faults>>

-----------------------------------------------------------------------------
Stages == {"idle", "insert_user", "select_user", "find_user", "insert_session",
           "authenticate", "limit", "create", "revoke", "respond"}
Answers == {"none", "signed_in", "done", "conflict", "denied", "limited", "failed"}

Users == 1..Len(users)

(* A counter may have been left in Redis without a TTL.                    *)
Init ==
  /\ users = <<>>
  /\ sessions = <<>>
  /\ links = {}
  /\ lastInsertId = [t \in Threads |-> 0]
  /\ key \in {NoCounter, [count |-> Limit, deadline |-> NoTtl]}
  /\ clock = 0
  /\ issued = [c \in Clients |-> {}]
  /\ pc = [t \in Threads |-> "idle"]
  /\ request = [t \in Threads |-> None]
  /\ token = [t \in Threads |-> 0]
  /\ user = [t \in Threads |-> 0]
  /\ answer = [t \in Threads |-> "none"]
  /\ closed = {}
  /\ late = [t \in Threads |-> FALSE]
  /\ admitted = <<>>
  /\ promises = {}
  /\ requests = MaxRequests
  /\ faults = MaxFaults

Goto(t, stage) == pc' = [pc EXCEPT ![t] = stage]
Fault == faults > 0 /\ faults' = faults - 1

Answer(t, result) ==
  /\ Goto(t, "respond")
  /\ answer' = [answer EXCEPT ![t] = result]

(* A statement that has been executed: its reply arrives, or is lost.      *)
AnswerOrFail(t, result) ==
  \/ Answer(t, result) /\ UNCHANGED faults
  \/ Answer(t, "failed") /\ Fault

FirstStage(kind) ==
  CASE kind = "register" -> "insert_user"
    [] kind = "login"    -> "find_user"
    [] kind = "logout"   -> "revoke"
    [] kind = "create"   -> "authenticate"

nowEpochSeconds == clock \div Second

(* findUserBySession: joined with users, in one statement.                 *)
Lives(tok) ==
  /\ tok # 0
  /\ ~sessions[tok].revoked
  /\ nowEpochSeconds < sessions[tok].expiresAt
  /\ users[sessions[tok].user].active

(* The session is over for good.                                           *)
Ended(tok) ==
  \/ tok \in closed
  \/ nowEpochSeconds >= sessions[tok].expiresAt
  \/ ~users[sessions[tok].user].active

-----------------------------------------------------------------------------
(* A request with the cookie of one of the client's sessions, or none.     *)
Arrive(t, wanted, tok) ==
  /\ pc[t] = "idle"
  /\ requests > 0
  /\ tok \in {0} \cup issued[wanted.client]
  /\ wanted.kind \in {"register", "login"} => tok = 0
  /\ requests' = requests - 1
  /\ Goto(t, FirstStage(wanted.kind))
  /\ request' = [request EXCEPT ![t] = wanted]
  /\ token' = [token EXCEPT ![t] = tok]
  /\ late' = [late EXCEPT ![t] = tok # 0 /\ Ended(tok)]
  /\ UNCHANGED <<database, lastInsertId, limiter, clock, issued, user, answer,
                 closed, faults>>

(* setSessionCookie: the client has a token more.                          *)
SetSessionCookie(t) ==
  issued' = IF answer[t] = "signed_in"
            THEN [issued EXCEPT ![request[t].client] = @ \cup {token[t]}] ELSE issued

(* clearSessionCookie, with the 204 of a logout.                           *)
ClearSessionCookie(t) ==
  closed' = IF request[t].kind = "logout" /\ answer[t] = "done"
            THEN closed \cup ({token[t]} \ {0}) ELSE closed

Respond(t) ==
  /\ pc[t] = "respond"
  /\ Goto(t, "idle")
  /\ SetSessionCookie(t)
  /\ ClearSessionCookie(t)
  /\ request' = [request EXCEPT ![t] = None]
  /\ token' = [token EXCEPT ![t] = 0]
  /\ user' = [user EXCEPT ![t] = 0]
  /\ answer' = [answer EXCEPT ![t] = "none"]
  /\ late' = [late EXCEPT ![t] = FALSE]
  /\ UNCHANGED <<database, lastInsertId, limiter, clock, requests, faults>>

-----------------------------------------------------------------------------
NewUser(t) ==
  [name |-> normalize[request[t].name], password |-> request[t].client, active |-> TRUE]

NameTaken(name) == \E u \in Users : users[u].name = name

(* Slip: INSERT IGNORE, and the SELECT tells what became of it.            *)
InsertUserIgnoring(t) ==
  /\ pc[t] = "insert_user"
  /\ IF NameTaken(NewUser(t).name)
     THEN UNCHANGED <<users, lastInsertId>>
     ELSE /\ users' = Append(users, NewUser(t))
          /\ lastInsertId' = [lastInsertId EXCEPT ![t] = Len(users) + 1]
  /\ Goto(t, "select_user")
  /\ UNCHANGED <<sessions, links, limiter, clock, issued, work, token, user,
                 answer, closed, requests, faults>>

(* createUser's INSERT; uk_users_username_normalized refuses a second one, *)
(* and the reply may be lost.                                              *)
InsertUser(t) ==
  /\ pc[t] = "insert_user"
  /\ IF NameTaken(NewUser(t).name)
     THEN Answer(t, "conflict") /\ UNCHANGED <<users, lastInsertId, faults>>
     ELSE /\ users' = Append(users, NewUser(t))
          /\ lastInsertId' = [lastInsertId EXCEPT ![t] = Len(users) + 1]
          /\ \/ Goto(t, "select_user") /\ UNCHANGED <<answer, faults>>
             \/ Answer(t, "failed") /\ Fault
  /\ UNCHANGED <<sessions, links, limiter, clock, issued, work, token, user,
                 closed, requests>>

(* createUser's SELECT: outside a transaction, its session may be another. *)
SelectUser(t) ==
  /\ pc[t] = "select_user"
  /\ IF lastInsertId[t] = 0
     THEN Answer(t, "failed") /\ UNCHANGED user
     ELSE /\ user' = [user EXCEPT ![t] = lastInsertId[t]]
          /\ Goto(t, "insert_session")
          /\ UNCHANGED answer
  /\ UNCHANGED <<database, lastInsertId, limiter, clock, issued, work, token,
                 closed, requests, faults>>

Credentials(name) == {u \in Users : users[u].name = name}

(* login: findCredentials, PasswordHasher::verify and the status.          *)
FindUser(t) ==
  LET fits == {u \in Credentials(normalize[request[t].name]) :
                 users[u].active /\ users[u].password = request[t].client}
  IN  /\ pc[t] = "find_user"
      /\ IF fits = {}
         THEN Answer(t, "denied") /\ UNCHANGED user
         ELSE /\ \E u \in fits : user' = [user EXCEPT ![t] = u]
              /\ Goto(t, "insert_session")
              /\ UNCHANGED answer
      /\ UNCHANGED <<database, lastInsertId, limiter, clock, issued, work, token,
                     closed, requests, faults>>

NewSession(t) ==
  [user |-> user[t], revoked |-> FALSE, expiresAt |-> nowEpochSeconds + SessionTtl]

(* createSession: a new token, and its row.                                *)
InsertSession(t) ==
  /\ pc[t] = "insert_session"
  /\ sessions' = Append(sessions, NewSession(t))
  /\ token' = [token EXCEPT ![t] = Len(sessions) + 1]
  /\ AnswerOrFail(t, "signed_in")
  /\ UNCHANGED <<users, links, lastInsertId, limiter, clock, issued, work, user,
                 closed, requests>>

(* Slip: the cookie is cleared and 204 said even if MySQL fails.           *)
RevokeOrIgnore(t) ==
  /\ pc[t] = "revoke"
  /\ \/ /\ sessions' = IF token[t] = 0 THEN sessions
                       ELSE [sessions EXCEPT ![token[t]].revoked = TRUE]
        /\ UNCHANGED faults
     \/ Fault /\ UNCHANGED sessions
  /\ Answer(t, "done")
  /\ UNCHANGED <<users, links, lastInsertId, limiter, clock, issued, work, token,
                 user, closed, requests>>

(* DELETE /api/auth/session: 204 also without a session.                   *)
Revoke(t) ==
  /\ pc[t] = "revoke"
  /\ IF token[t] = 0
     THEN Answer(t, "done") /\ UNCHANGED <<sessions, faults>>
     ELSE /\ sessions' = [sessions EXCEPT ![token[t]].revoked = TRUE]
          /\ AnswerOrFail(t, "done")
  /\ UNCHANGED <<users, links, lastInsertId, limiter, clock, issued, work, token,
                 user, closed, requests>>

-----------------------------------------------------------------------------
(* requireAuthenticatedUser.                                               *)
Authenticate(t) ==
  /\ pc[t] = "authenticate"
  /\ IF Lives(token[t])
     THEN /\ user' = [user EXCEPT ![t] = sessions[token[t]].user]
          /\ Goto(t, "limit")
          /\ UNCHANGED answer
     ELSE Answer(t, "denied") /\ UNCHANGED user
  /\ UNCHANGED <<database, lastInsertId, limiter, clock, issued, work, token,
                 closed, requests, faults>>

(* The script runs.  The promises of an expired counter were kept.         *)
Count ==
  /\ key' = Counted(key, clock)
  /\ LET kept == IF Alive(key, clock) THEN promises ELSE {}
     IN  promises' = IF Allowed(key') THEN kept
                     ELSE kept \cup {clock + RetryAfter(key', clock) * Second}

CheckRate(t) ==
  /\ pc[t] = "limit"
  /\ Count
  /\ IF Allowed(key')
     THEN /\ admitted' = Append(admitted, clock)
          /\ Goto(t, "create")
          /\ UNCHANGED answer
     ELSE Answer(t, "limited") /\ UNCHANGED admitted
  /\ UNCHANGED <<database, lastInsertId, clock, issued, work, token, user, closed,
                 requests, faults>>

(* Without an answer of Redis the create goes on; it may have been counted.*)
CheckRateFails(t) ==
  /\ pc[t] = "limit"
  /\ Fault
  /\ \/ UNCHANGED <<key, promises>>
     \/ /\ key' = Counted(key, clock)
        /\ promises' = IF Alive(key, clock) THEN promises ELSE {}
  /\ Goto(t, "create")
  /\ UNCHANGED <<database, lastInsertId, admitted, clock, issued, work, token, user,
                 answer, closed, requests>>

CreateLink(t) ==
  /\ pc[t] = "create"
  /\ links' = links \cup {[owner |-> user[t], by |-> request[t].client]}
  /\ AnswerOrFail(t, "done")
  /\ UNCHANGED <<users, sessions, lastInsertId, limiter, clock, issued, work, token,
                 user, closed, requests>>

-----------------------------------------------------------------------------
(* MySQL refuses, or cannot be reached: the exception ends the request.    *)
StatementFails(t) ==
  /\ pc[t] \notin {"idle", "limit", "respond"}
  /\ pc[t] # "revoke" \/ token[t] # 0
  /\ Fault
  /\ Answer(t, "failed")
  /\ UNCHANGED <<database, lastInsertId, limiter, clock, issued, work, token, user,
                 closed, requests>>

(* The session of a connection is lost and opened again.                   *)
Reconnect(t) ==
  /\ lastInsertId[t] # 0
  /\ Fault
  /\ lastInsertId' = [lastInsertId EXCEPT ![t] = 0]
  /\ UNCHANGED <<database, limiter, clock, issued, pc, work, token, user, answer,
                 closed, requests>>

(* An operator disables a user.                                            *)
Disable(u) ==
  /\ u \in Users
  /\ users[u].active
  /\ Fault
  /\ users' = [users EXCEPT ![u].active = FALSE]
  /\ UNCHANGED <<sessions, links, lastInsertId, limiter, clock, issued, pc, work,
                 token, user, answer, closed, requests>>

Tick ==
  /\ \E pause \in Pauses : clock' = clock + pause
  /\ clock' <= MaxTime
  /\ UNCHANGED <<database, lastInsertId, limiter, issued, pc, work, token, user,
                 answer, closed, requests, faults>>

Next ==
  \/ \E t \in Threads :
       \/ \E wanted \in Requests : \E tok \in 0..Len(sessions) : Arrive(t, wanted, tok)
       \/ InsertUser(t) \/ SelectUser(t) \/ FindUser(t) \/ InsertSession(t) \/ Revoke(t)
       \/ Authenticate(t) \/ CheckRate(t) \/ CheckRateFails(t) \/ CreateLink(t)
       \/ StatementFails(t) \/ Reconnect(t) \/ Respond(t)
  \/ \E u \in Users : Disable(u)
  \/ Tick

Spec == Init /\ [][Next]_vars

-----------------------------------------------------------------------------
TypeOK ==
  /\ users \in Seq([name : Names, password : Clients, active : BOOLEAN])
  /\ sessions \in Seq([user : Users, revoked : BOOLEAN, expiresAt : Nat])
  /\ links \subseteq [owner : Users, by : Clients]
  /\ lastInsertId \in [Threads -> Users \cup {0}]
  /\ key \in [count : Nat, deadline : Nat]
  /\ clock \in 0..MaxTime
  /\ issued \in [Clients -> SUBSET DOMAIN sessions]
  /\ pc \in [Threads -> Stages]
  /\ request \in [Threads -> Requests \cup {None}]
  /\ token \in [Threads -> DOMAIN sessions \cup {0}]
  /\ user \in [Threads -> Users \cup {0}]
  /\ answer \in [Threads -> Answers]
  /\ closed \subseteq DOMAIN sessions
  /\ late \in [Threads -> BOOLEAN]
  /\ admitted \in Seq(0..MaxTime)
  /\ promises \subseteq Nat
  /\ requests \in 0..MaxRequests
  /\ faults \in 0..MaxFaults

(***************************************************************************)
(* Nobody acts in another's name: a session that a client was sent belongs *)
(* to the account that was made or opened with that client's password, and *)
(* so does every link created with it; although createUser reads the new   *)
(* row back through LAST_INSERT_ID() of a pooled connection.               *)
(***************************************************************************)
AccountsAreSeparate ==
  /\ \A c \in Clients : \A tok \in issued[c] : users[sessions[tok].user].password = c
  /\ \A link \in links : users[link.owner].password = link.by

(***************************************************************************)
(* A request that arrives after its session has expired, after the answer  *)
(* to a logout, or after the user was disabled, is not let through.        *)
(***************************************************************************)
EndedSessionsAreDead ==
  \A t \in Threads : late[t] => user[t] = 0

(***************************************************************************)
(* The windows of the limiter follow one another, and each begins with a   *)
(* request that counts: Redis never admits 2 * Limit creates within less   *)
(* than a window.  (Creates let through because it failed are not counted.)*)
(***************************************************************************)
NoBurst ==
  \A i \in 1..Len(admitted) - (2 * Limit - 1) :
    admitted[i + 2 * Limit - 1] - admitted[i] >= WindowMs

(***************************************************************************)
(* The window in which a create was refused is over less than half a       *)
(* second after the time that its Retry-After named, whatever is counted   *)
(* in the meantime: TTL may round that half second off, and no more.       *)
(***************************************************************************)
WindowEndsAsTold ==
  \A time \in promises : key.deadline # NoTtl /\ key.deadline < time + Second \div 2

-----------------------------------------------------------------------------
(***************************************************************************)
(* The inductive strengthening.  StageInv says what a thread knows at each *)
(* stage of a request, OwnInv that all it works with is of the client who  *)
(* asked; a logout was answered only when its session was revoked.         *)
(***************************************************************************)
StageKind ==
  [insert_user |-> {"register"}, select_user |-> {"register"},
   find_user |-> {"login"}, insert_session |-> {"register", "login"},
   authenticate |-> {"create"}, limit |-> {"create"}, create |-> {"create"},
   revoke |-> {"logout"}, respond |-> Kinds]

StageInv(t) ==
  /\ pc[t] = "idle" => /\ request[t] = None /\ token[t] = 0 /\ user[t] = 0
                       /\ ~late[t]
  /\ pc[t] # "idle" => /\ request[t] \in Requests
                       /\ request[t].kind \in StageKind[pc[t]]
  /\ pc[t] \in {"insert_user", "select_user", "find_user", "insert_session"} =>
       token[t] = 0 /\ ~late[t]
  /\ pc[t] \in {"insert_session", "limit", "create"} => user[t] # 0
  /\ pc[t] = "respond" /\ answer[t] = "signed_in" => token[t] # 0
  /\ (/\ pc[t] = "respond" /\ request[t].kind = "logout"
      /\ answer[t] = "done" /\ token[t] # 0) => sessions[token[t]].revoked
  /\ late[t] => user[t] = 0 /\ token[t] # 0 /\ Ended(token[t])

PasswordOf(u) == users[u].password

OwnInv(t) ==
  /\ pc[t] = "select_user" /\ lastInsertId[t] # 0 =>
       PasswordOf(lastInsertId[t]) = request[t].client
  /\ user[t] # 0 => PasswordOf(user[t]) = request[t].client
  /\ token[t] # 0 => PasswordOf(sessions[token[t]].user) = request[t].client

Inv ==
  /\ TypeOK
  /\ \A t \in Threads : StageInv(t) /\ OwnInv(t)
  /\ AccountsAreSeparate
  /\ \A tok \in closed : sessions[tok].revoked

(***************************************************************************)
(* The last window the limiter opened: since its start, opened, it has     *)
(* admitted the last `within` creates, and the first of them opened it     *)
(* unless one was counted and not admitted.  The creates before were over  *)
(* by then, all but the last Limit - 1 of them for a whole window.         *)
(***************************************************************************)
WindowInv(within) ==
  LET n == Len(admitted)
      opened == key.deadline - WindowMs
  IN  /\ within <= key.count /\ within <= Limit /\ within <= n
      /\ \A i \in 1..n : i > n - within => opened <= admitted[i]
      /\ within > 0 /\ (within = key.count \/ within = Limit) =>
           admitted[n - within + 1] = opened
      /\ \A i \in 1..n : i <= n - within => admitted[i] <= opened
      /\ \A i \in 1..n :
           i <= n - within - (Limit - 1) => admitted[i] <= opened - WindowMs

LimiterInv ==
  /\ key.deadline = NoTtl => admitted = <<>>
  /\ key.deadline # NoTtl =>
       /\ key.count > 0 /\ key.deadline <= clock + WindowMs
       /\ \E within \in 0..Limit : WindowInv(within)
  /\ \A i \in 1..Len(admitted) : admitted[i] <= clock
=============================================================================
