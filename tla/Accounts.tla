------------------------------ MODULE Accounts ------------------------------
(***************************************************************************)
(* The accounts of the web application: the tables users and sessions of   *)
(* app.sqlite3 (sylo/webapp/appdb.py), the session check every request     *)
(* begins with (auth.py, deps.py), and the handlers that log in and out    *)
(* and administer users (routes/auth.py, routes/users.py).                 *)
(*                                                                         *)
(* Handlers run in a thread pool, and each call into appdb is a connection *)
(* and a transaction of its own: what a handler has read may be stale when *)
(* it writes.  A step here is one such transaction.  Passwords, names and  *)
(* CSRF tokens are left out: a request that fails on one changes nothing   *)
(* here.                                                                   *)
(*                                                                         *)
(* Definitions whose names begin with Bad are faulty variants of the ones  *)
(* that follow them, used only to see the properties fail.                 *)
(***************************************************************************)
EXTENDS Integers, FiniteSets, Functions

CONSTANTS
    Threads,    \* threads of the pool
    Tokens,     \* session tokens; a token no row holds is as good as new
    MaxUsers,   \* bound: the largest users.id
    Nobody      \* no token

ASSUME AccountsAssumption ==
    /\ IsFiniteSet(Threads)
    /\ MaxUsers \in Nat \ {0}
    /\ Nobody \notin Tokens

VARIABLES
    users,      \* table users: by id, role and is_active
    sessions,   \* table sessions: by token, user_id
    expired,    \* tokens whose expires_at has passed
    req,        \* per thread, the request it handles
    raced       \* ghost: a user row was written while another handler was
                \* between its check of the rows and its own write

tables == <<users, sessions, expired>>
vars == <<tables, req, raced>>

Ids == 1..MaxUsers
Roles == {"admin", "viewer"}
Kinds == {"view", "logout", "create", "deactivate", "delete"}

\* late: ghost, the request began when its user was already deactivated.
\* reused: ghost, the id of its user was given to a new one between the two
\* reads of get_session(), as the user had been deleted.
Request == [step : {"idle", "login", "user", "drop", "handle", "count",
                    "disable", "revoke", "remove"},
            kind : Kinds, token : Tokens \cup {Nobody}, user : Ids \cup {0},
            target : Ids \cup {0}, late : BOOLEAN, reused : BOOLEAN]

NoRequest == [step |-> "idle", kind |-> "view", token |-> Nobody, user |-> 0,
              target |-> 0, late |-> FALSE, reused |-> FALSE]

ActiveAdmins ==
    {u \in DOMAIN users : users[u].role = "admin" /\ users[u].active}

At(th, step) == req[th].step = step
Goto(th, step) == req' = [req EXCEPT ![th].step = step]
Done(th) == req' = [req EXCEPT ![th] = NoRequest]

\* INSERT INTO a table: the row of key k.
Insert(table, k, row) ==
    [x \in DOMAIN table \cup {k} |-> IF x = k THEN row ELSE table[x]]

\* DELETE FROM sessions: the rows of ts.
Forget(ts) ==
    /\ sessions' = Restrict(sessions, DOMAIN sessions \ ts)
    /\ expired' = expired \ ts

SessionsOf(u) == {t \in DOMAIN sessions : sessions[t] = u}

\* Handlers that have checked the rows and will write what they decided.
Deciding == {th \in Threads : req[th].step \in {"disable", "remove"}}
WritesUsers(th) == raced' = (raced \/ Deciding \ {th} # {})

-----------------------------------------------------------------------------
\* First run: ensure_default_admin() made the only user.
DefaultAdmin == [u \in {1} |-> [role |-> "admin", active |-> TRUE]]

Init ==
    /\ users = DefaultAdmin
    /\ sessions = [t \in {} |-> 0]
    /\ expired = {}
    /\ req = [th \in Threads |-> NoRequest]
    /\ raced = FALSE

\* session_ttl_seconds have passed.
Expire ==
    /\ \E t \in DOMAIN sessions \ expired : expired' = expired \cup {t}
    /\ UNCHANGED <<users, sessions, req, raced>>

\* The process is restarted: requests end where they are.
Restart ==
    /\ req' = [th \in Threads |-> NoRequest]
    /\ users' = IF users = <<>> THEN DefaultAdmin ELSE users
    /\ UNCHANGED <<sessions, expired, raced>>

-----------------------------------------------------------------------------
(***************************************************************************)
(* Logging in.                                                             *)
(***************************************************************************)

\* authenticate(): the row of the user, who is active.
Authenticate(th) ==
    /\ At(th, "idle")
    /\ \E u \in DOMAIN users :
          /\ users[u].active
          /\ req' = [req EXCEPT ![th] = [NoRequest EXCEPT !.step = "login",
                                                          !.user = u]]
    /\ UNCHANGED <<tables, raced>>

\* Faulty: the row is inserted whether its user is there or not.
BadCreateSession(th) ==
    /\ At(th, "login")
    /\ \E t \in Tokens \ DOMAIN sessions :
          /\ \A other \in Threads : req[other].token # t
          /\ sessions' = Insert(sessions, t, req[th].user)
    /\ Done(th)
    /\ UNCHANGED <<users, expired, raced>>

\* create_session(): the foreign key refuses a user who is gone, and the
\* request ends in an error.
CreateSession(th) ==
    /\ At(th, "login")
    /\ IF req[th].user \in DOMAIN users
       THEN \E t \in Tokens \ DOMAIN sessions :
               /\ \A other \in Threads : req[other].token # t
               /\ sessions' = Insert(sessions, t, req[th].user)
       ELSE UNCHANGED sessions
    /\ Done(th)
    /\ UNCHANGED <<users, expired, raced>>

-----------------------------------------------------------------------------
(***************************************************************************)
(* get_session(), which every other request begins with.                   *)
(***************************************************************************)

\* The row of the token; an expired one is to be dropped.
ReadSession(th) ==
    /\ At(th, "idle")
    /\ \E t \in DOMAIN sessions, k \in Kinds :
       \E x \in IF k \in {"deactivate", "delete"} THEN Ids ELSE {0} :
          LET u == sessions[t] IN
          req' = [req EXCEPT ![th] =
                    [step |-> IF t \in expired THEN "drop" ELSE "user",
                     kind |-> k, token |-> t, user |-> u, target |-> x,
                     late |-> ~users[u].active, reused |-> FALSE]]
    /\ UNCHANGED <<tables, raced>>

\* Faulty: is_active is checked when a user logs in and not after that.
BadReadUser(th) ==
    /\ At(th, "user")
    /\ LET u == req[th].user IN
       IF u \notin DOMAIN users
       THEN Goto(th, "drop")
       ELSE IF req[th].kind \notin {"view", "logout"} /\ users[u].role # "admin"
       THEN Done(th)
       ELSE Goto(th, "handle")
    /\ UNCHANGED <<tables, raced>>

\* The row of the session's user, who must still be there and active, and an
\* admin for the pages require_admin() guards.
ReadUser(th) ==
    /\ At(th, "user")
    /\ LET u == req[th].user IN
       IF u \notin DOMAIN users \/ ~users[u].active
       THEN Goto(th, "drop")
       ELSE IF req[th].kind \notin {"view", "logout"} /\ users[u].role # "admin"
       THEN Done(th)
       ELSE Goto(th, "handle")
    /\ UNCHANGED <<tables, raced>>

DropSession(th) ==
    /\ At(th, "drop")
    /\ Forget({req[th].token})
    /\ Done(th)
    /\ UNCHANGED <<users, raced>>

-----------------------------------------------------------------------------
(***************************************************************************)
(* The handlers.                                                           *)
(***************************************************************************)

\* A page that reads, served to the user.
View(th) ==
    /\ At(th, "handle")
    /\ req[th].kind = "view"
    /\ Done(th)
    /\ UNCHANGED <<tables, raced>>

Logout(th) ==
    /\ At(th, "handle")
    /\ req[th].kind = "logout"
    /\ Forget({req[th].token})
    /\ Done(th)
    /\ UNCHANGED <<users, raced>>

\* The id SQLite gives to a new row of a table without AUTOINCREMENT: one
\* more than the largest.
NextIds ==
    {id \in Ids : /\ \A u \in DOMAIN users : u < id
                  /\ id = 1 \/ id - 1 \in DOMAIN users}

\* A request that has read the session of a deleted user will now read the row
\* of the new one.
CreateUser(th) ==
    /\ At(th, "handle")
    /\ req[th].kind = "create"
    /\ \E id \in NextIds, r \in Roles :
          /\ users' = Insert(users, id, [role |-> r, active |-> TRUE])
          /\ req' = [other \in Threads |->
                        IF other = th THEN NoRequest
                        ELSE [req[other] EXCEPT
                                !.reused = @ \/ (At(other, "user") /\ req[other].user = id)]]
    /\ WritesUsers(th)
    /\ UNCHANGED <<sessions, expired>>

\* deactivate_user(): the row of the user to deactivate.
ReadTarget(th) ==
    /\ At(th, "handle")
    /\ req[th].kind = "deactivate"
    /\ LET x == req[th].target IN
       IF x \notin DOMAIN users THEN Done(th)
       ELSE IF users[x].role = "admin" /\ users[x].active THEN Goto(th, "count")
       ELSE Goto(th, "disable")
    /\ UNCHANGED <<tables, raced>>

\* Faulty: admins who are not active are counted too.
BadCountAdmins(th) ==
    /\ At(th, "count")
    /\ IF Cardinality({u \in DOMAIN users : users[u].role = "admin"}) <= 1
       THEN Done(th) ELSE Goto(th, "disable")
    /\ UNCHANGED <<tables, raced>>

\* count_active_admins(): "Cannot deactivate the last remaining admin."
CountAdmins(th) ==
    /\ At(th, "count")
    /\ IF Cardinality(ActiveAdmins) <= 1 THEN Done(th) ELSE Goto(th, "disable")
    /\ UNCHANGED <<tables, raced>>

\* set_user_active(False).
Disable(th) ==
    /\ At(th, "disable")
    /\ users' = IF req[th].target \in DOMAIN users
                THEN [users EXCEPT ![req[th].target].active = FALSE]
                ELSE users
    /\ WritesUsers(th)
    /\ Goto(th, "revoke")
    /\ UNCHANGED <<sessions, expired>>

\* delete_sessions_for_user().
Revoke(th) ==
    /\ At(th, "revoke")
    /\ Forget(SessionsOf(req[th].target))
    /\ Done(th)
    /\ UNCHANGED <<users, raced>>

\* delete_user(): the row must be there and inactive.
CheckInactive(th) ==
    /\ At(th, "handle")
    /\ req[th].kind = "delete"
    /\ LET x == req[th].target IN
       IF x \notin DOMAIN users \/ users[x].active THEN Done(th)
       ELSE Goto(th, "remove")
    /\ UNCHANGED <<tables, raced>>

\* appdb.delete_user(): the sessions and the user, in one transaction.
Remove(th) ==
    /\ At(th, "remove")
    /\ Forget(SessionsOf(req[th].target))
    /\ users' = Restrict(users, DOMAIN users \ {req[th].target})
    /\ WritesUsers(th)
    /\ Done(th)

-----------------------------------------------------------------------------
Next ==
    \/ Expire
    \/ Restart
    \/ \E th \in Threads :
          \/ Authenticate(th) \/ CreateSession(th)
          \/ ReadSession(th) \/ ReadUser(th) \/ DropSession(th)
          \/ View(th) \/ Logout(th) \/ CreateUser(th)
          \/ ReadTarget(th) \/ CountAdmins(th) \/ Disable(th) \/ Revoke(th)
          \/ CheckInactive(th) \/ Remove(th)

Spec == Init /\ [][Next]_vars

-----------------------------------------------------------------------------
(***************************************************************************)
(* Properties.                                                             *)
(***************************************************************************)

\* Every variable has its type.
TypeOK ==
    /\ DOMAIN users \subseteq Ids
    /\ \A u \in DOMAIN users : users[u] \in [role : Roles, active : BOOLEAN]
    /\ DOMAIN sessions \subseteq Tokens
    /\ \A t \in DOMAIN sessions : sessions[t] \in Ids
    /\ expired \subseteq DOMAIN sessions
    /\ req \in [Threads -> Request]
    /\ raced \in BOOLEAN

\* No session outlives its user, even one made by a login that was under way
\* when the user was deleted ("any remaining session row for this user must
\* go first", appdb.py, lines 110-111).
SessionsHaveUsers ==
    \A t \in DOMAIN sessions : sessions[t] \in DOMAIN users

\* A request that begins after its user was deactivated is not served, though
\* a login under way at that moment leaves a session behind: "Deactivation
\* must revoke access immediately, mid-session" (auth.py, lines 97-99).  The
\* code keeps that but for one interleaving, which the ghost reused names: the
\* request has read its session, the deactivated user is deleted and the id
\* given to a new user, and only then is the user read: it is served, as the
\* new user.
DeactivationRevokes ==
    \A th \in Threads :
        req[th].step \in {"handle", "count", "disable", "revoke", "remove"} =>
            ~req[th].late \/ req[th].reused

\* Some active admin remains as long as no handler writes the table of users
\* between the check of another handler and its write: deactivating, deleting
\* and creating users one at a time, in any order and with restarts, cannot
\* lock everybody out.
AdminRemains == raced \/ ActiveAdmins # {}
=============================================================================
