---------------------------- MODULE AccessProofs ----------------------------
(***************************************************************************)
(* Who gets in.  First, about Accounts, for any number of threads, users   *)
(* and sessions: the types of the tables and requests, that no session     *)
(* outlives its user, and that an active admin remains as long as no two   *)
(* handlers overlap between check and write.  Then, about LoginLimiter,    *)
(* for any number of handlers and addresses and any limits: the failures   *)
(* of a window are limited and no address is locked without cause.  The    *)
(* two share no state.                                                     *)
(***************************************************************************)
EXTENDS Accounts, LoginLimiter, FiniteSetTheorems, WellFoundedInduction, TLAPS

\* A request at any step has its type, whatever step it goes to next.
LEMMA GotoTyping ==
  ASSUME TypeOK, NEW th \in Threads,
         NEW step \in {"idle", "login", "user", "drop", "handle", "count",
                       "disable", "revoke", "remove"},
         Goto(th, step)
  PROVE  req' \in [Threads -> Request]
<1>1. [req[th] EXCEPT !.step = step] \in Request
  BY DEF TypeOK, Request
<1> QED
  BY <1>1 DEF TypeOK, Goto

LEMMA IdleTyping == NoRequest \in Request
BY DEF NoRequest, Request, Kinds

LEMMA DoneTyping ==
  ASSUME TypeOK, NEW th \in Threads, Done(th)
  PROVE  req' \in [Threads -> Request]
BY IdleTyping DEF TypeOK, Done

\* A user row that is made active has its type.
LEMMA UserTyping ==
  ASSUME NEW r \in Roles
  PROVE  [role |-> r, active |-> TRUE] \in [role : Roles, active : BOOLEAN]
OBVIOUS

LEMMA DefaultAdminTyping ==
  /\ DOMAIN DefaultAdmin \subseteq Ids
  /\ \A u \in DOMAIN DefaultAdmin :
        DefaultAdmin[u] \in [role : Roles, active : BOOLEAN]
<1>1. 1 \in Ids
  BY AccountsAssumption DEF AccountsAssumption, Ids
<1>2. "admin" \in Roles
  BY DEF Roles
<1> QED
  BY <1>1, <1>2, UserTyping DEF DefaultAdmin

\* Rows go away with their expiry, and the rows that stay are as they were.
LEMMA ForgetTyping ==
  ASSUME TypeOK, NEW ts, Forget(ts)
  PROVE  /\ DOMAIN sessions' = DOMAIN sessions \ ts
         /\ \A t \in DOMAIN sessions' : sessions'[t] = sessions[t]
         /\ expired' \subseteq DOMAIN sessions'
BY DEF TypeOK, Forget, Restrict

-----------------------------------------------------------------------------
\* The tables and the requests keep their types.
THEOREM Typing == Spec => []TypeOK
<1>1. Init => TypeOK
  <2> SUFFICES ASSUME Init PROVE TypeOK
    OBVIOUS
  <2>1. req \in [Threads -> Request]
    BY IdleTyping DEF Init
  <2>2. /\ DOMAIN sessions \subseteq Tokens
        /\ \A t \in DOMAIN sessions : sessions[t] \in Ids
        /\ expired \subseteq DOMAIN sessions
    BY DEF Init
  <2> QED
    BY <2>1, <2>2, DefaultAdminTyping DEF Init, TypeOK
<1>2. TypeOK /\ [Next]_vars => TypeOK'
  <2> SUFFICES ASSUME TypeOK, [Next]_vars PROVE TypeOK'
    OBVIOUS
  <2>1. CASE Expire
    BY <2>1 DEF Expire, TypeOK
  <2>2. CASE Restart
    <3>1. req' \in [Threads -> Request]
      BY <2>2, IdleTyping DEF Restart
    <3>2. /\ DOMAIN users' \subseteq Ids
          /\ \A u \in DOMAIN users' :
                users'[u] \in [role : Roles, active : BOOLEAN]
      BY <2>2, DefaultAdminTyping DEF Restart, TypeOK
    <3> QED
      BY <2>2, <3>1, <3>2 DEF Restart, TypeOK
  <2>3. ASSUME NEW th \in Threads, Authenticate(th) PROVE TypeOK'
    <3>1. PICK u \in DOMAIN users :
             req' = [req EXCEPT ![th] = [NoRequest EXCEPT !.step = "login",
                                                          !.user = u]]
      BY <2>3 DEF Authenticate
    <3>2. [NoRequest EXCEPT !.step = "login", !.user = u] \in Request
      BY <3>1 DEF NoRequest, Request, Kinds, TypeOK
    <3>3. req' \in [Threads -> Request]
      BY <3>1, <3>2 DEF TypeOK
    <3> QED
      BY <2>3, <3>3 DEF Authenticate, TypeOK, tables
  <2>4. ASSUME NEW th \in Threads, CreateSession(th) PROVE TypeOK'
    <3>1. req' \in [Threads -> Request]
      BY <2>4, DoneTyping DEF CreateSession
    <3>2. req[th].user \in DOMAIN users => req[th].user \in Ids
      BY DEF TypeOK
    <3>3. /\ DOMAIN sessions' \subseteq Tokens
          /\ DOMAIN sessions \subseteq DOMAIN sessions'
          /\ \A t \in DOMAIN sessions' : sessions'[t] \in Ids
      <4>1. CASE req[th].user \in DOMAIN users
        <5>1. PICK t \in Tokens \ DOMAIN sessions :
                 sessions' = Insert(sessions, t, req[th].user)
          BY <2>4, <4>1 DEF CreateSession
        <5> QED
          BY <3>2, <4>1, <5>1 DEF TypeOK, Insert
      <4>2. CASE req[th].user \notin DOMAIN users
        BY <2>4, <4>2 DEF CreateSession, TypeOK
      <4> QED
        BY <4>1, <4>2
    <3> QED
      BY <2>4, <3>1, <3>3 DEF CreateSession, TypeOK
  <2>5. ASSUME NEW th \in Threads, ReadSession(th) PROVE TypeOK'
    <3>1. PICK t \in DOMAIN sessions, k \in Kinds :
          \E x \in IF k \in {"deactivate", "delete"} THEN Ids ELSE {0} :
             req' = [req EXCEPT ![th] =
                       [step |-> IF t \in expired THEN "drop" ELSE "user",
                        kind |-> k, token |-> t, user |-> sessions[t],
                        target |-> x, late |-> ~users[sessions[t]].active,
                        reused |-> FALSE]]
      BY <2>5 DEF ReadSession
    <3>2. PICK x \in Ids \cup {0} :
             req' = [req EXCEPT ![th] =
                       [step |-> IF t \in expired THEN "drop" ELSE "user",
                        kind |-> k, token |-> t, user |-> sessions[t],
                        target |-> x, late |-> ~users[sessions[t]].active,
                        reused |-> FALSE]]
      BY <3>1
    <3>3. (~users[sessions[t]].active) \in BOOLEAN
      OBVIOUS
    <3>4. t \in Tokens /\ sessions[t] \in Ids
      BY DEF TypeOK
    <3>5. [step |-> IF t \in expired THEN "drop" ELSE "user",
           kind |-> k, token |-> t, user |-> sessions[t],
           target |-> x, late |-> ~users[sessions[t]].active,
           reused |-> FALSE] \in Request
      BY <3>3, <3>4 DEF Request
    <3>6. req' \in [Threads -> Request]
      BY <3>2, <3>5 DEF TypeOK
    <3> QED
      BY <2>5, <3>6 DEF ReadSession, TypeOK, tables
  <2>6. ASSUME NEW th \in Threads, ReadUser(th) PROVE TypeOK'
    <3>1. req' \in [Threads -> Request]
      BY <2>6, GotoTyping, DoneTyping DEF ReadUser
    <3> QED
      BY <2>6, <3>1 DEF ReadUser, TypeOK, tables
  <2>7. ASSUME NEW th \in Threads, DropSession(th) PROVE TypeOK'
    <3>1. req' \in [Threads -> Request]
      BY <2>7, DoneTyping DEF DropSession
    <3> QED
      BY <2>7, <3>1, ForgetTyping DEF DropSession, TypeOK
  <2>8. ASSUME NEW th \in Threads, View(th) PROVE TypeOK'
    <3>1. req' \in [Threads -> Request]
      BY <2>8, DoneTyping DEF View
    <3> QED
      BY <2>8, <3>1 DEF View, TypeOK, tables
  <2>9. ASSUME NEW th \in Threads, Logout(th) PROVE TypeOK'
    <3>1. req' \in [Threads -> Request]
      BY <2>9, DoneTyping DEF Logout
    <3> QED
      BY <2>9, <3>1, ForgetTyping DEF Logout, TypeOK
  <2>10. ASSUME NEW th \in Threads, CreateUser(th) PROVE TypeOK'
    <3>1. PICK id \in NextIds, r \in Roles :
            /\ users' = Insert(users, id, [role |-> r, active |-> TRUE])
            /\ req' = [other \in Threads |->
                          IF other = th THEN NoRequest
                          ELSE [req[other] EXCEPT
                                  !.reused = @ \/ (At(other, "user") /\ req[other].user = id)]]
      BY <2>10 DEF CreateUser
    <3>2. /\ DOMAIN users' \subseteq Ids
          /\ \A u \in DOMAIN users' :
                users'[u] \in [role : Roles, active : BOOLEAN]
      <4> DEFINE row == [role |-> r, active |-> TRUE]
      <4>1. row \in [role : Roles, active : BOOLEAN]
        BY UserTyping
      <4> HIDE DEF row
      <4>2. users' = Insert(users, id, row)
        BY <3>1 DEF row
      <4> QED
        BY <4>1, <4>2 DEF Insert, NextIds, TypeOK
    <3>3. ASSUME NEW other \in Threads
          PROVE  [req[other] EXCEPT
                     !.reused = @ \/ (At(other, "user") /\ req[other].user = id)] \in Request
      <4> DEFINE reused == req[other].reused \/ (At(other, "user") /\ req[other].user = id)
      <4>1. req[other] \in Request
        BY DEF TypeOK
      <4>2. reused \in BOOLEAN
        OBVIOUS
      <4> HIDE DEF reused
      <4>3. [req[other] EXCEPT !.reused = reused] \in Request
        BY <4>1, <4>2 DEF Request
      <4> QED
        BY <4>3 DEF reused
    <3>4. req' \in [Threads -> Request]
      BY <3>1, <3>3, IdleTyping
    <3>5. raced' \in BOOLEAN
      BY <2>10 DEF CreateUser, WritesUsers
    <3> QED
      BY <2>10, <3>2, <3>4, <3>5 DEF CreateUser, TypeOK
  <2>11. ASSUME NEW th \in Threads, ReadTarget(th) PROVE TypeOK'
    <3>1. req' \in [Threads -> Request]
      BY <2>11, GotoTyping, DoneTyping DEF ReadTarget
    <3> QED
      BY <2>11, <3>1 DEF ReadTarget, TypeOK, tables
  <2>12. ASSUME NEW th \in Threads, CountAdmins(th) PROVE TypeOK'
    <3>1. req' \in [Threads -> Request]
      BY <2>12, GotoTyping, DoneTyping DEF CountAdmins
    <3> QED
      BY <2>12, <3>1 DEF CountAdmins, TypeOK, tables
  <2>13. ASSUME NEW th \in Threads, Disable(th) PROVE TypeOK'
    <3>1. req' \in [Threads -> Request]
      BY <2>13, GotoTyping DEF Disable
    <3>2. /\ DOMAIN users' = DOMAIN users
          /\ \A u \in DOMAIN users' :
                users'[u] \in [role : Roles, active : BOOLEAN]
      BY <2>13 DEF Disable, TypeOK
    <3>3. raced' \in BOOLEAN
      BY <2>13 DEF Disable, WritesUsers
    <3> QED
      BY <2>13, <3>1, <3>2, <3>3 DEF Disable, TypeOK
  <2>14. ASSUME NEW th \in Threads, Revoke(th) PROVE TypeOK'
    <3>1. req' \in [Threads -> Request]
      BY <2>14, DoneTyping DEF Revoke
    <3> QED
      BY <2>14, <3>1, ForgetTyping DEF Revoke, TypeOK
  <2>15. ASSUME NEW th \in Threads, CheckInactive(th) PROVE TypeOK'
    <3>1. req' \in [Threads -> Request]
      BY <2>15, GotoTyping, DoneTyping DEF CheckInactive
    <3> QED
      BY <2>15, <3>1 DEF CheckInactive, TypeOK, tables
  <2>16. ASSUME NEW th \in Threads, Remove(th) PROVE TypeOK'
    <3>1. req' \in [Threads -> Request]
      BY <2>16, DoneTyping DEF Remove
    <3>2. /\ DOMAIN users' \subseteq DOMAIN users
          /\ \A u \in DOMAIN users' : users'[u] = users[u]
      BY <2>16 DEF Remove, Restrict
    <3>3. raced' \in BOOLEAN
      BY <2>16 DEF Remove, WritesUsers
    <3> QED
      BY <2>16, <3>1, <3>2, <3>3, ForgetTyping DEF Remove, TypeOK
  <2>17. CASE UNCHANGED vars
    BY <2>17 DEF vars, tables, TypeOK
  <2> QED
    BY <2>1, <2>2, <2>3, <2>4, <2>5, <2>6, <2>7, <2>8, <2>9, <2>10, <2>11,
       <2>12, <2>13, <2>14, <2>15, <2>16, <2>17 DEF Next
<1> QED
  BY <1>1, <1>2, PTL DEF Spec

-----------------------------------------------------------------------------
\* A login under way when its user is deleted meets the foreign key; deleting
\* a user takes the sessions first, in the same transaction.
THEOREM NoSessionOutlivesItsUser == Spec => []SessionsHaveUsers
<1>1. Init => SessionsHaveUsers
  BY DEF Init, SessionsHaveUsers
<1>2. TypeOK /\ SessionsHaveUsers /\ [Next]_vars => SessionsHaveUsers'
  <2> SUFFICES ASSUME TypeOK, SessionsHaveUsers, [Next]_vars
               PROVE  SessionsHaveUsers'
    OBVIOUS
  <2> USE DEF SessionsHaveUsers
  <2>1. CASE Expire
    BY <2>1 DEF Expire
  <2>2. CASE Restart
    BY <2>2 DEF Restart
  <2>3. ASSUME NEW th \in Threads, CreateSession(th) PROVE SessionsHaveUsers'
    BY <2>3 DEF CreateSession, Insert
  <2>4. ASSUME NEW th \in Threads, DropSession(th) \/ Logout(th) \/ Revoke(th)
        PROVE  SessionsHaveUsers'
    BY <2>4, ForgetTyping DEF DropSession, Logout, Revoke
  <2>5. ASSUME NEW th \in Threads, CreateUser(th) PROVE SessionsHaveUsers'
    BY <2>5 DEF CreateUser, Insert
  <2>6. ASSUME NEW th \in Threads, Disable(th) PROVE SessionsHaveUsers'
    <3>1. DOMAIN users' = DOMAIN users
      BY <2>6 DEF Disable
    <3>2. sessions' = sessions
      BY <2>6 DEF Disable
    <3> QED
      BY <3>1, <3>2
  <2>7. ASSUME NEW th \in Threads, Remove(th) PROVE SessionsHaveUsers'
    <3>1. DOMAIN users' = DOMAIN users \ {req[th].target}
      BY <2>7 DEF Remove, Restrict
    <3>2. /\ DOMAIN sessions' = DOMAIN sessions \ SessionsOf(req[th].target)
          /\ \A t \in DOMAIN sessions' : sessions'[t] = sessions[t]
      BY <2>7, ForgetTyping DEF Remove
    <3> QED
      BY <3>1, <3>2 DEF SessionsOf
  <2>8. ASSUME NEW th \in Threads,
               \/ Authenticate(th) \/ ReadSession(th) \/ ReadUser(th)
               \/ View(th) \/ ReadTarget(th) \/ CountAdmins(th)
               \/ CheckInactive(th)
        PROVE  SessionsHaveUsers'
    BY <2>8 DEF Authenticate, ReadSession, ReadUser, View, ReadTarget,
                CountAdmins, CheckInactive, tables
  <2>9. CASE UNCHANGED vars
    BY <2>9 DEF vars, tables
  <2> QED
    BY <2>1, <2>2, <2>3, <2>4, <2>5, <2>6, <2>7, <2>8, <2>9 DEF Next
<1> QED
  BY <1>1, <1>2, Typing, PTL DEF Spec

-----------------------------------------------------------------------------
(***************************************************************************)
(* The inductive invariant behind AdminRemains: as long as no handler has  *)
(* written between the check and the write of another one, what a handler  *)
(* has decided is still safe to carry out.                                 *)
(***************************************************************************)
SafeDecisions ==
    \/ raced
    \/ /\ ActiveAdmins # {}
       /\ \A th \in Threads :
             /\ At(th, "disable") => ActiveAdmins \ {req[th].target} # {}
             /\ At(th, "remove") => req[th].target \notin ActiveAdmins

\* Taking one away from more than one leaves one.
LEMMA MoreThanOneAdmin ==
  ASSUME TypeOK, ~(Cardinality(ActiveAdmins) <= 1), NEW x
  PROVE  ActiveAdmins \ {x} # {}
<1>1. IsFiniteSet(ActiveAdmins)
  <2>1. IsFiniteSet(1..MaxUsers)
    BY AccountsAssumption, FS_Interval DEF AccountsAssumption
  <2>2. ActiveAdmins \subseteq 1..MaxUsers
    BY DEF ActiveAdmins, TypeOK, Ids
  <2> QED
    BY <2>1, <2>2, FS_Subset
<1>2. SUFFICES ASSUME ActiveAdmins \subseteq {x} PROVE FALSE
  OBVIOUS
<1>3. Cardinality({x}) = 1 /\ IsFiniteSet({x})
  BY FS_Singleton
<1>4. Cardinality(ActiveAdmins) <= 1
  BY <1>2, <1>3, FS_Subset
<1> QED
  BY <1>4

\* A step that leaves the users alone and takes no decision keeps them safe.
LEMMA NoDecision ==
  ASSUME SafeDecisions, users' = users, raced' = raced,
         \A th \in Threads :
            \/ req'[th].step \notin {"disable", "remove"}
            \/ req'[th].step = req[th].step /\ req'[th].target = req[th].target
  PROVE  SafeDecisions'
BY DEF SafeDecisions, At, ActiveAdmins

\* A handler that decides on what the tables say decides safely.
LEMMA Decision ==
  ASSUME TypeOK, SafeDecisions, users' = users, raced' = raced,
         NEW th \in Threads,
         \/ Goto(th, "disable") /\ ActiveAdmins \ {req[th].target} # {}
         \/ Goto(th, "remove") /\ req[th].target \notin ActiveAdmins
  PROVE  SafeDecisions'
<1>1. ActiveAdmins' = ActiveAdmins
  BY DEF ActiveAdmins
<1>2. /\ \A other \in Threads \ {th} : req'[other] = req[other]
      /\ req'[th].target = req[th].target
      /\ \/ /\ req'[th].step = "disable"
            /\ ActiveAdmins \ {req[th].target} # {}
         \/ /\ req'[th].step = "remove"
            /\ req[th].target \notin ActiveAdmins
  BY DEF Goto, TypeOK, Request
<1> QED
  BY <1>1, <1>2 DEF SafeDecisions, At

\* A write while no other handler is deciding.
LEMMA UndisturbedWrite ==
  ASSUME NEW th \in Threads, WritesUsers(th),
         req' \in [Threads -> Request],
         req'[th].step \notin {"disable", "remove"},
         \A other \in Threads \ {th} : req'[other].step = req[other].step,
         ActiveAdmins' # {} \/ raced
  PROVE  SafeDecisions'
BY DEF WritesUsers, Deciding, SafeDecisions, At

\* While handlers that write users do not overlap, an active admin remains,
\* for any number of threads, users and restarts.
THEOREM AdminStays == Spec => []AdminRemains
<1>1. Init => SafeDecisions
  <2> SUFFICES ASSUME Init PROVE SafeDecisions
    OBVIOUS
  <2>1. 1 \in ActiveAdmins
    BY DEF Init, ActiveAdmins, DefaultAdmin
  <2>2. \A th \in Threads : req[th].step = "idle"
    BY DEF Init, NoRequest
  <2> QED
    BY <2>1, <2>2 DEF SafeDecisions, At
<1>2. TypeOK /\ TypeOK' /\ SafeDecisions /\ [Next]_vars => SafeDecisions'
  <2> SUFFICES ASSUME TypeOK, TypeOK', SafeDecisions, [Next]_vars
               PROVE  SafeDecisions'
    OBVIOUS
  <2>t. req \in [Threads -> Request] /\ req' \in [Threads -> Request]
    BY DEF TypeOK
  <2>1. CASE Expire
    BY <2>1, NoDecision DEF Expire
  <2>2. CASE Restart
    <3>1. ActiveAdmins # {} => ActiveAdmins' # {}
      BY <2>2 DEF Restart, ActiveAdmins
    <3> QED
      BY <2>2, <3>1 DEF Restart, SafeDecisions, At, NoRequest
  <2>3. ASSUME NEW th \in Threads, Authenticate(th) PROVE SafeDecisions'
    BY <2>3, <2>t, NoDecision DEF Authenticate, tables, NoRequest
  <2>4. ASSUME NEW th \in Threads, CreateSession(th) PROVE SafeDecisions'
    BY <2>4, <2>t, NoDecision DEF CreateSession, Done, NoRequest
  <2>5. ASSUME NEW th \in Threads, ReadSession(th) PROVE SafeDecisions'
    <3>1. /\ req'[th].step \in {"drop", "user"}
          /\ \A other \in Threads \ {th} : req'[other] = req[other]
      BY <2>5, <2>t DEF ReadSession
    <3>2. users' = users /\ raced' = raced
      BY <2>5 DEF ReadSession, tables
    <3> QED
      BY <3>1, <3>2, NoDecision
  <2>6. ASSUME NEW th \in Threads, ReadUser(th) PROVE SafeDecisions'
    <3>1. Done(th) \/ Goto(th, "drop") \/ Goto(th, "handle")
      BY <2>6 DEF ReadUser
    <3>2. users' = users /\ raced' = raced
      BY <2>6 DEF ReadUser, tables
    <3>3. /\ req'[th].step \notin {"disable", "remove"}
          /\ \A other \in Threads \ {th} : req'[other] = req[other]
      BY <2>t, <3>1 DEF Done, Goto, NoRequest, Request
    <3> QED
      BY <3>2, <3>3, NoDecision
  <2>7. ASSUME NEW th \in Threads,
               DropSession(th) \/ View(th) \/ Logout(th) \/ Revoke(th)
        PROVE  SafeDecisions'
    BY <2>7, <2>t, NoDecision
       DEF DropSession, View, Logout, Revoke, Done, NoRequest, tables
  <2>8. ASSUME NEW th \in Threads, CreateUser(th) PROVE SafeDecisions'
    <3>1. ActiveAdmins \subseteq ActiveAdmins'
      <4>1. PICK id \in NextIds, r \in Roles :
               users' = Insert(users, id, [role |-> r, active |-> TRUE])
        BY <2>8 DEF CreateUser
      <4>2. id \notin DOMAIN users
        BY <4>1 DEF NextIds, Ids
      <4> QED
        BY <4>1, <4>2 DEF Insert, ActiveAdmins
    <3>2. /\ req'[th] = NoRequest
          /\ \A other \in Threads \ {th} : req'[other].step = req[other].step
      BY <2>8, <2>t DEF CreateUser, Request
    <3>3. WritesUsers(th) /\ (raced \/ ActiveAdmins' # {})
      BY <2>8, <3>1 DEF CreateUser, SafeDecisions
    <3> QED
      BY <2>t, <3>2, <3>3, UndisturbedWrite DEF NoRequest
  <2>9. ASSUME NEW th \in Threads, ReadTarget(th) PROVE SafeDecisions'
    <3>1. CASE Goto(th, "disable") /\ req[th].target \notin ActiveAdmins
      <4>1. users' = users /\ raced' = raced
        BY <2>9 DEF ReadTarget, tables
      <4>2. CASE raced
        BY <4>1, <4>2 DEF SafeDecisions
      <4>3. CASE ~raced
        BY <3>1, <4>1, <4>3, Decision DEF SafeDecisions
      <4> QED
        BY <4>2, <4>3
    <3>2. CASE Done(th) \/ Goto(th, "count")
      <4>1. users' = users /\ raced' = raced
        BY <2>9 DEF ReadTarget, tables
      <4>2. /\ req'[th].step \notin {"disable", "remove"}
            /\ \A other \in Threads \ {th} : req'[other] = req[other]
        BY <2>t, <3>2 DEF Done, Goto, NoRequest, Request
      <4> QED
        BY <4>1, <4>2, NoDecision
    <3> QED
      BY <2>9, <3>1, <3>2 DEF ReadTarget, ActiveAdmins
  <2>10. ASSUME NEW th \in Threads, CountAdmins(th) PROVE SafeDecisions'
    <3>1. CASE ~(Cardinality(ActiveAdmins) <= 1)
      <4>1. ActiveAdmins \ {req[th].target} # {}
        BY <3>1, MoreThanOneAdmin
      <4> QED
        BY <2>10, <3>1, <4>1, Decision DEF CountAdmins, tables
    <3>2. CASE Cardinality(ActiveAdmins) <= 1
      BY <2>10, <2>t, <3>2, NoDecision DEF CountAdmins, Done, NoRequest, tables
    <3> QED
      BY <3>1, <3>2
  <2>11. ASSUME NEW th \in Threads, Disable(th) PROVE SafeDecisions'
    <3>1. ActiveAdmins' = ActiveAdmins \ {req[th].target}
      BY <2>11 DEF Disable, ActiveAdmins, TypeOK
    <3>2. /\ req'[th].step = "revoke"
          /\ \A other \in Threads \ {th} : req'[other].step = req[other].step
      BY <2>11, <2>t DEF Disable, Goto, Request
    <3> QED
      BY <2>11, <2>t, <3>1, <3>2, UndisturbedWrite
         DEF Disable, SafeDecisions
  <2>12. ASSUME NEW th \in Threads, CheckInactive(th) PROVE SafeDecisions'
    <3>1. CASE Goto(th, "remove") /\ req[th].target \notin ActiveAdmins
      BY <2>12, <3>1, Decision DEF CheckInactive, tables
    <3>2. CASE Done(th)
      BY <2>12, <2>t, <3>2, NoDecision DEF CheckInactive, Done, NoRequest, tables
    <3> QED
      BY <2>12, <3>1, <3>2 DEF CheckInactive, ActiveAdmins
  <2>13. ASSUME NEW th \in Threads, Remove(th) PROVE SafeDecisions'
    <3>1. ActiveAdmins' = ActiveAdmins \ {req[th].target}
      BY <2>13 DEF Remove, Restrict, ActiveAdmins
    <3>2. /\ req'[th] = NoRequest
          /\ \A other \in Threads \ {th} : req'[other].step = req[other].step
      BY <2>13, <2>t DEF Remove, Done
    <3>3. raced \/ ActiveAdmins' # {}
      BY <2>13, <3>1 DEF Remove, SafeDecisions
    <3> QED
      BY <2>13, <2>t, <3>2, <3>3, UndisturbedWrite DEF Remove, NoRequest
  <2>14. CASE UNCHANGED vars
    BY <2>14, NoDecision DEF vars, tables
  <2> QED
    BY <2>1, <2>2, <2>3, <2>4, <2>5, <2>6, <2>7, <2>8, <2>9, <2>10, <2>11,
       <2>12, <2>13, <2>14 DEF Next
<1>3. SafeDecisions => AdminRemains
  BY DEF SafeDecisions, AdminRemains
<1> QED
  BY <1>1, <1>2, <1>3, Typing, PTL DEF Spec

-----------------------------------------------------------------------------
(***************************************************************************)
(* The inductive invariant behind DeactivationRevokes: a request that came *)
(* too late has not passed the check, or failed it, and until it is made   *)
(* its user is deactivated, or deleted, since nothing activates a user     *)
(* again; but for a request whose user's id was given to a new one between *)
(* the two reads.                                                          *)
(***************************************************************************)
Inactive(u) == u \in DOMAIN users => ~users[u].active

\* A request that is not asked to fail the check.
Admissible(r) == ~r.late \/ r.reused

LateIsRevoked ==
    \A th \in Threads :
        ~Admissible(req[th]) => \/ req[th].step = "drop"
                                \/ req[th].step = "user" /\ Inactive(req[th].user)

\* A step under which users only become inactive, and no request becomes late.
LEMMA NobodyActivated ==
  ASSUME LateIsRevoked,
         \A u : Inactive(u) => Inactive(u)',
         \A th \in Threads : Admissible(req'[th]) \/ req'[th] = req[th]
  PROVE  LateIsRevoked'
BY DEF LateIsRevoked, Inactive, Admissible

\* A request that begins after its user was deactivated is not served by
\* get_session() (auth.py, lines 86-102), whatever logins and administration
\* are under way on however many threads; but for the one whose user was
\* deleted and the id given to a new user between its two reads, the ghost
\* reused, which is served as the new user.
THEOREM Revokes == Spec => []DeactivationRevokes
<1>1. Init => LateIsRevoked
  BY DEF Init, LateIsRevoked, NoRequest, Admissible
<1>2. TypeOK /\ LateIsRevoked /\ [Next]_vars => LateIsRevoked'
  <2> SUFFICES ASSUME TypeOK, LateIsRevoked, [Next]_vars PROVE LateIsRevoked'
    OBVIOUS
  <2>t. req \in [Threads -> Request]
    BY DEF TypeOK
  <2>0. ASSUME users' = users, UNCHANGED req PROVE LateIsRevoked'
    BY <2>0 DEF LateIsRevoked, Inactive, Admissible
  <2>1. ASSUME NEW th \in Threads, users' = users, Done(th)
        PROVE  LateIsRevoked'
    <3>1. /\ Admissible(req'[th])
          /\ \A other \in Threads \ {th} : req'[other] = req[other]
      BY <2>1, <2>t DEF Done, NoRequest, Admissible
    <3> QED
      BY <2>1, <3>1, NobodyActivated DEF Inactive
  <2>2. ASSUME NEW th \in Threads, NEW step, users' = users, Goto(th, step),
               Admissible(req[th])
        PROVE  LateIsRevoked'
    <3>1. /\ Admissible(req'[th])
          /\ \A other \in Threads \ {th} : req'[other] = req[other]
      BY <2>2, <2>t DEF Goto, Request, Admissible
    <3> QED
      BY <2>2, <3>1, NobodyActivated DEF Inactive
  <2>3. ASSUME NEW th \in Threads, req[th].step \notin {"user", "drop"}
        PROVE  Admissible(req[th])
    BY <2>3 DEF LateIsRevoked
  <2>4. CASE Restart
    BY <2>4 DEF Restart, LateIsRevoked, NoRequest, Admissible
  <2>5. ASSUME NEW th \in Threads, Authenticate(th) PROVE LateIsRevoked'
    <3>1. /\ Admissible(req'[th])
          /\ \A other \in Threads \ {th} : req'[other] = req[other]
      BY <2>5, <2>t DEF Authenticate, NoRequest, Admissible
    <3>2. users' = users
      BY <2>5 DEF Authenticate, tables
    <3> QED
      BY <3>1, <3>2, NobodyActivated DEF Inactive
  <2>6. ASSUME NEW th \in Threads, ReadSession(th) PROVE LateIsRevoked'
    <3>1. PICK t \in DOMAIN sessions, k \in Kinds :
          \E x \in IF k \in {"deactivate", "delete"} THEN Ids ELSE {0} :
             req' = [req EXCEPT ![th] =
                       [step |-> IF t \in expired THEN "drop" ELSE "user",
                        kind |-> k, token |-> t, user |-> sessions[t],
                        target |-> x, late |-> ~users[sessions[t]].active,
                        reused |-> FALSE]]
      BY <2>6 DEF ReadSession
    <3> DEFINE late == ~users[sessions[t]].active
    <3>a. \E x \in Ids \cup {0} :
             req' = [req EXCEPT ![th] =
                       [step |-> IF t \in expired THEN "drop" ELSE "user",
                        kind |-> k, token |-> t, user |-> sessions[t],
                        target |-> x, late |-> late, reused |-> FALSE]]
      BY <3>1
    <3>b. late => Inactive(sessions[t])
      BY DEF Inactive
    <3> HIDE DEF late
    <3>c. /\ req'[th].step \in {"user", "drop"}
          /\ req'[th].user = sessions[t]
          /\ req'[th].late = late
          /\ \A other \in Threads \ {th} : req'[other] = req[other]
      BY <3>a, <2>t
    <3>2. users' = users
      BY <2>6 DEF ReadSession, tables
    <3> QED
      BY <3>b, <3>c, <3>2 DEF LateIsRevoked, Inactive, Admissible
  <2>7. ASSUME NEW th \in Threads, ReadUser(th) PROVE LateIsRevoked'
    <3>1. users' = users
      BY <2>7 DEF ReadUser, tables
    <3>2. CASE ~Admissible(req[th])
      <4>1. Inactive(req[th].user)
        BY <2>7, <3>2 DEF LateIsRevoked, ReadUser, At
      <4>2. Goto(th, "drop")
        BY <2>7, <4>1 DEF ReadUser, Inactive
      <4>3. /\ req'[th].step = "drop"
            /\ req'[th].user = req[th].user
            /\ \A other \in Threads \ {th} : req'[other] = req[other]
        BY <4>2, <2>t DEF Goto, Request
      <4> QED
        BY <3>1, <4>1, <4>3 DEF LateIsRevoked, Inactive
    <3>3. CASE Admissible(req[th])
      BY <2>1, <2>2, <2>7, <3>1, <3>3 DEF ReadUser
    <3> QED
      BY <3>2, <3>3
  <2>8. ASSUME NEW th \in Threads,
               DropSession(th) \/ View(th) \/ Logout(th) \/ Revoke(th)
               \/ CreateSession(th)
        PROVE  LateIsRevoked'
    BY <2>1, <2>8
       DEF DropSession, View, Logout, Revoke, CreateSession, tables
  <2>9. ASSUME NEW th \in Threads,
               ReadTarget(th) \/ CountAdmins(th) \/ CheckInactive(th)
        PROVE  LateIsRevoked'
    <3>1. Admissible(req[th])
      BY <2>3, <2>9 DEF ReadTarget, CountAdmins, CheckInactive, At
    <3>2. users' = users
      BY <2>9 DEF ReadTarget, CountAdmins, CheckInactive, tables
    <3> QED
      BY <2>1, <2>2, <2>9, <3>1, <3>2
         DEF ReadTarget, CountAdmins, CheckInactive
  <2>10. ASSUME NEW th \in Threads, CreateUser(th) PROVE LateIsRevoked'
    <3>1. PICK id \in NextIds, r \in Roles :
            /\ users' = Insert(users, id, [role |-> r, active |-> TRUE])
            /\ req' = [other \in Threads |->
                          IF other = th THEN NoRequest
                          ELSE [req[other] EXCEPT
                                  !.reused = @ \/ (At(other, "user") /\ req[other].user = id)]]
      BY <2>10 DEF CreateUser
    <3>2. ASSUME NEW other \in Threads, ~Admissible(req'[other])
          PROVE  /\ req'[other].step = req[other].step
                 /\ req'[other].user = req[other].user
                 /\ ~Admissible(req[other])
                 /\ req[other].step = "user" => req[other].user # id
      BY <2>t, <3>1, <3>2 DEF NoRequest, Request, Admissible, At
    <3>3. ASSUME NEW u, Inactive(u), u # id PROVE Inactive(u)'
      BY <3>1, <3>3 DEF Insert, Inactive
    <3> QED
      BY <3>2, <3>3 DEF LateIsRevoked
  <2>11. ASSUME NEW th \in Threads, Disable(th) PROVE LateIsRevoked'
    <3>1. \A u : Inactive(u) => Inactive(u)'
      BY <2>11 DEF Disable, Inactive, TypeOK
    <3>2. Admissible(req[th])
      BY <2>3, <2>11 DEF Disable, At
    <3>3. /\ Admissible(req'[th])
          /\ \A other \in Threads \ {th} : req'[other] = req[other]
      BY <2>11, <2>t, <3>2 DEF Disable, Goto, Request, Admissible
    <3> QED
      BY <3>1, <3>3, NobodyActivated
  <2>12. ASSUME NEW th \in Threads, Remove(th) PROVE LateIsRevoked'
    <3>1. \A u : Inactive(u) => Inactive(u)'
      BY <2>12 DEF Remove, Restrict, Inactive
    <3>2. /\ Admissible(req'[th])
          /\ \A other \in Threads \ {th} : req'[other] = req[other]
      BY <2>12, <2>t DEF Remove, Done, NoRequest, Admissible
    <3> QED
      BY <3>1, <3>2, NobodyActivated
  <2>13. CASE Expire \/ UNCHANGED vars
    BY <2>0, <2>13 DEF Expire, vars, tables
  <2> QED
    BY <2>4, <2>5, <2>6, <2>7, <2>8, <2>9, <2>10, <2>11, <2>12, <2>13 DEF Next
<1>3. LateIsRevoked => DeactivationRevokes
  BY DEF LateIsRevoked, DeactivationRevokes, Admissible
<1> QED
  BY <1>1, <1>2, <1>3, Typing, PTL DEF Spec
-----------------------------------------------------------------------------

(***************************************************************************)
(* The window.  Failures are recorded in the order of their times, so what *)
(* the list comprehension of record_failure keeps is an end of the list.   *)
(***************************************************************************)

\* Every set of natural numbers up to some number but the empty one has a first.
LEMMA FirstExists ==
  ASSUME NEW l \in Nat, NEW S \in SUBSET (1..l), S # {}
  PROVE  \E x \in S : \A y \in S : x <= y
<1> DEFINE Before(x) == {y \in S : y < x}
           F == {Before(x) : x \in S}
<1>1. S \subseteq Nat /\ IsFiniteSet(S)
  <2>1. 1 \in Int /\ l \in Int
    OBVIOUS
  <2>2. IsFiniteSet(1..l)
    BY <2>1, FS_Interval
  <2>3. IsFiniteSet(S)
    BY <2>2, FS_Subset
  <2>4. S \subseteq Nat
    OBVIOUS
  <2> QED
    BY <2>3, <2>4
<1>2. \A x \in S : IsFiniteSet(Before(x)) /\ Before(x) \in SUBSET S
  BY <1>1, FS_Subset
<1>3. F \subseteq FiniteSubsetsOf(S)
  BY <1>2 DEF FiniteSubsetsOf
<1>4. F # {}
  OBVIOUS
<1>5. IsWellFoundedOn(StrictSubsetOrdering(S), FiniteSubsetsOf(S))
  BY FS_StrictSubsetOrderingWellFounded
<1> HIDE DEF F
<1>6. PICK X \in F : \A Y \in F : ~ (<<Y, X>> \in StrictSubsetOrdering(S))
  BY <1>3, <1>4, <1>5, WFMin
<1>7. PICK x \in S : X = Before(x)
  BY <1>6 DEF F
<1>8. ASSUME NEW y \in S, ~ (x <= y)
      PROVE  FALSE
  <2>1. y \in Nat /\ x \in Nat /\ y < x
    BY <1>1, <1>8
  <2>2. Before(y) \subseteq Before(x)
    <3> SUFFICES ASSUME NEW z \in S, z < y PROVE z < x
      OBVIOUS
    <3>1. z \in Nat
      BY <1>1
    <3> QED
      BY <2>1, <3>1
  <2>3. y \in Before(x) /\ y \notin Before(y)
    BY <2>1
  <2>4. <<Before(y), Before(x)>> \in StrictSubsetOrdering(S)
    BY <1>2, <2>2, <2>3 DEF StrictSubsetOrdering
  <2>5. Before(y) \in F
    BY DEF F
  <2> QED
    BY <1>6, <1>7, <2>4, <2>5
<1> QED
  BY <1>8

\* A set of positions that has with each position all later ones is an end.
LEMMA UpwardClosedIsEnd ==
  ASSUME NEW l \in Nat, NEW S \in SUBSET (1..l),
         \A x \in S, y \in 1..l : x <= y => y \in S
  PROVE  \E k \in 0..l : S = (k + 1)..l
<1>1. CASE S = {}
  <2>1. S = (l + 1)..l /\ l \in 0..l
    BY <1>1
  <2> QED
    BY <2>1
<1>2. CASE S # {}
  <2>1. PICK x \in S : \A y \in S : x <= y
    BY <1>2, FirstExists
  <2>2. S = x..l
    <3>1. \A y \in S : y \in x..l
      BY <2>1
    <3>2. \A y \in x..l : y \in 1..l /\ x <= y
      BY <2>1
    <3> QED
      BY <3>1, <3>2
  <2>3. x - 1 \in 0..l /\ S = ((x - 1) + 1)..l
    BY <2>2
  <2> QED
    BY <2>3
<1> QED
  BY <1>1, <1>2

\* The positions of an end, counted.
LEMMA NthOfEnd ==
  ASSUME NEW l \in Nat, NEW k \in 0..l
  PROVE  /\ Cardinality((k + 1)..l) = l - k
         /\ \A n \in 1..(l - k) : Nth((k + 1)..l, n) = k + n
<1> DEFINE S == (k + 1)..l
<1>1. Cardinality(S) = l - k
  <2>1. Cardinality(S) = IF k + 1 > l THEN 0 ELSE l - (k + 1) + 1
    BY FS_Interval
  <2> DEFINE c == Cardinality(S)
  <2>2. c = IF k + 1 > l THEN 0 ELSE l - (k + 1) + 1
    BY <2>1
  <2> HIDE DEF c
  <2>3. c = l - k
    BY <2>2
  <2> QED
    BY <2>3 DEF c
<1>2. ASSUME NEW i \in S
      PROVE  Cardinality({j \in S : j < i}) = i - 1 - k
  <2>1. {j \in S : j < i} = (k + 1)..(i - 1)
    OBVIOUS
  <2> DEFINE c == Cardinality((k + 1)..(i - 1))
  <2>2. c = IF k + 1 > i - 1 THEN 0 ELSE (i - 1) - (k + 1) + 1
    BY FS_Interval
  <2> HIDE DEF c
  <2>3. c = i - 1 - k
    BY <2>2
  <2> QED
    BY <2>1, <2>3 DEF c
<1>3. ASSUME NEW n \in 1..(l - k)
      PROVE  Nth(S, n) = k + n
  <2>1. k + n \in S /\ (k + n) - 1 - k = n - 1
    OBVIOUS
  <2>2. Cardinality({j \in S : j < k + n}) = n - 1
    BY <1>2, <2>1
  <2>3. \A i \in S : i - 1 - k = n - 1 => i = k + n
    OBVIOUS
  <2>4. \A i \in S : Cardinality({j \in S : j < i}) = n - 1 => i = k + n
    BY <1>2, <2>3
  <2> HIDE DEF S
  <2> QED
    BY <2>1, <2>2, <2>4 DEF Nth
<1> QED
  BY <1>1, <1>3

Sorted(s) == \A i, j \in DOMAIN s : i <= j => s[i] <= s[j]

\* What InWindow keeps of a list of times in order.
LEMMA WindowIsEnd ==
  ASSUME now \in Nat, NEW s \in Seq(Nat), Sorted(s)
  PROVE  \E k \in 0..Len(s) :
            /\ InWindow(s) \in Seq(Nat)
            /\ Len(InWindow(s)) = Len(s) - k
            /\ \A n \in 1..(Len(s) - k) : InWindow(s)[n] = s[k + n]
            /\ \A i \in 1..Len(s) : now - s[i] < Window <=> k < i
<1> DEFINE l == Len(s)
           kept == {i \in DOMAIN s : now - s[i] < Window}
<1>1. l \in Nat /\ DOMAIN s = 1..l /\ \A i \in 1..l : s[i] \in Nat
  OBVIOUS
<1>2. Window \in Nat
  BY LimiterAssumption
<1>3. \A x \in kept, y \in 1..l : x <= y => y \in kept
  <2> SUFFICES ASSUME NEW x \in kept, NEW y \in 1..l, x <= y
               PROVE  now - s[y] < Window
    BY <1>1
  <2> DEFINE a == s[x]
             b == s[y]
  <2>1. a <= b /\ a \in Nat /\ b \in Nat /\ now - a < Window
    BY <1>1 DEF Sorted
  <2> HIDE DEF a, b
  <2>2. now - b < Window
    BY <1>2, <2>1
  <2> QED
    BY <2>2 DEF b
<1>4. kept \in SUBSET (1..l)
  BY <1>1
<1>5. \A i \in 1..l : now - s[i] < Window <=> i \in kept
  BY <1>1
<1>6. InWindow(s) = [n \in 1..Cardinality(kept) |-> s[Nth(kept, n)]]
  BY DEF InWindow
<1> HIDE DEF kept, l
<1>7. PICK k \in 0..l : kept = (k + 1)..l
  BY <1>1, <1>3, <1>4, UpwardClosedIsEnd
<1>8. /\ Cardinality(kept) = l - k
      /\ \A n \in 1..(l - k) : Nth(kept, n) = k + n
  BY <1>1, <1>7, NthOfEnd
<1>9. l - k \in Nat /\ \A n \in 1..(l - k) : k + n \in 1..l
  BY <1>1
<1>10. InWindow(s) = [n \in 1..(l - k) |-> s[k + n]]
  BY <1>6, <1>8
<1>11. /\ InWindow(s) \in Seq(Nat)
       /\ Len(InWindow(s)) = l - k
       /\ \A n \in 1..(l - k) : InWindow(s)[n] = s[k + n]
  <2>1. \A n \in 1..(l - k) : s[k + n] \in Nat
    BY <1>1, <1>9
  <2> DEFINE e == [n \in 1..(l - k) |-> s[k + n]]
             j == l - k
  <2>2. e \in [1..j -> Nat] /\ \A n \in 1..j : e[n] = s[k + n]
    BY <2>1
  <2>3. j \in Nat /\ InWindow(s) = e
    BY <1>9, <1>10
  <2> HIDE DEF e, j
  <2>4. e \in Seq(Nat) /\ Len(e) = j
    BY <2>2, <2>3
  <2> QED
    BY <2>2, <2>3, <2>4 DEF j
<1>12. \A i \in 1..l : now - s[i] < Window <=> k < i
  BY <1>1, <1>5, <1>7
<1> QED
  BY <1>11, <1>12 DEF l

-----------------------------------------------------------------------------
(***************************************************************************)
(* What holds at time c of an address with failures h since its last       *)
(* success, those of them the limiter remembers in s, lock u, and f        *)
(* handlers between their check and their record.                          *)
(***************************************************************************)

Timely(h, c) == Sorted(h) /\ \A i \in DOMAIN h : h[i] <= c

\* The limiter remembers the last failures, and fewer than it allows.
Recent(h, s) ==
    /\ Len(s) < MaxAttempts
    /\ Len(s) <= Len(h)
    /\ \A n \in DOMAIN s : s[n] = h[Len(h) - Len(s) + n]

\* The failures since one of the window that ends now.
Since(h, i) == Len(h) - i + 1

\* They are remembered; or a lock outlasts their window, and those of the handlers
\* that had passed the check before it are all that can still come.
Open(h, s, u, f, c) ==
    \A i \in DOMAIN h :
        c - h[i] < Window =>
            \/ Since(h, i) <= Len(s)
            \/ /\ u >= h[i] + Lockout
               /\ Since(h, i) + f <= MaxAttempts + Cardinality(Handlers) - 1

Limited(h) ==
    \A i, j \in DOMAIN h :
        h[j] - h[i] < Window => j - i < MaxAttempts + Cardinality(Handlers) - 1

Caused(h, u) ==
    u # Never =>
        \E j \in DOMAIN h : /\ j >= MaxAttempts
                            /\ h[j] + Lockout = u
                            /\ h[j] - h[j - MaxAttempts + 1] < Window

Bounds == /\ MaxAttempts \in Nat \ {0}
          /\ Window \in Nat \ {0}
          /\ Lockout \in Nat \ {0}
          /\ Cardinality(Handlers) \in Nat

LEMMA BoundsHold == Bounds
<1>1. Cardinality(Handlers) \in Nat
  BY LimiterAssumption, FS_CardinalityType
<1> QED
  BY <1>1, LimiterAssumption DEF Bounds

\* The failures of a window that are remembered are still there when the next is
\* recorded.
LEMMA RememberedIsKept ==
  ASSUME now \in Nat, NEW h \in Seq(Nat), NEW s \in Seq(Nat), Timely(h, now), Recent(h, s)
  PROVE  \E k \in 0..Len(s) :
            /\ InWindow(s) \in Seq(Nat)
            /\ Len(InWindow(s)) = Len(s) - k
            /\ \A n \in 1..(Len(s) - k) : InWindow(s)[n] = h[Len(h) - Len(s) + k + n]
            /\ \A i \in 1..Len(h) :
                  /\ now - h[i] < Window /\ Since(h, i) <= Len(s) => Since(h, i) <= Len(s) - k
                  /\ Since(h, i) <= Len(s) - k => now - h[i] < Window
<1> DEFINE l == Len(h)
           m == Len(s)
<1>1. /\ l \in Nat /\ m \in Nat /\ m <= l
      /\ DOMAIN h = 1..l /\ DOMAIN s = 1..m
      /\ \A n \in 1..m : s[n] = h[l - m + n]
  <2>1. l \in Nat /\ m \in Nat /\ DOMAIN h = 1..l /\ DOMAIN s = 1..m
    OBVIOUS
  <2>2. m <= l /\ \A n \in DOMAIN s : s[n] = h[l - m + n]
    BY DEF Recent
  <2> QED
    BY <2>1, <2>2
<1> HIDE DEF l, m
<1>2. \A n \in 1..m : l - m + n \in 1..l
  BY <1>1
<1>3. Sorted(s)
  <2> SUFFICES ASSUME NEW i \in 1..m, NEW j \in 1..m, i <= j
               PROVE  s[i] <= s[j]
    BY <1>1 DEF Sorted
  <2>a. l \in Nat /\ m \in Nat /\ m <= l
    BY <1>1
  <2>1. l - m + i <= l - m + j /\ l - m + i \in 1..l /\ l - m + j \in 1..l
    BY <2>a
  <2>2. \A a, b \in 1..l : a <= b => h[a] <= h[b]
    BY <1>1 DEF Timely, Sorted
  <2>3. h[l - m + i] <= h[l - m + j]
    BY <2>1, <2>2
  <2>4. s[i] = h[l - m + i] /\ s[j] = h[l - m + j]
    BY <1>1
  <2> QED
    BY <2>3, <2>4
<1>4. PICK k \in 0..m :
         /\ InWindow(s) \in Seq(Nat)
         /\ Len(InWindow(s)) = m - k
         /\ \A n \in 1..(m - k) : InWindow(s)[n] = s[k + n]
         /\ \A i \in 1..m : now - s[i] < Window <=> k < i
  BY <1>3, WindowIsEnd DEF m
<1>5. ASSUME NEW n \in 1..(m - k)
      PROVE  InWindow(s)[n] = h[l - m + k + n]
  <2>1. l \in Nat /\ m \in Nat /\ k \in 0..m /\ n \in 1..(m - k)
    BY <1>1
  <2>2. k + n \in 1..m /\ l - m + (k + n) = l - m + k + n
    BY <2>1
  <2>3. InWindow(s)[n] = s[k + n]
    BY <1>4
  <2>4. s[k + n] = h[l - m + (k + n)]
    BY <1>1, <2>2
  <2> QED
    BY <2>2, <2>3, <2>4
<1>6. ASSUME NEW i \in 1..l, now - h[i] < Window, l - i + 1 <= m
      PROVE  l - i + 1 <= m - k
  <2> DEFINE p == i - (l - m)
  <2>1. p \in 1..m /\ l - m + p = i
    BY <1>1, <1>6
  <2>2. s[p] = h[i]
    BY <1>1, <2>1
  <2> HIDE DEF p
  <2>3. now - s[p] < Window
    BY <1>6, <2>2
  <2>4. k < p
    BY <1>4, <2>1, <2>3
  <2>5. k \in Nat /\ p \in Nat /\ i \in Nat
    BY <1>1, <2>1
  <2> QED
    BY <1>1, <2>1, <2>4, <2>5
<1>7. ASSUME NEW i \in 1..l, l - i + 1 <= m - k
      PROVE  now - h[i] < Window
  <2> DEFINE p == i - (l - m)
  <2>1. p \in 1..m /\ l - m + p = i /\ k < p
    BY <1>1, <1>7
  <2>2. s[p] = h[i]
    BY <1>1, <2>1
  <2> HIDE DEF p
  <2>3. now - s[p] < Window
    BY <1>4, <2>1
  <2> QED
    BY <2>2, <2>3
<1> QED
  BY <1>4, <1>5, <1>6, <1>7 DEF l, m, Since

\* What a further failure makes of the remembered ones: the last of all with it,
\* and every failure of the window that was remembered is among them.
LEMMA CountIsEnd ==
  ASSUME now \in Nat, NEW h \in Seq(Nat), NEW s \in Seq(Nat), Timely(h, now), Recent(h, s)
  PROVE  LET c == Count(s)
             g == Append(h, now)
         IN  /\ c \in Seq(Nat)
             /\ Len(c) \in 1..(Len(s) + 1)
             /\ Len(c) <= Len(g)
             /\ \A n \in DOMAIN c : c[n] = g[Len(g) - Len(c) + n]
             /\ \A i \in DOMAIN h :
                   /\ now - h[i] < Window /\ Since(h, i) <= Len(s) => Since(g, i) <= Len(c)
                   /\ Since(g, i) <= Len(c) => now - g[i] < Window
<1> DEFINE l == Len(h)
           m == Len(s)
           w == InWindow(s)
           g == Append(h, now)
           c == Append(w, now)
<1>1. /\ l \in Nat /\ m \in Nat /\ m <= l
      /\ DOMAIN h = 1..l
      /\ Len(g) = l + 1 /\ DOMAIN g = 1..(l + 1)
      /\ g[l + 1] = now /\ \A i \in 1..l : g[i] = h[i]
  BY DEF Recent
<1>2. PICK k \in 0..m :
         /\ w \in Seq(Nat)
         /\ Len(w) = m - k
         /\ \A n \in 1..(m - k) : w[n] = h[l - m + k + n]
         /\ \A i \in 1..l :
               /\ now - h[i] < Window /\ Since(h, i) <= m => Since(h, i) <= m - k
               /\ Since(h, i) <= m - k => now - h[i] < Window
  BY RememberedIsKept
<1>3. Count(s) = c
  BY DEF Count
<1> HIDE DEF w, g
<1>4. /\ c \in Seq(Nat) /\ Len(c) = m - k + 1 /\ DOMAIN c = 1..(m - k + 1)
      /\ c[m - k + 1] = now /\ \A n \in 1..(m - k) : c[n] = w[n]
  BY <1>2
<1> HIDE DEF c, l, m
<1>5. Len(c) \in 1..(m + 1) /\ Len(c) <= Len(g)
  BY <1>1, <1>4
<1>6. ASSUME NEW n \in DOMAIN c
      PROVE  c[n] = g[Len(g) - Len(c) + n]
  <2>1. CASE n \in 1..(m - k)
    <3> DEFINE q == l - m + k + n
    <3>1. q \in 1..l /\ Len(g) - Len(c) + n = q
      <4>1. n \in Nat /\ 1 <= n /\ n <= m - k /\ k \in Nat /\ k <= m
        BY <1>1, <2>1
      <4>2. Len(g) = l + 1 /\ Len(c) = m - k + 1
        BY <1>1, <1>4
      <4>3. l \in Nat /\ m \in Nat /\ m <= l
        BY <1>1
      <4>4. l - m + k + n \in 1..l /\ (l + 1) - (m - k + 1) + n = l - m + k + n
        BY <4>1, <4>3
      <4> QED
        BY <4>2, <4>4
    <3>2. c[n] = h[q]
      BY <1>2, <1>4, <2>1
    <3> HIDE DEF q
    <3> QED
      BY <1>1, <3>1, <3>2
  <2>2. CASE n \notin 1..(m - k)
    <3> DEFINE x == Len(g)
               y == Len(c)
    <3>1. l \in Nat /\ m \in Nat /\ x = l + 1 /\ y = m - k + 1 /\ n \in 1..(m - k + 1)
      BY <1>1, <1>4
    <3> HIDE DEF x, y
    <3>2. n = m - k + 1
      BY <2>2, <3>1
    <3>3. x - y + n = l + 1
      BY <3>1, <3>2
    <3> QED
      BY <1>1, <1>4, <3>2, <3>3 DEF x, y
  <2> QED
    BY <2>1, <2>2
<1>7. ASSUME NEW i \in 1..l
      PROVE  /\ now - h[i] < Window /\ Since(h, i) <= m => Since(g, i) <= Len(c)
             /\ Since(g, i) <= Len(c) => now - g[i] < Window
  <2>1. Since(g, i) <= Len(c) <=> Since(h, i) <= m - k
    <3>1. Since(g, i) = l + 1 - i + 1 /\ Since(h, i) = l - i + 1
      BY <1>1 DEF Since, l
    <3> QED
      BY <1>1, <1>4, <3>1
  <2>2. g[i] = h[i]
    BY <1>1
  <2> QED
    BY <1>2, <2>1, <2>2
<1> QED
  BY <1>1, <1>3, <1>4, <1>5, <1>6, <1>7 DEF g, l, m

Remembered(s) == IF IsTooMany(Count(s)) THEN <<>> ELSE Count(s)
LockedUntil(s, u) == IF IsTooMany(Count(s)) THEN now + Lockout ELSE u

\* Times stay in order, and what is remembered are the last of all.
LEMMA FailureIsRecent ==
  ASSUME now \in Nat, NEW h \in Seq(Nat), NEW s \in Seq(Nat), Timely(h, now), Recent(h, s)
  PROVE  /\ Remembered(s) \in Seq(Nat)
         /\ Timely(Append(h, now), now)
         /\ Recent(Append(h, now), Remembered(s))
<1> DEFINE g == Append(h, now)
           c == Count(s)
           l == Len(h)
<1>1. /\ l \in Nat /\ DOMAIN h = 1..l /\ \A i \in 1..l : h[i] \in Nat
      /\ g \in Seq(Nat) /\ Len(g) = l + 1 /\ DOMAIN g = 1..(l + 1)
      /\ g[l + 1] = now /\ \A i \in 1..l : g[i] = h[i]
  OBVIOUS
<1>2. /\ c \in Seq(Nat)
      /\ Len(c) \in Nat
      /\ Len(c) <= Len(g)
      /\ \A n \in DOMAIN c : c[n] = g[Len(g) - Len(c) + n]
  <2>1. /\ c \in Seq(Nat)
        /\ Len(c) <= Len(g)
        /\ \A n \in DOMAIN c : c[n] = g[Len(g) - Len(c) + n]
    BY CountIsEnd
  <2> HIDE DEF c, g
  <2> QED
    BY <2>1
<1> HIDE DEF g, c, l
<1>3. Timely(g, now)
  <2>1. \A i \in 1..(l + 1) : g[i] \in Nat /\ g[i] <= now
    <3> SUFFICES ASSUME NEW i \in 1..(l + 1) PROVE g[i] \in Nat /\ g[i] <= now
      OBVIOUS
    <3>1. CASE i \in 1..l
      BY <1>1, <3>1 DEF Timely
    <3>2. CASE i \notin 1..l
      <4>1. i = l + 1
        BY <1>1, <3>2
      <4> QED
        BY <1>1, <4>1
    <3> QED
      BY <3>1, <3>2
  <2>2. ASSUME NEW i \in 1..(l + 1), NEW j \in 1..(l + 1), i <= j
        PROVE  g[i] <= g[j]
    <3>1. CASE j \in 1..l
      <4>1. i \in 1..l
        BY <1>1, <2>2, <3>1
      <4> QED
        BY <1>1, <2>2, <3>1, <4>1 DEF Timely, Sorted
    <3>2. CASE j \notin 1..l
      <4>1. j = l + 1
        BY <1>1, <3>2
      <4> QED
        BY <1>1, <2>1, <4>1
    <3> QED
      BY <3>1, <3>2
  <2> QED
    BY <1>1, <2>1, <2>2 DEF Timely, Sorted
<1>4. CASE IsTooMany(c)
  <2>1. Remembered(s) = <<>>
    BY <1>4 DEF Remembered, c
  <2>2. Recent(g, <<>>)
    <3>1. Len(<<>>) = 0 /\ DOMAIN <<>> = {}
      OBVIOUS
    <3> QED
      BY <1>1, <3>1, BoundsHold DEF Recent, Bounds
  <2> QED
    BY <1>3, <2>1, <2>2 DEF g
<1>5. CASE ~ IsTooMany(c)
  <2>1. Remembered(s) = c
    BY <1>5 DEF Remembered, c
  <2>2. Len(c) < MaxAttempts
    BY <1>2, <1>5, BoundsHold DEF IsTooMany, Bounds
  <2> QED
    BY <1>2, <1>3, <2>1, <2>2 DEF Recent, g
<1> QED
  BY <1>4, <1>5

\* A failure is remembered, or it sets a lock that outlasts all windows that are
\* open; its handler is one less of those that can still record one.
LEMMA FailureIsOpen ==
  ASSUME now \in Nat, NEW h \in Seq(Nat), NEW s \in Seq(Nat), NEW u \in Nat \cup {Never},
         NEW f \in 1..Cardinality(Handlers),
         Timely(h, now), Recent(h, s), Open(h, s, u, f, now)
  PROVE  Open(Append(h, now), Remembered(s), LockedUntil(s, u), f - 1, now)
<1> DEFINE g == Append(h, now)
           c == Count(s)
           l == Len(h)
           m == Len(s)
           n == Len(c)
           t == Cardinality(Handlers)
           v == LockedUntil(s, u)
<1>1. /\ l \in Nat /\ DOMAIN h = 1..l
      /\ Len(g) = l + 1 /\ DOMAIN g = 1..(l + 1)
      /\ g[l + 1] = now /\ \A i \in 1..l : g[i] = h[i] /\ h[i] \in Nat
  OBVIOUS
<1>2. /\ n \in 1..(m + 1) /\ n <= l + 1 /\ m \in Nat /\ m < MaxAttempts
      /\ \A i \in 1..l : now - h[i] < Window /\ Since(h, i) <= m => Since(g, i) <= n
  <2>1. m \in Nat /\ m < MaxAttempts
    BY DEF Recent
  <2>2. /\ n \in 1..(m + 1) /\ n <= Len(g)
        /\ \A i \in DOMAIN h :
              now - h[i] < Window /\ Since(h, i) <= m => Since(g, i) <= n
    BY CountIsEnd
  <2> QED
    BY <1>1, <2>1, <2>2
<1>3. /\ MaxAttempts \in Nat \ {0} /\ Lockout \in Nat /\ t \in Nat /\ f \in 1..t
  BY BoundsHold DEF Bounds
<1>4. \A i \in 1..l : h[i] <= now
  BY <1>1 DEF Timely
<1>5. \A i \in 1..l : now - h[i] < Window =>
         Since(h, i) <= m \/ (u >= h[i] + Lockout /\ Since(h, i) + f <= MaxAttempts + t - 1)
  BY <1>1 DEF Open
<1>6. \A i \in 1..(l + 1) : Since(g, i) = l + 1 - i + 1
  BY <1>1 DEF Since
<1>7. \A i \in 1..l : Since(h, i) = l - i + 1
  BY <1>1 DEF Since
<1> HIDE DEF g, c, l, m, n, t
<1>8. ASSUME NEW i \in 1..(l + 1), now - g[i] < Window
      PROVE  \/ Since(g, i) <= n
             \/ /\ i \in 1..l
                /\ u >= h[i] + Lockout
                /\ Since(g, i) + (f - 1) <= MaxAttempts + t - 1
  <2>1. CASE i \in 1..l
    <3>1. CASE Since(h, i) <= m
      BY <1>1, <1>2, <1>8, <2>1, <3>1
    <3>2. CASE u >= h[i] + Lockout /\ Since(h, i) + f <= MaxAttempts + t - 1
      <4>1. l - i + 1 + f <= MaxAttempts + t - 1
        BY <1>7, <2>1, <3>2
      <4>2. l + 1 - i + 1 + (f - 1) <= MaxAttempts + t - 1
        BY <1>1, <1>3, <2>1, <4>1
      <4> QED
        BY <1>6, <2>1, <3>2, <4>2
    <3> QED
      BY <1>1, <1>5, <1>8, <2>1, <3>1, <3>2
  <2>2. CASE i \notin 1..l
    <3>1. i = l + 1
      BY <1>1, <2>2
    <3>2. Since(g, i) = 1
      BY <1>1, <1>6, <3>1
    <3> QED
      BY <1>2, <3>2
  <2> QED
    BY <2>1, <2>2
<1>9. CASE IsTooMany(c)
  <2>1. Remembered(s) = <<>> /\ v = now + Lockout
    BY <1>9 DEF Remembered, LockedUntil, c
  <2>2. ASSUME NEW i \in 1..(l + 1), now - g[i] < Window
        PROVE  v >= g[i] + Lockout /\ Since(g, i) + (f - 1) <= MaxAttempts + t - 1
    <3>1. g[i] \in Nat /\ g[i] <= now
      <4>1. CASE i \in 1..l
        BY <1>1, <1>4, <4>1
      <4>2. CASE i \notin 1..l
        <5>1. i = l + 1
          BY <1>1, <4>2
        <5> QED
          BY <1>1, <5>1
      <4> QED
        BY <4>1, <4>2
    <3>2. v >= g[i] + Lockout
      BY <1>3, <2>1, <3>1
    <3>3. CASE Since(g, i) <= n
      <4> DEFINE x == Since(g, i)
      <4>1. x \in Nat /\ x <= n
        BY <1>1, <1>6, <3>3
      <4> HIDE DEF x
      <4>2. x + (f - 1) <= MaxAttempts + t - 1
        BY <1>2, <1>3, <4>1
      <4> QED
        BY <3>2, <4>2 DEF x
    <3>4. CASE Since(g, i) + (f - 1) <= MaxAttempts + t - 1
      BY <3>2, <3>4
    <3> QED
      BY <1>8, <2>2, <3>3, <3>4
  <2> QED
    BY <1>1, <2>1, <2>2 DEF Open, g, t, v
<1>10. CASE ~ IsTooMany(c)
  <2>1. Remembered(s) = c /\ v = u
    BY <1>10 DEF Remembered, LockedUntil, c
  <2>2. \A i \in 1..l : g[i] = h[i]
    BY <1>1
  <2> QED
    BY <1>1, <1>8, <2>1, <2>2 DEF Open, g, n, t, v
<1> QED
  BY <1>9, <1>10

\* So no window has too many of them.
LEMMA OpenIsLimited ==
  ASSUME now \in Nat, NEW h \in Seq(Nat), NEW s \in Seq(Nat), NEW u \in Nat \cup {Never},
         NEW f \in 0..(Cardinality(Handlers) - 1),
         Limited(h), Recent(Append(h, now), s), Open(Append(h, now), s, u, f, now)
  PROVE  Limited(Append(h, now))
<1> DEFINE g == Append(h, now)
           l == Len(h)
           t == Cardinality(Handlers)
<1>1. /\ l \in Nat /\ DOMAIN h = 1..l
      /\ Len(g) = l + 1 /\ DOMAIN g = 1..(l + 1)
      /\ g[l + 1] = now /\ \A i \in 1..l : g[i] = h[i]
  OBVIOUS
<1>2. MaxAttempts \in Nat \ {0} /\ t \in Nat /\ f \in 0..(t - 1)
  BY BoundsHold DEF Bounds
<1>3. Len(s) \in Nat /\ Len(s) < MaxAttempts
  BY DEF Recent
<1> HIDE DEF g, l, t
<1> SUFFICES ASSUME NEW i \in 1..(l + 1), NEW j \in 1..(l + 1), g[j] - g[i] < Window
             PROVE  j - i < MaxAttempts + t - 1
  BY <1>1 DEF Limited, g, t
<1>4. CASE i \in 1..l /\ j \in 1..l
  <2>1. h[j] - h[i] < Window
    BY <1>1, <1>4
  <2> QED
    BY <1>1, <1>4, <2>1 DEF Limited, t
<1>5. CASE j = l + 1 /\ i \in 1..l
  <2>1. now - g[i] < Window /\ i \in DOMAIN g
    BY <1>1, <1>5
  <2>2. Since(g, i) = l + 1 - i + 1
    BY <1>1 DEF Since
  <2>3. Since(g, i) <= Len(s) \/ Since(g, i) + f <= MaxAttempts + t - 1
    BY <2>1 DEF Open, g, t
  <2>4. CASE Since(g, i) <= Len(s)
    BY <1>1, <1>2, <1>3, <1>5, <2>2, <2>4
  <2>5. CASE Since(g, i) + f <= MaxAttempts + t - 1
    BY <1>1, <1>2, <1>5, <2>2, <2>5
  <2> QED
    BY <2>3, <2>4, <2>5
<1>6. CASE i = l + 1
  BY <1>1, <1>2, <1>6
<1> QED
  BY <1>1, <1>4, <1>5, <1>6

\* A lock has its failures behind it, and keeps them as others are recorded.
LEMMA FailureIsCause ==
  ASSUME now \in Nat, NEW h \in Seq(Nat), NEW s \in Seq(Nat), NEW u \in Nat \cup {Never},
         Timely(h, now), Recent(h, s), Caused(h, u)
  PROVE  Caused(Append(h, now), LockedUntil(s, u))
<1> DEFINE g == Append(h, now)
           c == Count(s)
           l == Len(h)
           n == Len(c)
           v == LockedUntil(s, u)
<1>1. /\ l \in Nat /\ DOMAIN h = 1..l
      /\ Len(g) = l + 1 /\ DOMAIN g = 1..(l + 1)
      /\ g[l + 1] = now /\ \A i \in 1..l : g[i] = h[i]
  OBVIOUS
<1>2. /\ n \in Nat /\ n <= l + 1
      /\ \A i \in 1..l : Since(g, i) <= n => now - g[i] < Window
  <2>1. /\ c \in Seq(Nat)
        /\ n <= Len(g)
        /\ \A i \in DOMAIN h : Since(g, i) <= n => now - g[i] < Window
    BY CountIsEnd
  <2> HIDE DEF c, g, l
  <2>2. n \in Nat
    BY <2>1
  <2> QED
    BY <1>1, <2>1, <2>2
<1>3. MaxAttempts \in Nat \ {0} /\ Window \in Nat \ {0}
  BY BoundsHold DEF Bounds
<1>4. \A i \in 1..l : Since(g, i) = l + 1 - i + 1
  BY <1>1 DEF Since
<1> HIDE DEF g, c, l, n
<1> SUFFICES ASSUME v # Never
             PROVE  \E j \in 1..(l + 1) : /\ j >= MaxAttempts
                                          /\ g[j] + Lockout = v
                                          /\ g[j] - g[j - MaxAttempts + 1] < Window
  BY <1>1 DEF Caused, g, v
<1>5. CASE IsTooMany(c)
  <2>1. v = now + Lockout /\ n >= MaxAttempts
    BY <1>5 DEF LockedUntil, IsTooMany, c, n
  <2> DEFINE q == (l + 1) - MaxAttempts + 1
  <2>2. q \in 1..(l + 1) /\ l + 1 >= MaxAttempts
    BY <1>1, <1>2, <1>3, <2>1
  <2>3. now - g[q] < Window
    <3>1. CASE q = l + 1
      <4>1. g[q] = now
        BY <1>1, <3>1
      <4> QED
        BY <1>3, <4>1
    <3>2. CASE q # l + 1
      <4>1. q \in 1..l /\ l + 1 - q + 1 <= n
        BY <1>1, <1>2, <1>3, <2>1, <2>2, <3>2
      <4> QED
        BY <1>2, <1>4, <4>1
    <3> QED
      BY <3>1, <3>2
  <2>4. l + 1 \in 1..(l + 1)
    BY <1>1
  <2> QED
    BY <1>1, <2>1, <2>2, <2>3, <2>4
<1>6. CASE ~ IsTooMany(c)
  <2>1. v = u
    BY <1>6 DEF LockedUntil, c
  <2>2. PICK j \in 1..l : /\ j >= MaxAttempts
                          /\ h[j] + Lockout = u
                          /\ h[j] - h[j - MaxAttempts + 1] < Window
    BY <1>1, <2>1 DEF Caused
  <2>3. j \in 1..(l + 1) /\ j - MaxAttempts + 1 \in 1..l
    BY <1>1, <1>3, <2>2
  <2>4. g[j] = h[j] /\ g[j - MaxAttempts + 1] = h[j - MaxAttempts + 1]
    BY <1>1, <2>3
  <2> QED
    BY <2>1, <2>2, <2>3, <2>4
<1> QED
  BY <1>5, <1>6

-----------------------------------------------------------------------------
(***************************************************************************)
(* The invariant, step by step.                                            *)
(***************************************************************************)

InFlight(a) == {t \in Handlers : checked[t] = a}

Sound(h, s, u, f, c) ==
    /\ Timely(h, c)
    /\ Recent(h, s)
    /\ Caused(h, u)
    /\ Lockout >= Window => Open(h, s, u, f, c) /\ Limited(h)

LimiterInv ==
    \A a \in Addresses :
        Sound(history[a], attempts[a], lockedUntil[a], Cardinality(InFlight(a)), now)

LEMMA LimiterInitTyped == LimiterInit => LimiterTypeOK
<1>1. <<>> \in Seq(Nat)
  OBVIOUS
<1> QED
  BY <1>1 DEF LimiterInit, LimiterTypeOK

\* The handlers in flight are finitely many, all of them threads.
LEMMA InFlightType ==
  ASSUME NEW a \in Addresses
  PROVE  /\ IsFiniteSet(InFlight(a))
         /\ Cardinality(InFlight(a)) \in 0..Cardinality(Handlers)
<1>1. InFlight(a) \in SUBSET Handlers /\ IsFiniteSet(Handlers)
  BY LimiterAssumption DEF InFlight
<1>2. /\ IsFiniteSet(InFlight(a))
      /\ Cardinality(InFlight(a)) <= Cardinality(Handlers)
  BY <1>1, FS_Subset
<1>3. Cardinality(InFlight(a)) \in Nat /\ Cardinality(Handlers) \in Nat
  BY <1>1, <1>2, FS_CardinalityType
<1> QED
  BY <1>2, <1>3

\* Without a handler in flight fewer failures can still come, so what is sound
\* with more is sound with fewer; and what is open without a lock needs none.
LEMMA SoundUnlocked ==
  ASSUME LimiterTypeOK, NEW h \in Seq(Nat), NEW s \in Seq(Nat), NEW u \in Nat \cup {Never},
         NEW f, NEW g, Sound(h, s, u, f, now), u <= now
  PROVE  Sound(h, s, Never, g, now)
<1>1. now \in Nat /\ Window \in Nat /\ Lockout \in Nat
  BY LimiterAssumption DEF LimiterTypeOK
<1>2. ASSUME Lockout >= Window, Open(h, s, u, f, now)
      PROVE  Open(h, s, Never, g, now)
  <2> SUFFICES ASSUME NEW i \in DOMAIN h, now - h[i] < Window
               PROVE  Since(h, i) <= Len(s)
    BY DEF Open
  <2>1. ASSUME u >= h[i] + Lockout
        PROVE  FALSE
    <3> DEFINE x == h[i]
    <3>1. x \in Nat /\ u \in Int /\ u >= x + Lockout /\ u <= now /\ now - x < Window
      BY <2>1 DEF Never
    <3> HIDE DEF x
    <3> QED
      BY <1>1, <1>2, <3>1
  <2> QED
    BY <1>2, <2>1 DEF Open
<1>3. Caused(h, Never)
  BY DEF Caused
<1> QED
  BY <1>2, <1>3 DEF Sound

\* After a success nothing is left.
LEMMA SoundEmpty ==
  ASSUME LimiterTypeOK, NEW f
  PROVE  Sound(<<>>, <<>>, Never, f, now)
<1>1. Len(<<>>) = 0 /\ DOMAIN <<>> = {}
  OBVIOUS
<1>2. Recent(<<>>, <<>>)
  BY <1>1, BoundsHold DEF Recent, Bounds
<1> QED
  BY <1>1, <1>2 DEF Sound, Timely, Sorted, Caused, Open, Limited

LEMMA SoundFailure ==
  ASSUME LimiterTypeOK, NEW h \in Seq(Nat), NEW s \in Seq(Nat), NEW u \in Nat \cup {Never},
         NEW f \in 1..Cardinality(Handlers), Sound(h, s, u, f, now)
  PROVE  Sound(Append(h, now), Remembered(s), LockedUntil(s, u), f - 1, now)
<1>1. now \in Nat /\ Lockout \in Nat /\ Cardinality(Handlers) \in Nat
  BY BoundsHold DEF LimiterTypeOK, Bounds
<1>2. Timely(h, now) /\ Recent(h, s) /\ Caused(h, u)
  BY DEF Sound
<1>3. /\ Remembered(s) \in Seq(Nat)
      /\ Timely(Append(h, now), now)
      /\ Recent(Append(h, now), Remembered(s))
  BY <1>1, <1>2, FailureIsRecent
<1>4. Caused(Append(h, now), LockedUntil(s, u))
  BY <1>1, <1>2, FailureIsCause
<1>5. ASSUME Lockout >= Window
      PROVE  /\ Open(Append(h, now), Remembered(s), LockedUntil(s, u), f - 1, now)
             /\ Limited(Append(h, now))
  <2>1. Open(h, s, u, f, now) /\ Limited(h)
    BY <1>5 DEF Sound
  <2>2. Open(Append(h, now), Remembered(s), LockedUntil(s, u), f - 1, now)
    BY <1>1, <1>2, <2>1, FailureIsOpen
  <2>3. LockedUntil(s, u) \in Nat \cup {Never} /\ f - 1 \in 0..(Cardinality(Handlers) - 1)
    BY <1>1 DEF LockedUntil
  <2>4. Limited(Append(h, now))
    BY <1>1, <1>3, <2>1, <2>2, <2>3, OpenIsLimited
  <2> QED
    BY <2>2, <2>4
<1> QED
  BY <1>3, <1>4, <1>5 DEF Sound

\* What is sound at one time is so a moment later: windows only close.
LEMMA SoundStays ==
  ASSUME LimiterTypeOK, NEW h \in Seq(Nat), NEW s, NEW u, NEW f, Sound(h, s, u, f, now),
         NEW c \in {now, now + 1}
  PROVE  Sound(h, s, u, f, c)
<1>1. \A i \in DOMAIN h : h[i] \in Nat
  OBVIOUS
<1>2. now \in Nat /\ Window \in Nat
  BY LimiterAssumption DEF LimiterTypeOK
<1>3. \A i \in DOMAIN h : h[i] <= now => h[i] <= c
  BY <1>1, <1>2
<1>4. \A i \in DOMAIN h : c - h[i] < Window => now - h[i] < Window
  BY <1>1, <1>2
<1>5. Timely(h, c)
  BY <1>3 DEF Sound, Timely
<1>6. Open(h, s, u, f, now) => Open(h, s, u, f, c)
  BY <1>4 DEF Open
<1> QED
  BY <1>5, <1>6 DEF Sound

LEMMA LimiterStep == LimiterTypeOK /\ LimiterInv /\ [LimiterNext]_limiterVars => LimiterTypeOK' /\ LimiterInv'
<1> SUFFICES ASSUME LimiterTypeOK, LimiterInv, [LimiterNext]_limiterVars PROVE LimiterTypeOK' /\ LimiterInv'
  OBVIOUS
<1> DEFINE Here(b) == Sound(history'[b], attempts'[b], lockedUntil'[b],
                            Cardinality(InFlight(b)'), now')
<1>1. ASSUME NEW b \in Addresses, now' \in {now, now + 1},
             history'[b] = history[b], attempts'[b] = attempts[b],
             lockedUntil'[b] = lockedUntil[b], InFlight(b)' = InFlight(b)
      PROVE  Here(b)
  <2>1. Sound(history[b], attempts[b], lockedUntil[b], Cardinality(InFlight(b)), now)
    BY DEF LimiterInv
  <2>2. history[b] \in Seq(Nat)
    BY DEF LimiterTypeOK
  <2> QED
    BY <1>1, <2>1, <2>2, SoundStays
<1>2. (\A b \in Addresses : Here(b)) => LimiterInv'
  BY DEF LimiterInv
<1> HIDE DEF Here
<1>3. CASE Tick
  <2>1. now' = now + 1 /\ UNCHANGED <<attempts, lockedUntil, checked, history>>
    BY <1>3 DEF Tick
  <2>2. \A b \in Addresses : InFlight(b)' = InFlight(b)
    BY <2>1 DEF InFlight
  <2>3. LimiterTypeOK'
    BY <2>1 DEF LimiterTypeOK
  <2> QED
    BY <1>1, <1>2, <2>1, <2>2, <2>3
<1>4. ASSUME NEW t \in Handlers, NEW a \in Addresses, NotLocked(t, a)
      PROVE  LimiterTypeOK' /\ LimiterInv'
  <2>1. /\ checked[t] = Idle /\ lockedUntil[a] <= now
        /\ lockedUntil' = [lockedUntil EXCEPT ![a] = Never]
        /\ checked' = [checked EXCEPT ![t] = a]
        /\ UNCHANGED <<now, attempts, history>>
    BY <1>4 DEF NotLocked, Begin
  <2>2. LimiterTypeOK'
    BY <2>1 DEF LimiterTypeOK
  <2>3. ASSUME NEW b \in Addresses, b # a
        PROVE  Here(b)
    <3>1. InFlight(b)' = InFlight(b)
      <4>1. b # Idle
        BY LimiterAssumption DEF Idle
      <4> QED
        BY <2>1, <2>3, <4>1 DEF InFlight, LimiterTypeOK
    <3> QED
      BY <1>1, <2>1, <2>3, <3>1 DEF LimiterTypeOK
  <2>4. Here(a)
    <3>1. Sound(history[a], attempts[a], lockedUntil[a], Cardinality(InFlight(a)), now)
      BY DEF LimiterInv
    <3>2. /\ history[a] \in Seq(Nat) /\ attempts[a] \in Seq(Nat)
          /\ lockedUntil[a] \in Nat \cup {Never}
          /\ lockedUntil'[a] = Never
      BY <2>1 DEF LimiterTypeOK
    <3>3. Sound(history[a], attempts[a], Never, Cardinality(InFlight(a)'), now)
      BY <2>1, <3>1, <3>2, SoundUnlocked
    <3> QED
      BY <2>1, <3>2, <3>3 DEF Here
  <2> QED
    BY <1>2, <2>2, <2>3, <2>4
<1>5. ASSUME NEW t \in Handlers, NEW a \in Addresses, a = checked[t],
             checked' = [checked EXCEPT ![t] = Idle]
      PROVE  /\ \A b \in Addresses : b # a => InFlight(b)' = InFlight(b)
             /\ Cardinality(InFlight(a)) \in 1..Cardinality(Handlers)
             /\ Cardinality(InFlight(a)') = Cardinality(InFlight(a)) - 1
  <2>2. \A b \in Addresses : b # Idle
    BY LimiterAssumption DEF Idle
  <2>3. ASSUME NEW b \in Addresses, b # a
        PROVE  InFlight(b)' = InFlight(b)
    BY <1>5, <2>2, <2>3 DEF InFlight, LimiterTypeOK
  <2>4. InFlight(a)' = InFlight(a) \ {t} /\ t \in InFlight(a)
    BY <1>5, <2>2 DEF InFlight, LimiterTypeOK
  <2> DEFINE F == InFlight(a)
             f == Cardinality(F)
  <2>5. IsFiniteSet(F) /\ f \in 0..Cardinality(Handlers)
    BY InFlightType
  <2>6. Cardinality(F \ {t}) = f - 1
    BY <2>4, <2>5, FS_RemoveElement
  <2>7. Cardinality(F \ {t}) \in Nat
    BY <2>5, FS_RemoveElement, FS_CardinalityType
  <2>8. f \in 1..Cardinality(Handlers)
    <3> HIDE DEF f
    <3> QED
      BY <2>5, <2>6, <2>7, BoundsHold DEF Bounds
  <2> QED
    BY <2>3, <2>4, <2>6, <2>8
<1>6. ASSUME NEW t \in Handlers, Failure(t)
      PROVE  LimiterTypeOK' /\ LimiterInv'
  <2>0. PICK a \in Addresses : a = checked[t]
    BY <1>6 DEF Failure, LimiterTypeOK
  <2> DEFINE h == history[a]
             s == attempts[a]
             u == lockedUntil[a]
             f == Cardinality(InFlight(a))
  <2>1. /\ checked' = [checked EXCEPT ![t] = Idle]
        /\ attempts' = [attempts EXCEPT ![a] = Remembered(s)]
        /\ lockedUntil' = [lockedUntil EXCEPT ![a] = LockedUntil(s, u)]
        /\ history' = [history EXCEPT ![a] = Append(h, now)]
        /\ now' = now
    BY <1>6, <2>0 DEF Failure, End, Remembered, LockedUntil
  <2>2. /\ \A b \in Addresses : b # a => InFlight(b)' = InFlight(b)
        /\ f \in 1..Cardinality(Handlers)
        /\ Cardinality(InFlight(a)') = f - 1
    BY <1>5, <2>0, <2>1
  <2>3. /\ h \in Seq(Nat) /\ s \in Seq(Nat) /\ u \in Nat \cup {Never} /\ now \in Nat
        /\ Sound(h, s, u, f, now)
    BY <2>2 DEF LimiterTypeOK, LimiterInv
  <2> HIDE DEF h, s, u, f
  <2>4. Sound(Append(h, now), Remembered(s), LockedUntil(s, u), f - 1, now)
    BY <2>2, <2>3, SoundFailure
  <2>5. /\ attempts'[a] = Remembered(s)
        /\ lockedUntil'[a] = LockedUntil(s, u)
        /\ history'[a] = Append(h, now)
        /\ \A b \in Addresses : b # a => /\ attempts'[b] = attempts[b]
                                         /\ lockedUntil'[b] = lockedUntil[b]
                                         /\ history'[b] = history[b]
    BY <2>1, <2>2 DEF LimiterTypeOK
  <2>6. Here(a)
    BY <2>1, <2>2, <2>4, <2>5 DEF Here
  <2>7. ASSUME NEW b \in Addresses, b # a
        PROVE  Here(b)
    BY <1>1, <2>1, <2>2, <2>5, <2>7
  <2>8. LimiterTypeOK'
    <3>1. Remembered(s) \in Seq(Nat)
      BY <2>3, FailureIsRecent DEF Sound
    <3>2. LockedUntil(s, u) \in Nat \cup {Never}
      BY <2>3, BoundsHold DEF LockedUntil, Bounds
    <3>3. Append(h, now) \in Seq(Nat)
      BY <2>3
    <3> QED
      BY <2>1, <2>2, <3>1, <3>2, <3>3 DEF LimiterTypeOK
  <2> QED
    BY <1>2, <2>6, <2>7, <2>8
<1>7. ASSUME NEW t \in Handlers, Success(t)
      PROVE  LimiterTypeOK' /\ LimiterInv'
  <2>0. PICK a \in Addresses : a = checked[t]
    BY <1>7 DEF Success, LimiterTypeOK
  <2>1. /\ checked' = [checked EXCEPT ![t] = Idle]
        /\ attempts' = [attempts EXCEPT ![a] = <<>>]
        /\ lockedUntil' = [lockedUntil EXCEPT ![a] = Never]
        /\ history' = [history EXCEPT ![a] = <<>>]
        /\ now' = now
    BY <1>7, <2>0 DEF Success, End, Forgiven
  <2>2. \A b \in Addresses : b # a => InFlight(b)' = InFlight(b)
    BY <1>5, <2>0, <2>1
  <2>3. /\ attempts'[a] = <<>> /\ lockedUntil'[a] = Never /\ history'[a] = <<>>
        /\ \A b \in Addresses : b # a => /\ attempts'[b] = attempts[b]
                                         /\ lockedUntil'[b] = lockedUntil[b]
                                         /\ history'[b] = history[b]
    BY <2>1, <2>2 DEF LimiterTypeOK
  <2>4. Here(a)
    BY <2>1, <2>3, SoundEmpty DEF Here
  <2>5. ASSUME NEW b \in Addresses, b # a
        PROVE  Here(b)
    BY <1>1, <2>1, <2>2, <2>3, <2>5
  <2>6. LimiterTypeOK'
    <3>1. <<>> \in Seq(Nat)
      OBVIOUS
    <3> QED
      BY <2>1, <2>2, <3>1 DEF LimiterTypeOK
  <2> QED
    BY <1>2, <2>4, <2>5, <2>6
<1>8. CASE UNCHANGED limiterVars
  <2>1. UNCHANGED <<now, attempts, lockedUntil, checked, history>>
    BY <1>8 DEF limiterVars
  <2>2. \A b \in Addresses : InFlight(b)' = InFlight(b)
    BY <2>1 DEF InFlight
  <2>3. LimiterTypeOK'
    BY <2>1 DEF LimiterTypeOK
  <2> QED
    BY <1>1, <1>2, <2>1, <2>2, <2>3
<1> QED
  BY <1>3, <1>4, <1>6, <1>7, <1>8 DEF LimiterNext, Refused

LEMMA InitLimiter == LimiterInit => LimiterTypeOK /\ LimiterInv
<1> SUFFICES ASSUME LimiterInit PROVE LimiterTypeOK /\ LimiterInv
  OBVIOUS
<1>1. LimiterTypeOK
  BY LimiterInitTyped
<1>2. ASSUME NEW a \in Addresses
      PROVE  Sound(history[a], attempts[a], lockedUntil[a], Cardinality(InFlight(a)), now)
  <2>1. history[a] = <<>> /\ attempts[a] = <<>> /\ lockedUntil[a] = Never
    BY DEF LimiterInit
  <2> QED
    BY <1>1, <2>1, SoundEmpty
<1> QED
  BY <1>1, <1>2 DEF LimiterInv

LEMMA LimiterHolds == LimiterSpec => [](LimiterTypeOK /\ LimiterInv)
BY InitLimiter, LimiterStep, PTL DEF LimiterSpec

\* Every variable of the limiter keeps its type, for any threads and limits.
THEOREM LimiterTyping == LimiterSpec => []LimiterTypeOK
BY LimiterHolds, PTL

\* For any number of threads and addresses: in no window has an address more
\* failures without a success than max_attempts and one for each other handler
\* that was past the check of the lock when it was set, if a lock lasts as long
\* as a window.
THEOREM AttemptsLimited == LimiterSpec => []AttemptsAreLimited
<1>1. LimiterTypeOK /\ LimiterInv => AttemptsAreLimited
  BY DEF LimiterInv, Sound, Limited, AttemptsAreLimited
<1> QED
  BY <1>1, LimiterHolds, PTL

\* For any limits: every lock has max_attempts failures within a window and since
\* the last success behind it, and ends lockout_seconds after the last of them.
THEOREM LocksAreCaused == LimiterSpec => []LockedForCause
<1>1. LimiterTypeOK /\ LimiterInv => LockedForCause
  BY DEF LimiterInv, Sound, Caused, LockedForCause
<1> QED
  BY <1>1, LimiterHolds, PTL
=============================================================================
