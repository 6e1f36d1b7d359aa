---------------------------- MODULE LoginLimiter ----------------------------
(***************************************************************************)
(* LoginRateLimiter in sylo/webapp/auth.py and the handler that uses it,   *)
(* login_submit in routes/auth.py: failures of an address in a sliding     *)
(* window, and a lock when there are too many.  Handlers run on several    *)
(* threads.  Each call of the limiter holds its lock; between is_locked    *)
(* and the record of the outcome a handler compares the password, which    *)
(* takes long, and others pass.                                            *)
(*                                                                         *)
(* Whether a password is right is left open: either outcome may follow.    *)
(* Definitions whose names begin with Bad are faulty variants, used only to *)
(* see the properties fail.                                                *)
(***************************************************************************)
EXTENDS Integers, Sequences, FiniteSets

CONSTANTS
    Addresses,      \* what client_ip() tells apart
    Handlers,       \* threads of the pool
    MaxAttempts,    \* max_attempts, window_seconds, lockout_seconds
    Window,
    Lockout,
    MaxTime         \* bound: the monotonic clock

ASSUME LimiterAssumption ==
    /\ {MaxAttempts, Window, Lockout, MaxTime} \subseteq Nat \ {0}
    /\ IsFiniteSet(Handlers)
    /\ "idle" \notin Addresses

VARIABLES
    now,            \* time.monotonic()
    attempts,       \* _attempts: per address, times of failures
    lockedUntil,    \* _locked_until, or Never
    checked,        \* per thread, the address it found not locked, or Idle
    history         \* ghost: per address, all its failures since its last
                    \* success, also those the limiter has forgotten

limiterVars == <<now, attempts, lockedUntil, checked, history>>

Never == -1
Idle == "idle"

LimiterInit ==
    /\ now = 0
    /\ attempts = [a \in Addresses |-> <<>>]
    /\ lockedUntil = [a \in Addresses |-> Never]
    /\ checked = [t \in Handlers |-> Idle]
    /\ history = [a \in Addresses |-> <<>>]

\* The n-th of a set of positions.
Nth(S, n) == CHOOSE i \in S : Cardinality({j \in S : j < i}) = n - 1

\* The times of s that a window which ends now still has, in their order.
InWindow(s) ==
    LET kept == {i \in DOMAIN s : now - s[i] < Window}
    IN [n \in 1..Cardinality(kept) |-> s[Nth(kept, n)]]

Tick ==
    /\ now < MaxTime
    /\ now' = now + 1
    /\ UNCHANGED <<attempts, lockedUntil, checked, history>>

Begin(t, a) == checked' = [checked EXCEPT ![t] = a]
End(t) == checked' = [checked EXCEPT ![t] = Idle]

\* is_locked(): there is no lock, or its time has come and it is deleted.
NotLocked(t, a) ==
    /\ checked[t] = Idle
    /\ lockedUntil[a] <= now
    /\ lockedUntil' = [lockedUntil EXCEPT ![a] = Never]
    /\ Begin(t, a)
    /\ UNCHANGED <<now, attempts, history>>

\* is_locked() says yes: the handler answers 429 and nothing changes.
Refused(t, a) ==
    /\ checked[t] = Idle
    /\ lockedUntil[a] > now
    /\ UNCHANGED limiterVars

\* Failures count while they are in the window; the one of now is among them.
Count(s) == Append(InWindow(s), now)

\* Faulty: one failure too many is let through.
BadIsTooMany(s) == Len(s) > MaxAttempts

IsTooMany(s) == Len(s) >= MaxAttempts

\* record_failure().
Failure(t) ==
    /\ checked[t] # Idle
    /\ LET a == checked[t]
           s == Count(attempts[a])
       IN  /\ attempts' = [attempts EXCEPT ![a] = IF IsTooMany(s) THEN <<>> ELSE s]
           /\ lockedUntil' = [lockedUntil EXCEPT ![a] =
                                 IF IsTooMany(s) THEN now + Lockout ELSE @]
           /\ history' = [history EXCEPT ![a] = Append(@, now)]
    /\ End(t)
    /\ UNCHANGED now

\* Faulty: a success clears the lock only.
BadForgiven(s) == s

Forgiven(s) == <<>>

\* record_success(): it also clears a lock that was set since this handler's
\* check.
Success(t) ==
    /\ checked[t] # Idle
    /\ attempts' = [attempts EXCEPT ![checked[t]] = Forgiven(@)]
    /\ lockedUntil' = [lockedUntil EXCEPT ![checked[t]] = Never]
    /\ history' = [history EXCEPT ![checked[t]] = <<>>]
    /\ End(t)
    /\ UNCHANGED now

LimiterNext ==
    \/ Tick
    \/ \E t \in Handlers :
          \/ \E a \in Addresses : NotLocked(t, a) \/ Refused(t, a)
          \/ Failure(t)
          \/ Success(t)

LimiterSpec == LimiterInit /\ [][LimiterNext]_limiterVars

-----------------------------------------------------------------------------
LimiterTypeOK ==
    /\ now \in Nat
    /\ attempts \in [Addresses -> Seq(Nat)]
    /\ lockedUntil \in [Addresses -> Nat \cup {Never}]
    /\ checked \in [Handlers -> Addresses \cup {Idle}]
    /\ history \in [Addresses -> Seq(Nat)]

\* What the limiter is for: in no window has an address more failures without
\* a success than max_attempts and one for each other handler that was
\* between its check and its record when the lock was set.  A lockout that is
\* shorter than the window does not promise this, as failures before the
\* lock are forgotten.
AttemptsAreLimited ==
    Lockout >= Window =>
        \A a \in Addresses : \A i, j \in DOMAIN history[a] :
            history[a][j] - history[a][i] < Window =>
                j - i < MaxAttempts + Cardinality(Handlers) - 1

\* No address is locked without cause, nor longer than it should: there were
\* max_attempts failures within a window, none before a success, and the lock
\* runs from the last of them.
LockedForCause ==
    \A a \in Addresses : lockedUntil[a] # Never =>
        \E j \in DOMAIN history[a] :
            /\ j >= MaxAttempts
            /\ history[a][j] + Lockout = lockedUntil[a]
            /\ history[a][j] - history[a][j - MaxAttempts + 1] < Window
=============================================================================
