------------------------------ MODULE Accounts -------------------------------
(***************************************************************************)
(* The administrator's password and login sessions (src/auth.ts), the      *)
(* import of an old auth.json, and the login throttle                      *)
(* (src/http/auth-routes.ts).  Calls interleave between the awaits of a    *)
(* read, a scrypt and the transaction that follows; a transaction may fail *)
(* or lose its answer; the process may die at any point.                   *)
(*                                                                         *)
(* One call per id: the id also names the token of the session and the     *)
(* salt of the record the call makes, which are random in the code.  The   *)
(* throttle is that of one address.  Cookies, the set-up token, the checks *)
(* of a new password and the versions of the stored state are left out.    *)
(***************************************************************************)
EXTENDS Naturals, FiniteSets

CONSTANTS
    Call,           \* requests, each made once
    Password,
    None,
    File, Kept,     \* the salts and tokens of auth.json, and of an older database
    MaxSessions,    \* MAX_ACTIVE_SESSIONS
    Limit,          \* LOGIN_ATTEMPT_LIMIT
    MaxRestarts     \* bound

Token == Call \cup {File, Kept}

\* A password record; "era" is the call that chose the password, and outlives
\* a record made anew with current parameters.
Record(password, era, salt) == [password |-> password, era |-> era, salt |-> salt]
Records == [password : Password, era : Token, salt : Token]
Sessions == [token : Token, era : Token]
States == [record : Records \cup {None}, sessions : SUBSET Sessions]

ASSUME TokenAssumption == Call \cap {File, Kept} = {} /\ File # Kept
ASSUME NoneAssumption == None \notin Token \cup Records \cup States
ASSUME BoundAssumption == {MaxSessions, Limit} \subseteq Nat \ {0} /\ MaxRestarts \in Nat

VARIABLES
    row,            \* the state "auth" of the database, or None
    marker,         \* the import is completed
    file,           \* the password record of auth.json, or None
    expired,        \* tokens whose time is over
    server,         \* where the process is: down, starting, or up
    calls,          \* the calls in progress
    attempts,       \* the reservations of the throttle
    begun,          \* the calls that were made
    restarts,
    served,         \* history: the process has been up
    refused         \* history: logins answered "wrong password"

stored == <<row, marker, file>>
throttle == <<attempts, refused>>
world == <<expired, server, restarts, served>>
vars == <<stored, world, calls, begun, throttle>>

Outdated(record) == record.salt \in {File, Kept}

Session(token, record) == [token |-> token, era |-> record.era]
Active(state) == {s \in state.sessions : s.token \notin expired}

Configured == row # None /\ row.record # None
Accepted(token) == Configured /\ \E s \in Active(row) : s.token = token
InForce(password) == Configured /\ row.record.password = password

Calls ==
    [id : Call, kind : {"setup", "login", "change"}, password : Password,
     token : Token \cup {None}, seen : Records \cup {None}, tries : Nat, right : BOOLEAN]

TypeOK ==
    /\ row \in States \cup {None}
    /\ file \in Records \cup {None}
    /\ marker \in BOOLEAN /\ served \in BOOLEAN
    /\ expired \subseteq Token
    /\ server \in {"down", "importing", "marking", "up"}
    /\ calls \subseteq Calls
    /\ attempts \cup refused \cup {c.id : c \in calls} \subseteq begun
    /\ begun \subseteq Call
    /\ restarts \in 0 .. MaxRestarts

----------------------------------------------------------------------------
(* Start-up (initialize), which one process does before it listens.        *)

Unconfigured == [record |-> None, sessions |-> {}]

\* A mutant: a state that is there already counts as imported.
CreateStatesMarked ==
    /\ server = "down"
    /\ server' = "importing"
    /\ row' = IF row = None THEN Unconfigured ELSE row
    /\ marker' = (row # None)
    /\ UNCHANGED <<file, expired, restarts, served, calls, begun, throttle>>

CreateStates ==
    /\ server = "down"
    /\ server' = "importing"
    /\ row' = IF row = None THEN Unconfigured ELSE row
    /\ UNCHANGED <<marker, file, expired, restarts, served, calls, begun, throttle>>

\* A mutant: the file's session is imported too.
ImportFileWhole ==
    /\ server = "importing"
    /\ server' = "marking"
    /\ row' = IF row.record = None /\ ~marker /\ file # None
                THEN [record |-> file, sessions |-> {Session(File, file)}] ELSE row
    /\ UNCHANGED <<marker, file, expired, restarts, served, calls, begun, throttle>>

ImportFile ==
    /\ server = "importing"
    /\ server' = "marking"
    /\ row' = IF row.record = None /\ ~marker /\ file # None
                THEN [record |-> file, sessions |-> {}] ELSE row
    /\ UNCHANGED <<marker, file, expired, restarts, served, calls, begun, throttle>>

MarkImported ==
    /\ server = "marking"
    /\ server' = "up" /\ marker' = TRUE /\ served' = TRUE
    /\ UNCHANGED <<row, file, expired, restarts, calls, begun, throttle>>

\* The process ends, for whatever reason; the throttle is kept in memory.
Crash ==
    /\ server # "down" /\ restarts < MaxRestarts
    /\ server' = "down" /\ restarts' = restarts + 1
    /\ calls' = {} /\ attempts' = {}
    /\ UNCHANGED <<stored, expired, served, begun, refused>>

\* The operator forgets the password: the state is deleted, the marker is not.
Reset ==
    /\ server = "down" /\ row # None
    /\ row' = None
    /\ UNCHANGED <<marker, file, world, calls, begun, throttle>>

----------------------------------------------------------------------------
(* Calls.                                                                  *)

\* "right": the password was in force when the call began, and no other was set since.
New(c, kind, password) ==
    [id |-> c, kind |-> kind, password |-> password, token |-> None, seen |-> None,
     tries |-> 0, right |-> InForce(password)]

Begin(call) ==
    /\ server = "up" /\ call.id \notin begun
    /\ begun' = begun \cup {call.id}

Others(c) == calls \ {c}

\* mutateState: the whole transaction took effect, or none of it.
Ended(c) == calls' = {[k EXCEPT !.right = @ /\ row'.record.era = row.record.era] : k \in Others(c)}
Aborted(c) == UNCHANGED row /\ calls' = Others(c)

BeginSetup(c, password) ==
    /\ Begin(New(c, "setup", password))
    /\ ~Configured
    /\ calls' = calls \cup {New(c, "setup", password)}
    /\ UNCHANGED <<stored, world, throttle>>

EndSetup(c) ==
    /\ c.kind = "setup"
    /\ \/ /\ row.record = None
          /\ LET record == Record(c.password, c.id, c.id) IN
             row' = [record |-> record, sessions |-> {Session(c.id, record)}]
          /\ calls' = Others(c)
       \/ Aborted(c)
    /\ UNCHANGED <<marker, file, world, begun, throttle>>

(* Login.  The attempt is reserved when the request arrives, before its    *)
(* body is read, and given back when the call fails for another reason     *)
(* than the password.                                                      *)

BeginLogin(c, password) ==
    /\ Begin(New(c, "login", password))
    /\ Cardinality(attempts) < Limit
    /\ attempts' = attempts \cup {c}
    /\ calls' = calls \cup {New(c, "login", password)}
    /\ UNCHANGED <<stored, world, refused>>

CancelAttempt(c) == attempts' = attempts \ {c.id}

LoginFails(c) ==
    /\ c.kind = "login"
    /\ CancelAttempt(c) /\ Aborted(c)
    /\ UNCHANGED <<marker, file, world, begun, refused>>

Refuse(c) ==
    /\ refused' = refused \cup {c.id}
    /\ calls' = Others(c)
    /\ UNCHANGED <<row, attempts>>

\* The read of one of the two rounds, and the scrypt, which is taken never to fail.
Verify(c) ==
    /\ c.kind = "login" /\ c.seen = None
    /\ Configured
    /\ IF row.record.password # c.password THEN Refuse(c)
       ELSE /\ calls' = Others(c) \cup {[c EXCEPT !.seen = row.record, !.tries = @ + 1]}
            /\ UNCHANGED <<row, throttle>>
    /\ UNCHANGED <<marker, file, world, begun>>

Open(c, record) ==
    [record |-> record, sessions |-> Active(row) \cup {Session(c.id, c.seen)}]

Rehashed(c) ==
    IF Outdated(c.seen) THEN Record(c.password, c.seen.era, c.id) ELSE c.seen

\* A mutant: the record is not looked at again.
OpenSessionUnchecked(c) ==
    /\ Cardinality(Active(row)) < MaxSessions
    /\ row' = Open(c, row.record)
    /\ Ended(c)
    /\ attempts' = {} \/ CancelAttempt(c)
    /\ UNCHANGED refused

\* The transaction.  A lost answer gives the attempt back; an answer clears the address.
OpenSession(c) ==
    /\ row.record = c.seen /\ Cardinality(Active(row)) < MaxSessions
    /\ row' = Open(c, Rehashed(c))
    /\ Ended(c)
    /\ attempts' = {} \/ CancelAttempt(c)
    /\ UNCHANGED refused

\* A mutant: one round.
GiveUp(c) == row.record # c.seen /\ Refuse(c)

TryAgain(c) ==
    /\ row.record # c.seen
    /\ IF c.tries < 2
         THEN /\ calls' = Others(c) \cup {[c EXCEPT !.seen = None]}
              /\ UNCHANGED <<row, throttle>>
         ELSE Refuse(c)

EndLogin(c) ==
    /\ c.kind = "login" /\ c.seen # None
    /\ OpenSession(c) \/ TryAgain(c)
    /\ UNCHANGED <<marker, file, world, begun>>

(* A change of the password leaves the one session it opens.               *)

BeginChange(c, token, current, password) ==
    /\ Begin(New(c, "change", password))
    /\ Accepted(token) /\ InForce(current)
    /\ calls' = calls \cup {[New(c, "change", password) EXCEPT !.token = token, !.seen = row.record]}
    /\ UNCHANGED <<stored, world, throttle>>

EndChange(c) ==
    /\ c.kind = "change"
    /\ \/ /\ Accepted(c.token) /\ row.record = c.seen
          /\ LET record == Record(c.password, c.id, c.id) IN
             row' = [record |-> record, sessions |-> {Session(c.id, record)}]
          /\ Ended(c)
       \/ Aborted(c)
    /\ UNCHANGED <<marker, file, world, begun, throttle>>

(* Sessions end: one transaction each, with nothing read before it.        *)

EndSessions(ending) ==
    /\ server = "up"
    /\ row' = [row EXCEPT !.sessions = Active(row) \ ending]
    /\ UNCHANGED <<marker, file, world, calls, begun, throttle>>

Logout(token) == Accepted(token) /\ EndSessions({s \in row.sessions : s.token = token})

Revoke(token, other) ==
    /\ Accepted(token) /\ Accepted(other)
    /\ EndSessions({s \in row.sessions : s.token = other})

RevokeOthers(token) == Accepted(token) /\ EndSessions({s \in row.sessions : s.token # token})

\* Time.
Expire(token) ==
    /\ row # None /\ token \in {s.token : s \in Active(row)}
    /\ expired' = expired \cup {token}
    /\ UNCHANGED <<stored, server, restarts, served, calls, begun, throttle>>

WindowPasses(c) ==
    /\ c \in attempts
    /\ attempts' = attempts \ {c}
    /\ UNCHANGED <<stored, world, calls, begun, refused>>

----------------------------------------------------------------------------
\* Nothing is stored yet, or an earlier version of the program has left its state.
Init ==
    /\ file \in {None} \cup {Record(p, File, File) : p \in Password}
    /\ \/ row = None /\ marker = FALSE
       \/ /\ \E p \in Password : LET record == Record(p, Kept, Kept) IN
               row = [record |-> record, sessions |-> {Session(Kept, record)}]
          /\ marker = TRUE
    /\ served = marker
    /\ server = "down" /\ restarts = 0
    /\ expired = {} /\ calls = {} /\ begun = {}
    /\ attempts = {} /\ refused = {}

Start == CreateStates \/ ImportFile \/ MarkImported

Next ==
    \/ Start \/ Crash \/ Reset
    \/ \E c \in Call, p \in Password : BeginSetup(c, p) \/ BeginLogin(c, p)
    \/ \E c \in Call, token \in Token, p, q \in Password : BeginChange(c, token, p, q)
    \/ \E c \in calls : EndSetup(c) \/ LoginFails(c) \/ Verify(c) \/ EndLogin(c) \/ EndChange(c)
    \/ \E token \in Token : Logout(token) \/ RevokeOthers(token) \/ Expire(token)
    \/ \E token, other \in Token : Revoke(token, other)
    \/ \E c \in Call : WindowPasses(c)

Spec == Init /\ [][Next]_vars

----------------------------------------------------------------------------
(* What must hold.                                                         *)

\* A change of the password ends every session that was opened, or is being
\* opened, with an old one; a record made anew for the same password ends none.
SessionsOfPassword ==
    Configured => \A s \in row.sessions : s.era = row.record.era

\* A token that is not accepted never is again: whatever ends a session (log-out,
\* another device, a new password, time, a reset) is not undone by a call that
\* read the sessions before; and the session of auth.json is never accepted.
EndedStaysEnded ==
    [][\A t \in Token : Accepted(t)' /\ ~Accepted(t) => \E c \in calls : c.id = t]_vars

\* The password of auth.json is there before the server first serves, and is
\* never brought back after it has, however the first starts were cut short.
Imported == Configured /\ row.record.era = File
ImportedOnce ==
    [][/\ ~served /\ served' /\ file # None => Configured'
       /\ Imported' /\ ~Imported => ~served]_vars

\* A login is called wrong only when its password was not in force for all of
\* the call, or was set anew meanwhile; a record made anew by another login,
\* which the login's transaction refuses as well, is no reason.
RightPasswordGetsIn == [][\A c \in calls : c.id \in refused' \ refused => ~c.right]_vars

=============================================================================
