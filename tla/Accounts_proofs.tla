--------------------------- MODULE Accounts_proofs ---------------------------
(* The types of Accounts, the sessions a password leaves, the sessions     *)
(* that stay ended, the import of auth.json and the answers of log-ins.    *)
EXTENDS Accounts, TLAPS

-----------------------------------------------------------------------------
(* The inductive invariant.                                                *)

\* A process that has begun to start has a state; only one that is up serves.
Running == (server # "down" => row # None) /\ (calls # {} => server = "up")

SessionInv == TypeOK /\ Running /\ SessionsOfPassword

\* What EndedStaysEnded allows a step to do.
AcceptsOwn == \A t \in Token : Accepted(t)' /\ ~Accepted(t) => \E c \in calls : c.id = t

Good == SessionInv' /\ AcceptsOwn

-----------------------------------------------------------------------------
(* Lemmas about the state.                                                 *)

\* A state that is there is a state, and a configured one has a record.
LEMMA StateTyped ==
    ASSUME TypeOK
    PROVE  /\ row # None => /\ row \in States /\ row.sessions \subseteq Sessions
                            /\ row = [record |-> row.record, sessions |-> row.sessions]
           /\ Configured => row \in States /\ row.record \in Records
  BY DEF TypeOK, States, Configured

LEMMA RecordTyped ==
    ASSUME NEW password \in Password, NEW era \in Token, NEW salt \in Token
    PROVE  /\ Record(password, era, salt) \in Records
           /\ Record(password, era, salt) # None
           /\ Record(password, era, salt).era = era
           /\ Record(password, era, salt).password = password
           /\ Record(password, era, salt).salt = salt
  BY NoneAssumption DEF Record, Records

LEMMA SessionTyped ==
    ASSUME NEW token \in Token, NEW record \in Records
    PROVE  /\ Session(token, record) \in Sessions
           /\ Session(token, record).token = token
           /\ Session(token, record).era = record.era
  BY DEF Session, Sessions, Records

LEMMA StateMade ==
    ASSUME NEW record \in Records \cup {None}, NEW sessions, sessions \subseteq Sessions
    PROVE  /\ [record |-> record, sessions |-> sessions] \in States
           /\ [record |-> record, sessions |-> sessions] # None
  BY NoneAssumption DEF States

LEMMA NewTyped ==
    ASSUME NEW c \in Call, NEW kind \in {"setup", "login", "change"}, NEW password \in Password
    PROVE  New(c, kind, password) \in Calls /\ New(c, kind, password).id = c
<1>1. InForce(password) \in BOOLEAN
  BY DEF InForce
<1>. QED
  BY <1>1 DEF New, Calls

-----------------------------------------------------------------------------
(* Steps that leave the stored state alone.                                *)

LEMMA RowStays ==
    ASSUME SessionInv, row' = row, expired \subseteq expired'
    PROVE  SessionsOfPassword' /\ AcceptsOwn
<1>1. SessionsOfPassword'
  BY DEF SessionInv, SessionsOfPassword, Configured
<1>2. AcceptsOwn
  BY DEF AcceptsOwn, Accepted, Active, Configured
<1>. QED
  BY <1>1, <1>2

\* Every session of the new state is one the old state accepted, or that of a
\* call, and is of the new password.
LEMMA RowMade ==
    ASSUME row' # None, expired' = expired,
           row'.record # None =>
               \A s \in row'.sessions :
                   /\ s.era = row'.record.era
                   /\ \/ Configured /\ s \in Active(row)
                      \/ \E c \in calls : c.id = s.token
    PROVE  SessionsOfPassword' /\ AcceptsOwn
<1>1. SessionsOfPassword'
  BY DEF SessionsOfPassword, Configured
<1>2. ASSUME NEW t \in Token, Accepted(t)', ~Accepted(t)
      PROVE  \E c \in calls : c.id = t
  <2>1. PICK s \in row'.sessions : s.token = t
    BY <1>2 DEF Accepted, Active
  <2>2. row'.record # None
    BY <1>2 DEF Accepted, Configured
  <2>3. ~(Configured /\ s \in Active(row))
    BY <1>2, <2>1 DEF Accepted
  <2>. QED
    BY <2>1, <2>2, <2>3
<1>. QED
  BY <1>1, <1>2 DEF AcceptsOwn

-----------------------------------------------------------------------------
(* The steps.                                                              *)

LEMMA StartStep ==
    ASSUME SessionInv, Start
    PROVE  Good
<1>. USE DEF SessionInv, Good
<1>1. CASE CreateStates
  <2>1. /\ server' = "importing" /\ server = "down"
        /\ UNCHANGED <<marker, file, expired, restarts, served, calls, begun, throttle>>
        /\ row' = IF row = None THEN Unconfigured ELSE row
    BY <1>1 DEF CreateStates
  <2>2. row' \in States /\ row' # None
    BY <2>1, StateMade DEF TypeOK, Unconfigured
  <2>3. TypeOK' /\ Running'
    BY <2>1, <2>2 DEF TypeOK, Running, throttle
  <2>4. CASE row = None
    <3>1. row'.record = None
      BY <2>1, <2>4 DEF Unconfigured
    <3>. QED
      BY <2>1, <2>2, <2>3, <3>1, RowMade
  <2>5. CASE row # None
    BY <2>1, <2>3, <2>5, RowStays
  <2>. QED
    BY <2>4, <2>5
<1>2. CASE ImportFile
  <2>1. /\ server' = "marking" /\ server = "importing"
        /\ UNCHANGED <<marker, file, expired, restarts, served, calls, begun, throttle>>
        /\ row # None
    BY <1>2 DEF ImportFile, Running
  <2>2. CASE row' = row
    <3>1. TypeOK' /\ Running'
      BY <2>1, <2>2 DEF TypeOK, Running, throttle
    <3>. QED
      BY <2>1, <2>2, <3>1, RowStays
  <2>3. CASE row' = [record |-> file, sessions |-> {}]
    <3>1. row' \in States /\ row' # None /\ row'.sessions = {}
      BY <2>3, StateMade DEF TypeOK
    <3>2. TypeOK' /\ Running'
      BY <2>1, <3>1 DEF TypeOK, Running, throttle
    <3>. QED
      BY <2>1, <3>1, <3>2, RowMade
  <2>. QED
    BY <1>2, <2>2, <2>3 DEF ImportFile
<1>3. CASE MarkImported
  <2>1. TypeOK' /\ Running'
    BY <1>3 DEF MarkImported, TypeOK, Running, throttle
  <2>. QED
    BY <1>3, <2>1, RowStays DEF MarkImported
<1>. QED
  BY <1>1, <1>2, <1>3 DEF Start

LEMMA StopStep ==
    ASSUME SessionInv, Crash \/ Reset
    PROVE  Good
<1>. USE DEF SessionInv, Good
<1>1. CASE Crash
  <2>1. TypeOK' /\ Running'
    BY <1>1, BoundAssumption DEF Crash, TypeOK, Running, stored
  <2>2. row' = row /\ expired' = expired
    BY <1>1 DEF Crash, stored
  <2>. QED
    BY <2>1, <2>2, RowStays
<1>2. CASE Reset
  <2>1. TypeOK' /\ Running'
    BY <1>2 DEF Reset, TypeOK, Running, world, throttle
  <2>2. SessionsOfPassword' /\ AcceptsOwn
    BY <1>2 DEF Reset, SessionsOfPassword, AcceptsOwn, Accepted, Configured
  <2>. QED
    BY <2>1, <2>2
<1>. QED
  BY <1>1, <1>2

\* A call begins, in any state.
LEMMA CallBegins ==
    ASSUME SessionInv, NEW c \in Calls, Begin(c),
           calls' = calls \cup {c},
           attempts' \in {attempts, attempts \cup {c.id}},
           refused' = refused,
           UNCHANGED <<stored, world>>
    PROVE  Good
<1>1. TypeOK'
  BY DEF SessionInv, TypeOK, Begin, Calls, stored, world
<1>2. Running'
  BY DEF SessionInv, Running, Begin, stored, world
<1>3. row' = row /\ expired' = expired
  BY DEF stored, world
<1>. QED
  BY <1>1, <1>2, <1>3, RowStays DEF SessionInv, Good

\* A call goes on or ends: no call is added, and the state is replaced by a state.
LEMMA CallGoesOn ==
    ASSUME SessionInv, calls # {}, row' \in States,
           calls' \subseteq Calls, {k.id : k \in calls'} \subseteq {k.id : k \in calls},
           attempts' \subseteq attempts,
           refused' \subseteq refused \cup {k.id : k \in calls},
           UNCHANGED <<marker, file, world, begun>>
    PROVE  TypeOK' /\ Running' /\ expired' = expired
<1>1. row' # None
  BY NoneAssumption
<1>2. TypeOK'
  BY DEF SessionInv, TypeOK, world
<1>3. Running'
  BY <1>1 DEF SessionInv, Running, world
<1>. QED
  BY <1>2, <1>3 DEF world

\* The calls that are left when one ends.
LEMMA CallsLeft ==
    ASSUME TypeOK, NEW c \in calls,
           calls' = Others(c) \/ Ended(c)
    PROVE  calls' \subseteq Calls /\ {k.id : k \in calls'} \subseteq {k.id : k \in calls}
<1>1. CASE calls' = Others(c)
  BY <1>1 DEF Others, TypeOK
<1>2. CASE Ended(c)
  <2>1. ASSUME NEW k \in Others(c)
        PROVE  /\ [k EXCEPT !.right = @ /\ row'.record.era = row.record.era] \in Calls
               /\ [k EXCEPT !.right = @ /\ row'.record.era = row.record.era].id = k.id
               /\ k \in calls
    <3>1. k \in calls /\ k \in Calls
      BY DEF Others, TypeOK
    <3>2. (k.right /\ row'.record.era = row.record.era) \in BOOLEAN
      OBVIOUS
    <3>. QED
      BY <3>1, <3>2 DEF Calls
  <2>. QED
    BY <1>2, <2>1 DEF Ended
<1>. QED
  BY <1>1, <1>2

\* A call that ends for a fault or an answer of no consequence.
LEMMA CallFails ==
    ASSUME SessionInv, NEW c \in calls, Aborted(c),
           attempts' \subseteq attempts, refused' = refused,
           UNCHANGED <<marker, file, world, begun>>
    PROVE  Good
<1>1. row' = row /\ row \in States /\ calls' = Others(c)
  BY StateTyped DEF Aborted, SessionInv, Running
<1>2. calls' \subseteq Calls /\ {k.id : k \in calls'} \subseteq {k.id : k \in calls}
  BY <1>1, CallsLeft DEF SessionInv
<1>3. TypeOK' /\ Running' /\ expired' = expired
  BY <1>1, <1>2, CallGoesOn
<1>. QED
  BY <1>1, <1>3, RowStays DEF SessionInv, Good

\* A call sets a password and opens the one session that is left.
LEMMA PasswordSet ==
    ASSUME SessionInv, NEW c \in calls,
           row' = [record |-> Record(c.password, c.id, c.id),
                   sessions |-> {Session(c.id, Record(c.password, c.id, c.id))}],
           calls' = Others(c) \/ Ended(c),
           UNCHANGED <<marker, file, world, begun, throttle>>
    PROVE  Good
<1>. DEFINE record == Record(c.password, c.id, c.id)
<1>1. c \in Calls /\ c.id \in Token /\ c.password \in Password
  BY DEF SessionInv, TypeOK, Calls, Token
<1>2. record \in Records /\ record.era = c.id
  BY <1>1, RecordTyped
<1>3. /\ Session(c.id, record) \in Sessions
      /\ Session(c.id, record).token = c.id /\ Session(c.id, record).era = c.id
  BY <1>1, <1>2, SessionTyped
<1>4. row' \in States /\ row' # None
  BY <1>2, <1>3, StateMade
<1>5. calls' \subseteq Calls /\ {k.id : k \in calls'} \subseteq {k.id : k \in calls}
  BY CallsLeft DEF SessionInv
<1>6. TypeOK' /\ Running' /\ expired' = expired
  BY <1>4, <1>5, CallGoesOn DEF throttle
<1>7. SessionsOfPassword' /\ AcceptsOwn
  <2>1. row'.record = record /\ row'.sessions = {Session(c.id, record)}
    OBVIOUS
  <2>. QED
    BY <1>2, <1>3, <1>4, <1>6, <2>1, RowMade
<1>. QED
  BY <1>6, <1>7 DEF SessionInv, Good

LEMMA SetupStep ==
    ASSUME SessionInv,
           \/ \E c \in Call, p \in Password : BeginSetup(c, p)
           \/ \E c \in calls : EndSetup(c)
    PROVE  Good
<1>1. ASSUME NEW c \in Call, NEW p \in Password, BeginSetup(c, p)
      PROVE  Good
  <2>1. New(c, "setup", p) \in Calls
    BY NewTyped
  <2>. QED
    BY <1>1, <2>1, CallBegins DEF BeginSetup, throttle
<1>2. ASSUME NEW c \in calls, EndSetup(c)
      PROVE  Good
  <2>1. CASE Aborted(c)
    BY <1>2, <2>1, CallFails DEF EndSetup, throttle
  <2>2. CASE ~Aborted(c)
    BY <1>2, <2>2, PasswordSet DEF EndSetup
  <2>. QED
    BY <2>1, <2>2
<1>. QED
  BY <1>1, <1>2

LEMMA ChangeStep ==
    ASSUME SessionInv,
           \/ \E c \in Call, token \in Token, p, q \in Password : BeginChange(c, token, p, q)
           \/ \E c \in calls : EndChange(c)
    PROVE  Good
<1>1. ASSUME NEW c \in Call, NEW token \in Token, NEW p \in Password, NEW q \in Password,
             BeginChange(c, token, p, q)
      PROVE  Good
  <2>. DEFINE call == [New(c, "change", q) EXCEPT !.token = token, !.seen = row.record]
  <2>1. row.record \in Records
    BY <1>1, StateTyped DEF BeginChange, Accepted, SessionInv
  <2>2. New(c, "change", q) \in Calls /\ New(c, "change", q).id = c
    BY NewTyped
  <2>3. call \in Calls /\ call.id = c
    BY <2>1, <2>2 DEF Calls
  <2>. QED
    BY <1>1, <2>2, <2>3, CallBegins DEF BeginChange, Begin, throttle
<1>2. ASSUME NEW c \in calls, EndChange(c)
      PROVE  Good
  <2>1. CASE Aborted(c)
    BY <1>2, <2>1, CallFails DEF EndChange, throttle
  <2>2. CASE ~Aborted(c)
    BY <1>2, <2>2, PasswordSet DEF EndChange
  <2>. QED
    BY <2>1, <2>2
<1>. QED
  BY <1>1, <1>2

\* The transaction of a login.
LEMMA LoginOpens ==
    ASSUME SessionInv, NEW c \in calls, c.seen # None, OpenSession(c),
           UNCHANGED <<marker, file, world, begun>>
    PROVE  Good
<1>1. c \in Calls /\ c.id \in Token /\ c.password \in Password /\ c.seen \in Records
  BY DEF SessionInv, TypeOK, Calls, Token
<1>2. row # None /\ row.record = c.seen
  BY DEF OpenSession, SessionInv, Running
<1>3. Configured /\ row \in States /\ row.sessions \subseteq Sessions
  BY <1>2, StateTyped DEF Configured, SessionInv
<1>4. Rehashed(c) \in Records /\ Rehashed(c).era = c.seen.era
  <2>1. c.seen.era \in Token
    BY <1>1 DEF Records
  <2>. QED
    BY <1>1, <2>1, RecordTyped DEF Rehashed
<1>5. /\ Session(c.id, c.seen) \in Sessions
      /\ Session(c.id, c.seen).token = c.id /\ Session(c.id, c.seen).era = c.seen.era
  BY <1>1, SessionTyped
<1>6. /\ row'.record = Rehashed(c)
      /\ row'.sessions = Active(row) \cup {Session(c.id, c.seen)}
  BY DEF OpenSession, Open
<1>7. row' \in States /\ row' # None
  <2>1. Active(row) \cup {Session(c.id, c.seen)} \subseteq Sessions
    BY <1>3, <1>5 DEF Active
  <2>. QED
    BY <1>4, <2>1, StateMade DEF OpenSession, Open
<1>8. calls' \subseteq Calls /\ {k.id : k \in calls'} \subseteq {k.id : k \in calls}
  BY CallsLeft DEF OpenSession, SessionInv
<1>9. TypeOK' /\ Running' /\ expired' = expired
  BY <1>7, <1>8, CallGoesOn DEF OpenSession, CancelAttempt
<1>10. SessionsOfPassword' /\ AcceptsOwn
  <2>1. \A s \in Active(row) : s.era = c.seen.era
    BY <1>2, <1>3 DEF SessionInv, SessionsOfPassword, Active
  <2>. QED
    BY <1>3, <1>4, <1>5, <1>6, <1>7, <1>9, <2>1, RowMade
<1>. QED
  BY <1>9, <1>10 DEF SessionInv, Good

\* A login goes on, or is refused.
LEMMA LoginGoesOn ==
    ASSUME SessionInv, NEW c \in calls, row' = row,
           \/ Refuse(c)
           \/ /\ \E k \in Calls : k.id = c.id /\ calls' = Others(c) \cup {k}
              /\ UNCHANGED throttle,
           UNCHANGED <<marker, file, world, begun>>
    PROVE  Good
<1>1. row \in States /\ calls \subseteq Calls
  BY StateTyped DEF SessionInv, Running, TypeOK
<1>2. /\ calls' \subseteq Calls /\ {k.id : k \in calls'} \subseteq {k.id : k \in calls}
      /\ attempts' = attempts /\ refused' \subseteq refused \cup {c.id}
  BY <1>1 DEF Refuse, Others, throttle
<1>3. TypeOK' /\ Running' /\ expired' = expired
  BY <1>1, <1>2, CallGoesOn
<1>. QED
  BY <1>3, RowStays DEF SessionInv, Good

LEMMA LoginStep ==
    ASSUME SessionInv,
           \/ \E c \in Call, p \in Password : BeginLogin(c, p)
           \/ \E c \in calls : LoginFails(c) \/ Verify(c) \/ EndLogin(c)
    PROVE  Good
<1>1. ASSUME NEW c \in Call, NEW p \in Password, BeginLogin(c, p)
      PROVE  Good
  <2>1. New(c, "login", p) \in Calls /\ New(c, "login", p).id = c
    BY NewTyped
  <2>. QED
    BY <1>1, <2>1, CallBegins DEF BeginLogin
<1>2. ASSUME NEW c \in calls, LoginFails(c)
      PROVE  Good
  BY <1>2, CallFails DEF LoginFails, CancelAttempt
<1>3. ASSUME NEW c \in calls, Verify(c)
      PROVE  Good
  <2>1. c \in Calls /\ row.record \in Records
    BY <1>3, StateTyped DEF Verify, SessionInv, TypeOK
  <2>2. [c EXCEPT !.seen = row.record, !.tries = @ + 1] \in Calls
    <3>1. c.tries + 1 \in Nat
      BY <2>1 DEF Calls
    <3>. QED
      BY <2>1, <3>1 DEF Calls
  <2>3. [c EXCEPT !.seen = row.record, !.tries = @ + 1].id = c.id
    BY <2>1 DEF Calls
  <2>. QED
    BY <1>3, <2>2, <2>3, LoginGoesOn DEF Verify, Refuse
<1>4. ASSUME NEW c \in calls, EndLogin(c)
      PROVE  Good
  <2>1. CASE OpenSession(c)
    BY <1>4, <2>1, LoginOpens DEF EndLogin
  <2>2. CASE TryAgain(c)
    <3>1. c \in Calls
      BY DEF SessionInv, TypeOK
    <3>2. [c EXCEPT !.seen = None] \in Calls /\ [c EXCEPT !.seen = None].id = c.id
      BY <3>1 DEF Calls
    <3>. QED
      BY <1>4, <2>2, <3>2, LoginGoesOn DEF EndLogin, TryAgain, Refuse
  <2>. QED
    BY <1>4, <2>1, <2>2 DEF EndLogin
<1>. QED
  BY <1>1, <1>2, <1>3, <1>4

\* Sessions end.
LEMMA EndStep ==
    ASSUME SessionInv, NEW ending, Configured, EndSessions(ending)
    PROVE  Good
<1>1. row \in States /\ row.sessions \subseteq Sessions /\ row.record \in Records
  BY StateTyped DEF SessionInv, Configured
<1>2. row' = [record |-> row.record, sessions |-> Active(row) \ ending]
  BY <1>1 DEF EndSessions, States
<1>3. row' \in States /\ row' # None
  BY <1>1, <1>2, StateMade DEF Active
<1>4. /\ expired' = expired
      /\ UNCHANGED <<marker, file, world, calls, begun, throttle>>
  BY DEF EndSessions, world
<1>5. TypeOK' /\ Running'
  BY <1>3, <1>4 DEF SessionInv, TypeOK, Running, world, throttle
<1>6. SessionsOfPassword' /\ AcceptsOwn
  <2>1. row'.record = row.record /\ row'.sessions = Active(row) \ ending
    BY <1>2
  <2>2. \A s \in Active(row) : s.era = row.record.era
    BY DEF SessionInv, SessionsOfPassword, Active
  <2>. QED
    BY <1>3, <1>4, <2>1, <2>2, RowMade
<1>. QED
  BY <1>5, <1>6 DEF SessionInv, Good

LEMMA TimeStep ==
    ASSUME SessionInv,
           \/ \E token \in Token : Expire(token)
           \/ \E c \in Call : WindowPasses(c)
    PROVE  Good
<1>1. row' = row /\ expired \subseteq expired'
  BY DEF Expire, WindowPasses, stored, world
<1>2. TypeOK'
  BY DEF SessionInv, TypeOK, Expire, WindowPasses, stored, world, throttle
<1>3. Running'
  BY DEF SessionInv, Running, Expire, WindowPasses, stored, world, throttle
<1>. QED
  BY <1>1, <1>2, <1>3, RowStays DEF SessionInv, Good

-----------------------------------------------------------------------------
(* The theorems.                                                           *)

LEMMA InitSessions == Init => SessionInv
<1>. SUFFICES ASSUME Init PROVE SessionInv
  OBVIOUS
<1>1. file \in Records \cup {None} /\ (row # None => row \in States)
  <2>1. ASSUME NEW p \in Password
        PROVE  Record(p, File, File) \in Records /\ Record(p, Kept, Kept) \in Records
    BY RecordTyped DEF Token
  <2>2. file \in Records \cup {None}
    BY <2>1 DEF Init
  <2>3. ASSUME row # None
        PROVE  row \in States
    <3>1. PICK p \in Password : row = [record |-> Record(p, Kept, Kept),
                                      sessions |-> {Session(Kept, Record(p, Kept, Kept))}]
      BY <2>3 DEF Init
    <3>2. Record(p, Kept, Kept) \in Records /\ Session(Kept, Record(p, Kept, Kept)) \in Sessions
      BY <2>1, SessionTyped DEF Token
    <3>. QED
      BY <3>1, <3>2, StateMade
  <2>. QED
    BY <2>2, <2>3
<1>2. TypeOK
  <2>1. row \in States \cup {None} /\ served \in BOOLEAN /\ marker \in BOOLEAN
    BY <1>1 DEF Init
  <2>. QED
    BY <1>1, <2>1, BoundAssumption DEF Init, TypeOK
<1>3. Running
  BY DEF Init, Running
<1>4. SessionsOfPassword
  BY DEF Init, SessionsOfPassword, Configured, Session
<1>. QED
  BY <1>2, <1>3, <1>4 DEF SessionInv

LEMMA SessionsKept == SessionInv /\ [Next]_vars => Good
<1>1. ASSUME SessionInv, Next
      PROVE  Good
  <2>1. CASE \E token \in Token :
                \/ Logout(token) \/ RevokeOthers(token)
                \/ \E other \in Token : Revoke(token, other)
    <3>1. Configured /\ \E ending : EndSessions(ending)
      BY <2>1 DEF Logout, RevokeOthers, Revoke, Accepted
    <3>. QED
      BY <1>1, <3>1, EndStep
  <2>. QED
    BY <1>1, <2>1, StartStep, StopStep, SetupStep, ChangeStep, LoginStep, TimeStep DEF Next
<1>2. ASSUME SessionInv, UNCHANGED vars
      PROVE  Good
  <2>1. row' = row /\ expired' = expired
    BY <1>2 DEF vars, stored, world
  <2>2. TypeOK' /\ Running'
    BY <1>2 DEF SessionInv, TypeOK, Running, vars, stored, world, throttle
  <2>. QED
    BY <1>2, <2>1, <2>2, RowStays DEF SessionInv, Good
<1>. QED
  BY <1>1, <1>2

\* Every variable keeps its type for any calls, passwords and bounds; a call is
\* in progress only while the process is up.
THEOREM TypeCorrect == Spec => []TypeOK
<1>1. SessionInv /\ [Next]_vars => SessionInv'
  BY SessionsKept DEF Good
<1>2. SessionInv => TypeOK
  BY DEF SessionInv
<1>. QED
  BY InitSessions, <1>1, <1>2, PTL DEF Spec

\* In every state every session was opened with the password in force, whatever
\* logins, changes and restarts overlap (src/auth.ts, login and changePassword).
THEOREM SessionsOwned == Spec => []SessionsOfPassword
<1>1. SessionInv /\ [Next]_vars => SessionInv'
  BY SessionsKept DEF Good
<1>2. SessionInv => SessionsOfPassword
  BY DEF SessionInv
<1>. QED
  BY InitSessions, <1>1, <1>2, PTL DEF Spec

\* No step accepts a token that was not accepted before, but for that of the
\* call it completes (src/auth.ts, mutateState).
THEOREM EndedStays == Spec => EndedStaysEnded
<1>1. SessionInv /\ [Next]_vars => SessionInv'
  BY SessionsKept DEF Good
<1>2. SessionInv /\ [Next]_vars =>
          [\A t \in Token : Accepted(t)' /\ ~Accepted(t) => \E c \in calls : c.id = t]_vars
  BY SessionsKept DEF Good, AcceptsOwn
<1>. QED
  BY InitSessions, <1>1, <1>2, PTL DEF Spec, EndedStaysEnded

-----------------------------------------------------------------------------
(* LOG-INS AND THE IMPORT.  auth.json is imported once, and a right        *)
(* password is not called wrong.                                           *)

(* The inductive invariant.                                                *)

Distinct == \A c, k \in calls : c.id = k.id => c = k

\* A password in force was chosen by a call that began, or is an imported one.
Eras == Configured => row.record.era \in begun \cup {File, Kept}

\* What a login knows while its password is in force: the record it verified is
\* of that password, and after a round that failed the record in force has been
\* made anew, which happens once.
Round(c) ==
    c.right =>
        /\ InForce(c.password)
        /\ c.seen # None => c.seen.era = row.record.era
        /\ c.tries >= 1 /\ (c.seen = None \/ c.seen # row.record \/ c.tries >= 2) =>
               ~Outdated(row.record)
        /\ c.tries >= 2 /\ c.seen # None => c.seen = row.record

CallOK(c) ==
    /\ Round(c)
    /\ Configured => c.id # row.record.era
    /\ c.kind = "login" /\ c.seen # None => c.seen.password = c.password

\* The file's password is its own; the marker is set as the server first serves,
\* and by then the file's password is there.
ImportInv ==
    /\ file # None => file.era = File
    /\ marker = served
    /\ server = "marking" /\ ~served /\ file # None => Configured

LoginInv == Distinct /\ Eras /\ \A c \in calls : CallOK(c)

HistoryInv == SessionInv /\ LoginInv /\ ImportInv

\* What the properties allow a step to do.
RefusesWrong == \A c \in calls : c.id \in refused' \ refused => ~c.right
ImportsOnce ==
    /\ ~served /\ served' /\ file # None => Configured'
    /\ Imported' /\ ~Imported => ~served

GoodHistory == LoginInv' /\ ImportInv' /\ RefusesWrong /\ ImportsOnce

-----------------------------------------------------------------------------
(* Lemmas about steps.                                                     *)

\* While the record in force stays, what is known of a call stays known.
LEMMA RecordStays ==
    ASSUME row = row' \/ (row # None /\ row' # None /\ row'.record = row.record),
           begun \subseteq begun', LoginInv
    PROVE  /\ Eras' /\ (Imported' => Imported)
           /\ \A c : CallOK(c) => CallOK(c)'
           /\ \A c : Configured' = Configured
  BY DEF LoginInv, Eras, Imported, CallOK, Round, Configured, InForce

\* Only the start-up touches what the import is about.
LEMMA NoImport ==
    ASSUME ImportInv, UNCHANGED <<marker, file, served>>, server' \notin {"marking"}
    PROVE  ImportInv' /\ (~served /\ served' /\ file # None => Configured')
  BY DEF ImportInv

LEMMA NoRefusal ==
    ASSUME refused' = refused
    PROVE  RefusesWrong
  BY DEF RefusesWrong

\* Calls go on unchanged, or end.
LEMMA CallsStay ==
    ASSUME HistoryInv, row = row' \/ (row # None /\ row' # None /\ row'.record = row.record),
           calls' \subseteq calls, begun' = begun, refused' = refused,
           UNCHANGED <<marker, file, served>>, server' # "marking"
    PROVE  GoodHistory
<1>. USE DEF HistoryInv
<1>1. LoginInv'
  BY RecordStays DEF LoginInv, Distinct
<1>2. Imported' => Imported
  BY RecordStays
<1>. QED
  BY <1>1, <1>2, NoImport, NoRefusal DEF GoodHistory, ImportsOnce

\* Nothing is known of a call that is new.
LEMMA CallEnters ==
    ASSUME HistoryInv, NEW c, Begin(c), CallOK(c), calls' = calls \cup {c},
           row' = row, refused' = refused, UNCHANGED world, UNCHANGED <<marker, file>>
    PROVE  GoodHistory
<1>. USE DEF HistoryInv
<1>1. begun \subseteq begun' /\ server' = "up" /\ served' = served
  BY DEF Begin, world
<1>2. \A k \in calls : k.id # c.id
  BY DEF Begin, SessionInv, TypeOK
<1>3. LoginInv'
  BY <1>1, <1>2, RecordStays DEF LoginInv, Distinct
<1>4. Imported' => Imported
  BY <1>1, RecordStays
<1>. QED
  BY <1>1, <1>3, <1>4, NoImport, NoRefusal DEF GoodHistory, ImportsOnce

LEMMA NewKnown ==
    ASSUME NEW c, c \notin begun, c \in Call, NEW kind, NEW password, Eras
    PROVE  CallOK(New(c, kind, password))
<1>1. Configured => c # row.record.era
  BY TokenAssumption DEF Eras
<1>. QED
  BY <1>1 DEF CallOK, Round, New

-----------------------------------------------------------------------------
(* The steps.                                                              *)

LEMMA StartHistory ==
    ASSUME HistoryInv, Start
    PROVE  GoodHistory
<1>. USE DEF HistoryInv
<1>1. calls = {} /\ calls' = {} /\ begun' = begun /\ refused' = refused /\ file' = file
  BY DEF Start, CreateStates, ImportFile, MarkImported, SessionInv, Running, throttle
<1>2. Distinct' /\ \A c \in calls' : CallOK(c)'
  BY <1>1 DEF Distinct
<1>3. RefusesWrong
  BY <1>1, NoRefusal
<1>4. CASE CreateStates
  <2>1. Eras' /\ (Imported' => Imported)
    BY <1>1, <1>4 DEF CreateStates, LoginInv, Eras, Imported, Configured, Unconfigured
  <2>2. ImportInv' /\ served' = served
    BY <1>4 DEF CreateStates, ImportInv
  <2>. QED
    BY <1>2, <1>3, <2>1, <2>2 DEF GoodHistory, LoginInv, ImportsOnce
<1>5. CASE ImportFile
  <2>1. /\ row # None /\ server' = "marking" /\ served' = served /\ marker' = marker
        /\ row' = IF row.record = None /\ ~marker /\ file # None
                    THEN [record |-> file, sessions |-> {}] ELSE row
    BY <1>5 DEF ImportFile, SessionInv, Running
  <2>2. CASE row.record = None /\ ~marker /\ file # None
    <3>1. row' # None
      BY <2>1, <2>2, StateMade DEF SessionInv, TypeOK
    <3>2. row'.record = file /\ file.era = File
      BY <2>1, <2>2 DEF ImportInv
    <3>3. Eras' /\ ImportInv' /\ ~served
      BY <1>1, <2>1, <2>2, <3>1, <3>2 DEF Eras, ImportInv, Configured
    <3>. QED
      BY <1>2, <1>3, <2>1, <3>3 DEF GoodHistory, LoginInv, ImportsOnce
  <2>3. CASE ~(row.record = None /\ ~marker /\ file # None)
    <3>1. row' = row /\ (~served /\ file # None => Configured)
      BY <2>1, <2>3 DEF ImportInv, Configured
    <3>2. Eras' /\ ImportInv' /\ (Imported' => Imported)
      BY <1>1, <2>1, <3>1 DEF LoginInv, Eras, ImportInv, Imported, Configured
    <3>. QED
      BY <1>2, <1>3, <2>1, <3>2 DEF GoodHistory, LoginInv, ImportsOnce
  <2>. QED
    BY <2>2, <2>3
<1>6. CASE MarkImported
  <2>1. row' = row /\ server = "marking" /\ server' = "up" /\ marker' = TRUE /\ served' = TRUE
    BY <1>6 DEF MarkImported
  <2>2. Eras' /\ (Imported' => Imported) /\ (Configured' = Configured)
    BY <1>1, <2>1 DEF LoginInv, Eras, Imported, Configured
  <2>3. ImportInv' /\ (~served /\ file # None => Configured')
    BY <1>1, <2>1, <2>2 DEF ImportInv
  <2>. QED
    BY <1>2, <1>3, <2>2, <2>3 DEF GoodHistory, LoginInv, ImportsOnce
<1>. QED
  BY <1>4, <1>5, <1>6 DEF Start

LEMMA StopHistory ==
    ASSUME HistoryInv, Crash \/ Reset
    PROVE  GoodHistory
<1>. USE DEF HistoryInv
<1>1. CASE Crash
  BY <1>1, CallsStay DEF Crash, stored
<1>2. CASE Reset
  <2>1. /\ row' = None /\ server' = "down" /\ calls = {} /\ calls' = {}
        /\ UNCHANGED <<marker, file, served, begun, refused>>
    BY <1>2 DEF Reset, world, throttle, SessionInv, Running
  <2>2. LoginInv' /\ ~Imported'
    BY <2>1 DEF LoginInv, Distinct, Eras, Imported, Configured
  <2>. QED
    BY <2>1, <2>2, NoImport, NoRefusal DEF GoodHistory, ImportsOnce
<1>. QED
  BY <1>1, <1>2

\* What is left of a call when another one ends.
LEMMA CallLeft ==
    ASSUME NEW k \in Calls, NEW same \in BOOLEAN
    PROVE  LET e == [k EXCEPT !.right = @ /\ same] IN
           /\ e.id = k.id /\ e.kind = k.kind /\ e.password = k.password
           /\ e.seen = k.seen /\ e.tries = k.tries
           /\ e.right = (k.right /\ same)
  BY DEF Calls

\* A password is set: nobody's password is in force as it was.
LEMMA PasswordHistory ==
    ASSUME HistoryInv, NEW c \in calls,
           row' = [record |-> Record(c.password, c.id, c.id),
                   sessions |-> {Session(c.id, Record(c.password, c.id, c.id))}],
           \/ calls' = Others(c) /\ ~Configured
           \/ Ended(c) /\ Configured,
           UNCHANGED <<marker, file, world, begun, throttle>>
    PROVE  GoodHistory
<1>. USE DEF HistoryInv
<1>1. /\ c \in Calls /\ c.id \in begun /\ c.id \in Token /\ c.id # File
      /\ c.password \in Password /\ calls \subseteq Calls
  BY TokenAssumption DEF SessionInv, TypeOK, Calls, Token
<1>2. Configured' /\ row'.record.era = c.id
  <2>1. /\ Record(c.password, c.id, c.id) # None
        /\ Record(c.password, c.id, c.id) \in Records
        /\ Record(c.password, c.id, c.id).era = c.id
    BY <1>1, RecordTyped
  <2>2. Session(c.id, Record(c.password, c.id, c.id)) \in Sessions
    BY <1>1, <2>1, SessionTyped
  <2>3. row' # None
    BY <2>1, <2>2, StateMade
  <2>. QED
    BY <2>1, <2>3 DEF Configured
<1>3. /\ \A e \in calls' : \E k \in Others(c) :
             /\ e.id = k.id /\ e.kind = k.kind /\ e.password = k.password
             /\ e.seen = k.seen /\ ~e.right
      /\ \A e, f \in calls' : e.id = f.id => e = f
  <2>1. CASE calls' = Others(c) /\ ~Configured
    BY <2>1 DEF Others, LoginInv, Distinct, CallOK, Round, InForce
  <2>2. CASE Ended(c) /\ Configured
    <3>1. row'.record.era # row.record.era
      BY <1>2, <2>2 DEF LoginInv, CallOK
    <3>2. ASSUME NEW k \in Others(c)
          PROVE  LET e == [k EXCEPT !.right = @ /\ row'.record.era = row.record.era] IN
                 /\ e.id = k.id /\ e.kind = k.kind /\ e.password = k.password
                 /\ e.seen = k.seen /\ ~e.right
      BY <1>1, <3>1, <3>2, CallLeft DEF Others, Calls
    <3>3. calls' = {[k EXCEPT !.right = @ /\ row'.record.era = row.record.era] : k \in Others(c)}
      BY <2>2 DEF Ended
    <3>4. \A j, k \in Others(c) : j.id = k.id => j = k
      BY DEF Others, LoginInv, Distinct
    <3>5. ASSUME NEW e \in calls', NEW f \in calls', e.id = f.id
          PROVE  e = f
      <4>1. PICK j \in Others(c) : e = [j EXCEPT !.right = @ /\ row'.record.era = row.record.era]
        BY <3>3
      <4>2. PICK k \in Others(c) : f = [k EXCEPT !.right = @ /\ row'.record.era = row.record.era]
        BY <3>3
      <4>3. e.id = j.id /\ f.id = k.id
        BY <3>2, <4>1, <4>2
      <4>. QED
        BY <3>4, <3>5, <4>1, <4>2, <4>3
    <3>6. ASSUME NEW e \in calls'
          PROVE  \E k \in Others(c) :
                     /\ e.id = k.id /\ e.kind = k.kind /\ e.password = k.password
                     /\ e.seen = k.seen /\ ~e.right
      <4>1. PICK k \in Others(c) : e = [k EXCEPT !.right = @ /\ row'.record.era = row.record.era]
        BY <3>3
      <4>. QED
        BY <3>2, <4>1
    <3>. QED
      BY <3>5, <3>6
  <2>. QED
    BY <2>1, <2>2
<1>4. LoginInv'
  <2>1. Eras'
    BY <1>1, <1>2 DEF Eras
  <2>2. ASSUME NEW e \in calls'
        PROVE  CallOK(e)'
    <3>1. PICK k \in Others(c) : /\ e.id = k.id /\ e.kind = k.kind /\ e.password = k.password
                                 /\ e.seen = k.seen /\ ~e.right
      BY <1>3
    <3>2. k \in calls /\ k.id # c.id /\ CallOK(k)
      BY DEF Others, LoginInv, Distinct
    <3>. QED
      BY <1>2, <3>1, <3>2 DEF CallOK, Round
  <2>. QED
    BY <1>3, <2>1, <2>2 DEF LoginInv, Distinct
<1>5. ~Imported'
  BY <1>1, <1>2 DEF Imported
<1>6. refused' = refused /\ served' = served /\ server' # "marking"
  BY DEF throttle, world, SessionInv, Running
<1>. QED
  BY <1>4, <1>5, <1>6, NoImport, NoRefusal DEF GoodHistory, ImportsOnce
LEMMA SetupHistory ==
    ASSUME HistoryInv,
           \/ \E c \in Call, p \in Password : BeginSetup(c, p)
           \/ \E c \in calls : EndSetup(c)
    PROVE  GoodHistory
<1>. USE DEF HistoryInv
<1>1. ASSUME NEW c \in Call, NEW p \in Password, BeginSetup(c, p)
      PROVE  GoodHistory
  <2>1. CallOK(New(c, "setup", p))
    BY <1>1, NewKnown DEF BeginSetup, Begin, New, LoginInv
  <2>. QED
    BY <1>1, <2>1, CallEnters DEF BeginSetup, stored, throttle
<1>2. ASSUME NEW c \in calls, EndSetup(c)
      PROVE  GoodHistory
  <2>1. CASE Aborted(c)
    BY <1>2, <2>1, CallsStay DEF EndSetup, Aborted, Others, world, throttle, SessionInv, Running
  <2>2. CASE ~Aborted(c)
    BY <1>2, <2>2, PasswordHistory DEF EndSetup, Configured
  <2>. QED
    BY <2>1, <2>2
<1>. QED
  BY <1>1, <1>2

LEMMA ChangeHistory ==
    ASSUME HistoryInv,
           \/ \E c \in Call, token \in Token, p, q \in Password : BeginChange(c, token, p, q)
           \/ \E c \in calls : EndChange(c)
    PROVE  GoodHistory
<1>. USE DEF HistoryInv
<1>1. ASSUME NEW c \in Call, NEW token \in Token, NEW p \in Password, NEW q \in Password,
             BeginChange(c, token, p, q)
      PROVE  GoodHistory
  <2>. DEFINE call == [New(c, "change", q) EXCEPT !.token = token, !.seen = row.record]
  <2>1. c \notin begun /\ server = "up"
    BY <1>1 DEF BeginChange, Begin, New
  <2>2. /\ call.id = c /\ call.kind = "change" /\ call.password = q /\ call.seen = row.record
        /\ call.tries = 0 /\ call.right = InForce(q)
    BY DEF New
  <2>3. CallOK(New(c, "change", q))
    BY <2>1, NewKnown DEF LoginInv
  <2>4. Configured => c # row.record.era
    BY <2>3 DEF CallOK, New
  <2>5. CallOK(call)
    BY <2>2, <2>4 DEF CallOK, Round
  <2>6. Begin(call)
    BY <1>1, <2>2 DEF BeginChange, Begin, New
  <2>. QED
    BY <1>1, <2>5, <2>6, CallEnters DEF BeginChange, stored, throttle
<1>2. ASSUME NEW c \in calls, EndChange(c)
      PROVE  GoodHistory
  <2>1. CASE Aborted(c)
    BY <1>2, <2>1, CallsStay DEF EndChange, Aborted, Others, world, throttle, SessionInv, Running
  <2>2. CASE ~Aborted(c)
    BY <1>2, <2>2, PasswordHistory DEF EndChange, Accepted
  <2>. QED
    BY <2>1, <2>2
<1>. QED
  BY <1>1, <1>2

\* The transaction of a login: the password stays, its record may be made anew.
LEMMA OpenHistory ==
    ASSUME HistoryInv, NEW c \in calls, c.kind = "login", c.seen # None, OpenSession(c),
           UNCHANGED <<marker, file, world, begun>>
    PROVE  GoodHistory
<1>. USE DEF HistoryInv
<1>1. /\ c \in Calls /\ calls \subseteq Calls /\ c.id \in Call /\ c.id \in Token
      /\ c.password \in Password /\ c.seen \in Records /\ c.seen.password = c.password
  BY DEF SessionInv, TypeOK, Calls, Token, LoginInv, CallOK
<1>2. row # None /\ row.record = c.seen /\ Configured /\ server = "up"
  BY DEF OpenSession, SessionInv, Running, Configured
<1>3. row'.record = Rehashed(c) /\ row' # None
  <2>1. Good
    BY LoginOpens
  <2>2. row' # None
    BY <1>2, <2>1 DEF Good, SessionInv, Running, world
  <2>. QED
    BY <2>2 DEF OpenSession, Open
<1>4. /\ Rehashed(c).era = row.record.era /\ Rehashed(c).password = row.record.password
      /\ Rehashed(c) # None
      /\ ~Outdated(Rehashed(c))
      /\ ~Outdated(row.record) => Rehashed(c) = row.record
  <2>1. CASE ~Outdated(c.seen)
    BY <1>2, <2>1 DEF Rehashed
  <2>2. CASE Outdated(c.seen)
    <3>1. c.seen.era \in Token
      BY <1>1 DEF Records
    <3>2. /\ Rehashed(c).era = c.seen.era /\ Rehashed(c).password = c.password
          /\ Rehashed(c).salt = c.id /\ Rehashed(c) # None
      BY <1>1, <2>2, <3>1, RecordTyped DEF Rehashed
    <3>3. ~Outdated(Rehashed(c))
      BY <1>1, <3>2, TokenAssumption DEF Outdated
    <3>. QED
      BY <1>1, <1>2, <2>2, <3>2, <3>3
  <2>. QED
    BY <2>1, <2>2
<1>5. Configured' /\ (\A password : InForce(password)' = InForce(password))
  BY <1>2, <1>3, <1>4 DEF Configured, InForce
<1>6. calls' \subseteq calls
  <2>1. ASSUME NEW k \in Others(c)
        PROVE  [k EXCEPT !.right = @ /\ row'.record.era = row.record.era] = k
    <3>1. k \in Calls /\ row'.record.era = row.record.era
      BY <1>1, <1>3, <1>4 DEF Others
    <3>2. (k.right /\ row'.record.era = row.record.era) = k.right
      BY <3>1 DEF Calls
    <3>. QED
      BY <3>1, <3>2 DEF Calls
  <2>. QED
    BY <2>1 DEF OpenSession, Ended, Others
<1>7. LoginInv'
  <2>1. Eras'
    BY <1>2, <1>3, <1>4 DEF LoginInv, Eras
  <2>2. ASSUME NEW k \in calls'
        PROVE  CallOK(k)'
    <3>1. CallOK(k)
      BY <1>6 DEF LoginInv
    <3>2. ~Outdated(row.record)'
      BY <1>3, <1>4 DEF Outdated
    <3>3. k.right => InForce(k.password)' /\ (k.seen # None => k.seen.era = row'.record.era)
      <4>1. k.right => InForce(k.password) /\ (k.seen # None => k.seen.era = row.record.era)
        BY <3>1 DEF CallOK, Round
      <4>2. InForce(k.password)' = InForce(k.password)
        BY <1>5
      <4>. QED
        BY <1>3, <1>4, <4>1, <4>2
    <3>4. k.right /\ k.tries >= 2 /\ k.seen # None => k.seen = row'.record
      <4>1. k.tries \in Nat
        BY <1>1, <1>6 DEF Calls
      <4>2. k.right /\ k.tries >= 2 /\ k.seen # None =>
                k.seen = row.record /\ ~Outdated(row.record)
        BY <3>1, <4>1 DEF CallOK, Round
      <4>. QED
        BY <1>3, <1>4, <4>2
    <3>5. Round(k)'
      BY <3>2, <3>3, <3>4 DEF Round
    <3>. QED
      BY <1>2, <1>3, <1>4, <3>1, <3>5 DEF CallOK
  <2>. QED
    BY <1>6, <2>1, <2>2 DEF LoginInv, Distinct
<1>8. Imported' => Imported
  BY <1>2, <1>3, <1>4 DEF Imported
<1>9. refused' = refused /\ served' = served /\ server' # "marking"
  BY <1>2 DEF OpenSession, world
<1>. QED
  BY <1>7, <1>8, <1>9, NoImport, NoRefusal DEF GoodHistory, ImportsOnce

\* A login that is refused had not the right password all along.
LEMMA RefuseHistory ==
    ASSUME HistoryInv, NEW c \in calls, ~c.right, Refuse(c),
           row' = row, UNCHANGED <<marker, file, world, begun>>
    PROVE  GoodHistory
<1>. USE DEF HistoryInv
<1>1. calls' \subseteq calls /\ refused' = refused \cup {c.id}
      /\ served' = served /\ server' # "marking"
  BY DEF Refuse, Others, world, SessionInv, Running
<1>2. RefusesWrong
  BY <1>1 DEF RefusesWrong, LoginInv, Distinct
<1>3. LoginInv' /\ (Imported' => Imported)
  BY <1>1, RecordStays DEF LoginInv, Distinct
<1>. QED
  BY <1>1, <1>2, <1>3, NoImport DEF GoodHistory, ImportsOnce

\* A login goes on with what it has read, or starts over.
LEMMA LoginHistory ==
    ASSUME HistoryInv, NEW c \in calls, NEW k, k.id = c.id, CallOK(k),
           calls' = Others(c) \cup {k},
           UNCHANGED <<row, throttle, marker, file, world, begun>>
    PROVE  GoodHistory
<1>. USE DEF HistoryInv
<1>1. refused' = refused /\ served' = served /\ server' # "marking"
  BY DEF throttle, world, SessionInv, Running
<1>2. LoginInv' /\ (Imported' => Imported)
  <2>1. Distinct'
    BY DEF Others, LoginInv, Distinct
  <2>2. \A j \in calls' : CallOK(j)
    BY DEF Others, LoginInv
  <2>. QED
    BY <2>1, <2>2, RecordStays DEF LoginInv
<1>. QED
  BY <1>1, <1>2, NoImport, NoRefusal DEF GoodHistory, ImportsOnce

LEMMA VerifyHistory ==
    ASSUME HistoryInv, NEW c \in calls, Verify(c)
    PROVE  GoodHistory
<1>. USE DEF HistoryInv
<1>1. c \in Calls /\ c.tries \in Nat /\ CallOK(c) /\ c.seen = None /\ Configured
  BY DEF Verify, SessionInv, TypeOK, Calls, LoginInv
<1>2. CASE row.record.password # c.password
  <2>1. ~c.right
    BY <1>1, <1>2 DEF CallOK, Round, InForce
  <2>. QED
    BY <1>2, <2>1, RefuseHistory DEF Verify, Refuse
<1>3. CASE row.record.password = c.password
  <2>. DEFINE k == [c EXCEPT !.seen = row.record, !.tries = @ + 1]
  <2>1. /\ k.id = c.id /\ k.kind = c.kind /\ k.password = c.password /\ k.right = c.right
        /\ k.seen = row.record /\ k.tries = c.tries + 1
    BY <1>1 DEF Calls
  <2>2. k.right /\ k.tries >= 2 => ~Outdated(row.record)
    BY <1>1, <2>1 DEF CallOK, Round
  <2>3. k.right => InForce(k.password)
    BY <1>1, <2>1 DEF CallOK, Round
  <2>4. Round(k)
    BY <1>1, <2>1, <2>2, <2>3 DEF Round, Configured
  <2>5. CallOK(k)
    BY <1>1, <1>3, <2>1, <2>4 DEF CallOK
  <2>. QED
    BY <1>3, <2>1, <2>5, LoginHistory DEF Verify
<1>. QED
  BY <1>2, <1>3

LEMMA EndLoginHistory ==
    ASSUME HistoryInv, NEW c \in calls, EndLogin(c)
    PROVE  GoodHistory
<1>. USE DEF HistoryInv
<1>1. c \in Calls /\ c.tries \in Nat /\ CallOK(c) /\ c.seen # None /\ c.kind = "login"
  BY DEF EndLogin, SessionInv, TypeOK, Calls, LoginInv
<1>2. CASE OpenSession(c)
  BY <1>1, <1>2, OpenHistory DEF EndLogin
<1>3. CASE TryAgain(c) /\ c.tries < 2
  <2>. DEFINE k == [c EXCEPT !.seen = None]
  <2>1. /\ k.id = c.id /\ k.kind = c.kind /\ k.password = c.password /\ k.right = c.right
        /\ k.seen = None /\ k.tries = c.tries
    BY <1>1 DEF Calls
  <2>2. CallOK(k)
    BY <1>1, <1>3, <2>1 DEF CallOK, Round, TryAgain
  <2>. QED
    BY <1>3, <2>1, <2>2, LoginHistory DEF EndLogin, TryAgain
<1>4. CASE TryAgain(c) /\ ~(c.tries < 2)
  <2>1. ~c.right
    BY <1>1, <1>4 DEF CallOK, Round, TryAgain
  <2>2. Refuse(c)
    BY <1>4 DEF TryAgain
  <2>. QED
    BY <1>4, <2>1, <2>2, RefuseHistory DEF EndLogin, Refuse, TryAgain
<1>. QED
  BY <1>2, <1>3, <1>4 DEF EndLogin

LEMMA LoginsHistory ==
    ASSUME HistoryInv,
           \/ \E c \in Call, p \in Password : BeginLogin(c, p)
           \/ \E c \in calls : LoginFails(c) \/ Verify(c) \/ EndLogin(c)
    PROVE  GoodHistory
<1>. USE DEF HistoryInv
<1>1. ASSUME NEW c \in Call, NEW p \in Password, BeginLogin(c, p)
      PROVE  GoodHistory
  <2>1. CallOK(New(c, "login", p))
    BY <1>1, NewKnown DEF BeginLogin, Begin, New, LoginInv
  <2>. QED
    BY <1>1, <2>1, CallEnters DEF BeginLogin, stored
<1>2. ASSUME NEW c \in calls, LoginFails(c)
      PROVE  GoodHistory
  BY <1>2, CallsStay DEF LoginFails, Aborted, Others, world, SessionInv, Running
<1>. QED
  BY <1>1, <1>2, VerifyHistory, EndLoginHistory

\* Sessions end, and time passes.
LEMMA OtherHistory ==
    ASSUME HistoryInv,
           \/ \E ending : EndSessions(ending) /\ Configured
           \/ \E token \in Token : Expire(token)
           \/ \E c \in Call : WindowPasses(c)
           \/ UNCHANGED vars
    PROVE  GoodHistory
<1>. USE DEF HistoryInv
<1>1. ASSUME NEW ending, EndSessions(ending), Configured
      PROVE  GoodHistory
  <2>1. row \in States /\ row # None
    BY <1>1, StateTyped DEF SessionInv, Configured
  <2>2. row' = [record |-> row.record, sessions |-> Active(row) \ ending]
    BY <1>1, <2>1 DEF EndSessions, States
  <2>3. row' # None
    BY <1>1, EndStep DEF Good, SessionInv, Running, EndSessions, world
  <2>4. row'.record = row.record
    BY <2>2
  <2>. QED
    BY <1>1, <2>1, <2>3, <2>4, CallsStay DEF EndSessions, world, throttle
<1>2. CASE (\E token \in Token : Expire(token)) \/ \E c \in Call : WindowPasses(c)
  <2>1. UNCHANGED <<row, calls, begun, refused, marker, file, served, server>>
    BY <1>2 DEF Expire, WindowPasses, stored, throttle, world
  <2>2. server # "marking" \/ ImportInv'
    BY <2>1 DEF ImportInv, Configured
  <2>3. LoginInv' /\ (Imported' => Imported) /\ ImportInv'
    BY <2>1, RecordStays DEF LoginInv, Distinct, ImportInv
  <2>. QED
    BY <2>1, <2>3, NoRefusal DEF GoodHistory, ImportsOnce
<1>3. CASE UNCHANGED vars
  <2>1. UNCHANGED <<row, calls, begun, refused, marker, file, served, server>>
    BY <1>3 DEF vars, stored, throttle, world
  <2>2. LoginInv' /\ (Imported' => Imported) /\ ImportInv'
    BY <2>1, RecordStays DEF LoginInv, Distinct, ImportInv
  <2>. QED
    BY <2>1, <2>2, NoRefusal DEF GoodHistory, ImportsOnce
<1>. QED
  BY <1>1, <1>2, <1>3

-----------------------------------------------------------------------------
(* The theorems.                                                           *)

LEMMA InitHistory == Init => HistoryInv
<1>. SUFFICES ASSUME Init PROVE HistoryInv
  OBVIOUS
<1>1. SessionInv
  BY InitSessions
<1>2. LoginInv
  <2>1. calls = {}
    BY DEF Init
  <2>2. Configured => row.record.era = Kept
    <3>1. \A p \in Password : Record(p, Kept, Kept).era = Kept
      BY DEF Record
    <3>. QED
      BY <3>1 DEF Init, Configured
  <2>. QED
    BY <2>1, <2>2 DEF LoginInv, Distinct, Eras
<1>3. ImportInv
  BY DEF Init, ImportInv, Record
<1>. QED
  BY <1>1, <1>2, <1>3 DEF HistoryInv

LEMMA HistoryKept == HistoryInv /\ [Next]_vars => GoodHistory
<1>. SUFFICES ASSUME HistoryInv, [Next]_vars PROVE GoodHistory
  OBVIOUS
<1>1. CASE \E token \in Token :
              \/ Logout(token) \/ RevokeOthers(token)
              \/ \E other \in Token : Revoke(token, other)
  <2>1. \E ending : EndSessions(ending) /\ Configured
    BY <1>1 DEF Logout, RevokeOthers, Revoke, Accepted
  <2>. QED
    BY <2>1, OtherHistory
<1>. QED
  BY <1>1, StartHistory, StopHistory, SetupHistory, ChangeHistory, LoginsHistory, OtherHistory
     DEF Next

LEMMA HistoryInductive == HistoryInv /\ [Next]_vars => HistoryInv'
  BY HistoryKept, SessionsKept DEF GoodHistory, Good, HistoryInv

\* The password of auth.json is there when the server first serves and is not
\* brought back later, wherever the first starts were cut short
\* (src/auth.ts, initialize).
THEOREM ImportsAreOnce == Spec => ImportedOnce
<1>1. HistoryInv /\ [Next]_vars =>
          [/\ ~served /\ served' /\ file # None => Configured'
           /\ Imported' /\ ~Imported => ~served]_vars
  BY HistoryKept DEF GoodHistory, ImportsOnce
<1>. QED
  BY InitHistory, HistoryInductive, <1>1, PTL DEF Spec, ImportedOnce

\* No login with the password in force is refused as wrong, whatever rehashes of
\* other logins it meets: two rounds are enough (src/auth.ts, login).
THEOREM RightPasswordAccepted == Spec => RightPasswordGetsIn
<1>1. HistoryInv /\ [Next]_vars =>
          [\A c \in calls : c.id \in refused' \ refused => ~c.right]_vars
  BY HistoryKept DEF GoodHistory, RefusesWrong
<1>. QED
  BY InitHistory, HistoryInductive, <1>1, PTL DEF Spec, RightPasswordGetsIn

=============================================================================
