-------------------------- MODULE AgentBroker_proofs --------------------------
(* For any tasks, connections, tokens and limits: the broker loses no task, *)
(* answers no poll of a replaced token with a task that is waited for, lets *)
(* no background task overtake, and, while credentials stay as they are, is *)
(* an at-most-once remote call.                                             *)
EXTENDS AgentBroker, FiniteSetTheorems, TLAPS

-----------------------------------------------------------------------------
(* Filter, which the library's theorems on sequences do not know.          *)

\* Induction up to a number, for a set: the library's rules are for operators.
LEMMA Upwards ==
    ASSUME NEW N \in Nat, NEW G, 0 \in G, \A n \in 0 .. N : n + 1 \in 0 .. N /\ n \in G => n + 1 \in G
    PROVE  0 .. N \subseteq G
<1> DEFINE Bad == {n \in 0 .. N : n \notin G}
           Down == {0 .. n : n \in Bad}
<1> SUFFICES ASSUME Bad # {} PROVE FALSE
  OBVIOUS
<1>1. Down \subseteq FiniteSubsetsOf(0 .. N) /\ Down # {}
  <2>1. \A n \in Bad : 0 .. n \subseteq 0 .. N
    OBVIOUS
  <2>2. \A n \in Bad : IsFiniteSet(0 .. n)
    BY FS_Interval
  <2>. QED
    BY <2>1, <2>2 DEF FiniteSubsetsOf
<1>2. PICK x \in Down : \A y \in Down : <<y, x>> \notin StrictSubsetOrdering(0 .. N)
  BY <1>1, FS_StrictSubsetOrderingWellFounded, WFMin
<1>3. PICK n \in Bad : x = 0 .. n
  OBVIOUS
<1>4. n \in Nat \ {0} /\ n - 1 \in Bad
  OBVIOUS
<1>5. 0 .. (n - 1) \in Down
  BY <1>4
<1>6. 0 .. (n - 1) \subseteq 0 .. n /\ 0 .. (n - 1) # 0 .. n /\ 0 .. n \subseteq 0 .. N
  BY <1>4
<1>. QED
  BY <1>2, <1>3, <1>5, <1>6 DEF StrictSubsetOrdering

FilterStep(s, S, f, i) ==
    IF i = 0 THEN << >> ELSE IF s[i] \in S THEN Append(f[i - 1], s[i]) ELSE f[i - 1]

\* The recursive function of Filter exists.
LEMMA FilterExists ==
    ASSUME NEW X, NEW s \in Seq(X), NEW S
    PROVE  \E f : f = [i \in 0 .. Len(s) |-> FilterStep(s, S, f, i)]
<1> DEFINE G == {n \in 0 .. Len(s) : \E f : f = [i \in 0 .. n |-> FilterStep(s, S, f, i)]}
<1>1. 0 \in G
  <2> DEFINE f == [i \in 0 .. 0 |-> << >>]
  <2>1. f = [i \in 0 .. 0 |-> FilterStep(s, S, f, i)]
    BY DEF FilterStep
  <2>. QED
    BY <2>1
<1>2. ASSUME NEW n \in 0 .. Len(s), n + 1 \in 0 .. Len(s), n \in G PROVE n + 1 \in G
  <2>1. PICK f : f = [i \in 0 .. n |-> FilterStep(s, S, f, i)]
    BY <1>2
  <2> DEFINE g == [i \in 0 .. n + 1 |-> IF i = n + 1 THEN FilterStep(s, S, f, i) ELSE f[i]]
  <2>2. ASSUME NEW i \in 0 .. n + 1 PROVE g[i] = FilterStep(s, S, g, i)
    <3>1. CASE i = 0
      BY <2>1, <3>1 DEF FilterStep
    <3>2. CASE i # 0
      <4>1. g[i - 1] = f[i - 1] /\ i - 1 \in 0 .. n
        BY <3>2
      <4>2. g[i] = FilterStep(s, S, f, i)
        BY <2>1
      <4>. QED
        BY <4>1, <4>2, <3>2 DEF FilterStep
    <3>. QED
      BY <3>1, <3>2
  <2>3. g = [i \in 0 .. n + 1 |-> FilterStep(s, S, g, i)]
    BY <2>2
  <2> HIDE DEF g
  <2>. QED
    BY <1>2, <2>3
<1>3. 0 .. Len(s) \subseteq G
  <2> HIDE DEF G
  <2>. QED
    BY <1>1, <1>2, Upwards
<1>. QED
  BY <1>3

NoRepeat(s) == \A i, j \in DOMAIN s : s[i] = s[j] => i = j

LEMMA Appended ==
    ASSUME NEW X, NEW s \in Seq(X), NEW x \in X
    PROVE  /\ Append(s, x) \in Seq(X)
           /\ Entries(Append(s, x)) = Entries(s) \cup {x}
           /\ NoRepeat(s) /\ x \notin Entries(s) => NoRepeat(Append(s, x))
<1> DEFINE a == Append(s, x)
<1>1. /\ a \in Seq(X) /\ DOMAIN s = 1 .. Len(s) /\ DOMAIN a = 1 .. Len(s) + 1
      /\ a[Len(s) + 1] = x /\ \A i \in 1 .. Len(s) : a[i] = s[i]
      /\ Len(s) \in Nat
  OBVIOUS
<1> HIDE DEF a
<1>2. Entries(a) = Entries(s) \cup {x}
  BY <1>1 DEF Entries
<1>3. NoRepeat(s) /\ x \notin Entries(s) => NoRepeat(a)
  BY <1>1 DEF Entries, NoRepeat
<1>. QED
  BY <1>1, <1>2, <1>3 DEF a

LEMMA Shortened ==
    ASSUME NEW X, NEW s \in Seq(X), s # << >>
    PROVE  /\ Head(s) \in X /\ Tail(s) \in Seq(X)
           /\ Entries(s) = {Head(s)} \cup Entries(Tail(s))
           /\ NoRepeat(s) => NoRepeat(Tail(s)) /\ Head(s) \notin Entries(Tail(s))
<1> DEFINE t == Tail(s)
<1>1. /\ t \in Seq(X) /\ DOMAIN s = 1 .. Len(s) /\ DOMAIN t = 1 .. Len(s) - 1
      /\ Len(s) \in Nat \ {0} /\ s[1] \in X
      /\ \A i \in 1 .. Len(s) - 1 : t[i] = s[i + 1]
  OBVIOUS
<1>2. Head(s) = s[1]
  OBVIOUS
<1> HIDE DEF t
<1>3. Entries(s) = {s[1]} \cup Entries(t)
  <2>1. \A i \in DOMAIN s : i = 1 \/ (i - 1 \in DOMAIN t /\ s[i] = t[i - 1])
    BY <1>1
  <2>2. \A i \in DOMAIN t : i + 1 \in DOMAIN s /\ t[i] = s[i + 1]
    BY <1>1
  <2>3. 1 \in DOMAIN s
    BY <1>1
  <2>. QED
    BY <2>1, <2>2, <2>3 DEF Entries
<1>4. ASSUME NoRepeat(s) PROVE NoRepeat(t) /\ s[1] \notin Entries(t)
  <2>1. \A i \in DOMAIN t : i \in Nat /\ i + 1 # 1 /\ i + 1 \in DOMAIN s /\ t[i] = s[i + 1]
    BY <1>1
  <2>2. \A i, j \in DOMAIN t : t[i] = t[j] => i + 1 = j + 1
    BY <1>4, <2>1 DEF NoRepeat
  <2>3. \A i \in DOMAIN t : t[i] # s[1]
    BY <1>1, <1>4, <2>1 DEF NoRepeat
  <2>. QED
    BY <2>1, <2>2, <2>3 DEF NoRepeat, Entries
<1>. QED
  BY <1>1, <1>2, <1>3, <1>4 DEF t

LEMMA Joined ==
    ASSUME NEW X, NEW s \in Seq(X), NEW t \in Seq(X)
    PROVE  /\ s \o t \in Seq(X)
           /\ Entries(s \o t) = Entries(s) \cup Entries(t)
           /\ NoRepeat(s) /\ NoRepeat(t) /\ Entries(s) \cap Entries(t) = {} => NoRepeat(s \o t)
<1> DEFINE u == s \o t
<1>1. /\ u \in Seq(X) /\ DOMAIN s = 1 .. Len(s) /\ DOMAIN t = 1 .. Len(t)
      /\ DOMAIN u = 1 .. Len(s) + Len(t) /\ Len(s) \in Nat /\ Len(t) \in Nat
      /\ \A i \in 1 .. Len(s) : u[i] = s[i]
      /\ \A i \in Len(s) + 1 .. Len(s) + Len(t) : u[i] = t[i - Len(s)]
  OBVIOUS
<1> HIDE DEF u
<1>2. ASSUME NEW i \in DOMAIN t PROVE i + Len(s) \in DOMAIN u /\ u[i + Len(s)] = t[i]
  <2>1. i \in 1 .. Len(t) /\ i + Len(s) \in Len(s) + 1 .. Len(s) + Len(t) /\ i + Len(s) - Len(s) = i
    BY <1>1
  <2>. QED
    BY <1>1, <2>1
<1>3. \A i \in DOMAIN u : \/ i \in DOMAIN s /\ u[i] = s[i]
                          \/ i - Len(s) \in DOMAIN t /\ u[i] = t[i - Len(s)]
  BY <1>1
<1>4. Entries(u) = Entries(s) \cup Entries(t)
  BY <1>1, <1>2, <1>3 DEF Entries
<1>5. ASSUME NoRepeat(s), NoRepeat(t), Entries(s) \cap Entries(t) = {} PROVE NoRepeat(u)
  <2>1. \A i \in DOMAIN s, j \in DOMAIN t : s[i] # t[j]
    BY <1>5 DEF Entries
  <2>2. DOMAIN u \subseteq Nat
    BY <1>1
  <2> SUFFICES ASSUME NEW i \in DOMAIN u, NEW j \in DOMAIN u, u[i] = u[j] PROVE i = j
    BY DEF NoRepeat
  <2>3. CASE i \in DOMAIN s /\ u[i] = s[i] /\ j \in DOMAIN s /\ u[j] = s[j]
    BY <1>5, <2>3 DEF NoRepeat
  <2>4. CASE /\ i - Len(s) \in DOMAIN t /\ u[i] = t[i - Len(s)]
             /\ j - Len(s) \in DOMAIN t /\ u[j] = t[j - Len(s)]
    <3>1. i - Len(s) = j - Len(s)
      BY <1>5, <2>4 DEF NoRepeat
    <3>. QED
      BY <1>1, <2>2, <3>1
  <2>. QED
    BY <1>3, <2>1, <2>3, <2>4
<1>. QED
  BY <1>1, <1>4, <1>5 DEF u

LEMMA Filtered ==
    ASSUME NEW X, NEW s \in Seq(X), NEW S
    PROVE  /\ Filter(s, S) \in Seq(X)
           /\ Entries(Filter(s, S)) = Entries(s) \cap S
           /\ NoRepeat(s) => NoRepeat(Filter(s, S))
<1> DEFINE F == CHOOSE f : f = [i \in 0 .. Len(s) |-> FilterStep(s, S, f, i)]
           Upto(n) == {s[j] : j \in 1 .. n}
           G == {n \in 0 .. Len(s) : /\ F[n] \in Seq(X)
                                     /\ Entries(F[n]) = Upto(n) \cap S
                                     /\ NoRepeat(s) => NoRepeat(F[n])}
<1>1. F = [i \in 0 .. Len(s) |-> FilterStep(s, S, F, i)]
  BY FilterExists
<1>2. Filter(s, S) = F[Len(s)]
  BY DEF Filter, FilterStep
<1> HIDE DEF F
<1>3. 0 \in G
  <2>1. F[0] = << >> /\ DOMAIN << >> = {} /\ << >> \in Seq(X)
    BY <1>1 DEF FilterStep
  <2>2. Entries(F[0]) = {} /\ NoRepeat(F[0]) /\ Upto(0) = {} /\ F[0] \in Seq(X)
    BY <2>1 DEF Entries, NoRepeat
  <2>3. 0 \in 0 .. Len(s)
    OBVIOUS
  <2> HIDE DEF Upto
  <2>. QED
    BY <2>2, <2>3
<1>4. ASSUME NEW n \in 0 .. Len(s), n + 1 \in 0 .. Len(s), n \in G PROVE n + 1 \in G
  <2>1. F[n + 1] = IF s[n + 1] \in S THEN Append(F[n], s[n + 1]) ELSE F[n]
    <3> DEFINE m == n + 1
    <3>1. m \in 0 .. Len(s) /\ m # 0 /\ m - 1 = n
      BY <1>4
    <3> HIDE DEF m, G
    <3>2. F[m] = FilterStep(s, S, F, m)
      BY <1>1, <3>1
    <3>3. F[m] = IF s[m] \in S THEN Append(F[n], s[m]) ELSE F[n]
      BY <3>1, <3>2 DEF FilterStep
    <3>. QED
      BY <3>3 DEF m
  <2>2. Upto(n + 1) = Upto(n) \cup {s[n + 1]} /\ s[n + 1] \in X
    BY <1>4
  <2>3. NoRepeat(s) => s[n + 1] \notin Upto(n)
    BY <1>4 DEF NoRepeat
  <2> HIDE DEF Upto
  <2>4. F[n] \in Seq(X) /\ Entries(F[n]) = Upto(n) \cap S /\ (NoRepeat(s) => NoRepeat(F[n]))
    BY <1>4
  <2>5. CASE s[n + 1] \in S
    <3>1. /\ Append(F[n], s[n + 1]) \in Seq(X)
          /\ Entries(Append(F[n], s[n + 1])) = Entries(F[n]) \cup {s[n + 1]}
          /\ NoRepeat(s) => NoRepeat(Append(F[n], s[n + 1]))
      BY <2>2, <2>3, <2>4, Appended
    <3>. QED
      BY <1>4, <2>1, <2>2, <2>4, <2>5, <3>1
  <2>6. CASE s[n + 1] \notin S
    BY <1>4, <2>1, <2>2, <2>4, <2>6
  <2>. QED
    BY <2>5, <2>6
<1>5. Len(s) \in G
  <2> HIDE DEF G
  <2>1. \A n \in 0 .. Len(s) : n + 1 \in 0 .. Len(s) /\ n \in G => n + 1 \in G
    BY <1>4
  <2>2. Len(s) \in Nat
    OBVIOUS
  <2>3. 0 .. Len(s) \subseteq G
    BY <1>3, <2>1, <2>2, Upwards
  <2>. QED
    BY <2>2, <2>3
<1>6. Entries(s) = Upto(Len(s))
  BY DEF Entries
<1>. QED
  BY <1>2, <1>5, <1>6

-----------------------------------------------------------------------------
(* The inductive invariant.                                                *)

\* A connection waits once; only a resumed poll has a task, and only a poll of
\* a token in force waits; the agent has a task in four of its phases.
ShapeInv ==
    /\ TypeOK
    /\ NoRepeat(waiters)
    /\ \A p \in Poll : /\ poll[p].task # None => poll[p].state = "resumed"
                       /\ poll[p].state = "waiting" => poll[p].token \in valid
    /\ agent.task # None <=> agent.phase \in {"received", "working", "reporting", "rejecting"}

\* Every task is in one place at most; a queued one is waited for until it is late.
PlaceInv ==
    /\ NoRepeat(queue)
    /\ Entries(queue) \ late \subseteq pending
    /\ agent.task \notin Entries(queue)
    /\ \A p \in Poll : poll[p].task # None =>
           /\ poll[p].task \notin Entries(queue) \cup {agent.task}
           /\ \A q \in Poll : poll[q].task = poll[p].task => q = p

\* A task the agent has not begun, and one it has.
Unstarted(t) ==
    \/ t \in Entries(queue)
    \/ \E p \in Poll : poll[p].task = t
    \/ agent.task = t /\ agent.phase \in {"received", "rejecting"}

Started(t) == agent.task = t /\ agent.phase \in {"working", "reporting"}

RunInv ==
    \A t \in Task :
        /\ Unstarted(t) => runs[t] = 0 /\ answer[t] # "none"
        /\ Started(t) => runs[t] = 1 /\ answer[t] # "none"
        /\ answer[t] = "none" => runs[t] = 0 /\ t \notin late

\* The agent stops at the deadline; while credentials stay as they are, nothing
\* else ends the wait for a task that is somewhere.
TimeInv ==
    /\ agent.phase = "working" => agent.task \notin late
    /\ CredentialOps = {} =>
           \A t \in Task \ late : Unstarted(t) \/ Started(t) => t \in pending

IInv == ShapeInv /\ PlaceInv /\ RunInv /\ TimeInv /\ NothingLost /\ OldPollsGetNothing

-----------------------------------------------------------------------------
(* What a step may do to tasks.                                            *)

Unknown == {"AGENT_TIMEOUT", "AGENT_CREDENTIAL_CHANGED"}

\* How the answer of a task may change.
Answers ==
    \A t \in Task :
        \/ answer'[t] = answer[t]
        \/ answer[t] = "none" /\ answer'[t] \in Refusal \cup {"waiting"}
        \/ answer[t] = "waiting" /\ answer'[t] \in Unknown
        \/ answer[t] = "waiting" /\ runs[t] = 0 /\ answer'[t] \in Refusal
        \/ answer[t] = "waiting" /\ runs[t] = 1 /\ answer'[t] = "result"

\* Tasks stay where they are, move on, or leave with their answer; one that is
\* admitted gets a place.
Moves ==
    \A t \in Task :
        /\ Unstarted(t)' => Unstarted(t) \/ (answer[t] = "none" /\ answer'[t] = "waiting")
        /\ Started(t)' => Started(t)
        /\ t \in pending' =>
               \/ t \in pending /\ ~Unstarted(t) /\ ~Started(t)
               \/ Unstarted(t)' \/ Started(t)' \/ t \in lost'
        /\ t \in pending \ pending' /\ CredentialOps = {} =>
               t \in late' \/ (~Unstarted(t)' /\ ~Started(t)')

Passes ==
    /\ runs' = runs /\ lost \subseteq lost' /\ late \subseteq late'
    /\ \A t \in late' \ late : answer[t] # "none"
    /\ agent'.phase = "working" =>
           agent.phase = "working" /\ agent'.task = agent.task /\ agent.task \notin late'

Good == ShapeInv' /\ PlaceInv' /\ OldPollsGetNothing' /\ Answers /\ Moves /\ Passes

\* The places NothingLost names are those of Unstarted and Started.
LEMMA InPlace ==
    ASSUME ShapeInv, NothingLost
    PROVE  \A t \in pending : t \in lost \/ Unstarted(t) \/ Started(t)
<1>1. \A t \in Task : agent.task = t =>
          agent.phase \in {"received", "working", "reporting", "rejecting"}
  BY NoneAssumption DEF ShapeInv
<1>2. pending \subseteq Task
  BY DEF ShapeInv, TypeOK
<1>. QED
  BY <1>1, <1>2 DEF NothingLost, Unstarted, Started

LEMMA GoodStep ==
    ASSUME IInv, Good
    PROVE  IInv'
<1>1. /\ TypeOK /\ TypeOK' /\ pending \subseteq Task /\ pending' \subseteq Task
      /\ \A t \in Task : (t \in pending <=> answer[t] = "waiting")
                         /\ (t \in pending' <=> answer'[t] = "waiting")
  BY DEF IInv, ShapeInv, TypeOK, Good
<1>2. \A t \in Task : answer'[t] = "none" => answer[t] = "none"
  BY DEF Good, Answers, Refusal, Unknown
<1>3. RunInv'
  <2>1. \A t \in Task : /\ Unstarted(t) => runs[t] = 0 /\ answer[t] # "none"
                        /\ Started(t) => runs[t] = 1 /\ answer[t] # "none"
                        /\ answer[t] = "none" => runs[t] = 0 /\ t \notin late
    BY DEF IInv, RunInv
  <2>2. \A t \in Task : /\ Unstarted(t)' => runs'[t] = 0 /\ answer'[t] # "none"
                        /\ Started(t)' => runs'[t] = 1 /\ answer'[t] # "none"
                        /\ answer'[t] = "none" => runs'[t] = 0 /\ t \notin late'
    BY <1>2, <2>1 DEF Good, Moves, Passes
  <2>. QED
    BY <2>2 DEF RunInv
<1>4. NothingLost'
  <2>1. \A t \in pending : t \in lost \/ Unstarted(t) \/ Started(t)
    BY InPlace DEF IInv
  <2>2. \A t \in pending' : t \in lost' \/ Unstarted(t)' \/ Started(t)'
    BY <1>1, <2>1 DEF Good, Moves, Passes
  <2>3. \A t \in Task, p \in Poll : poll'[p].task = t => poll'[p].state = "resumed"
    BY NoneAssumption DEF Good, ShapeInv
  <2>4. \A t \in pending' :
            \/ t \in Entries(queue)' \cup lost'
            \/ \E p \in Poll : poll'[p].state = "resumed" /\ poll'[p].task = t
            \/ agent'.task = t
    BY <1>1, <2>2, <2>3 DEF Unstarted, Started
  <2>. QED
    BY <2>4 DEF NothingLost
<1>5. TimeInv'
  <2>1. ASSUME CredentialOps = {}, NEW t \in Task \ late', Unstarted(t)' \/ Started(t)'
        PROVE  t \in pending'
    <3>1. (Unstarted(t) \/ Started(t)) /\ t \notin late => t \in pending
      BY <2>1 DEF IInv, TimeInv
    <3>. QED
      BY <1>1, <2>1, <3>1 DEF Good, Moves, Passes
  <2>2. agent'.phase = "working" => agent'.task \notin late'
    BY DEF Good, Passes
  <2>. QED
    BY <2>1, <2>2 DEF TimeInv
<1>. QED
  BY <1>3, <1>4, <1>5 DEF Good, IInv

-----------------------------------------------------------------------------
(* Steps that leave queue, polls and agent alone.                          *)

LEMMA StillStep ==
    ASSUME IInv, TypeOK', Answers, UNCHANGED <<queue, waiters, poll, agent, world>>,
           pending' \subseteq pending, pending \ pending' \subseteq late, valid \subseteq valid'
    PROVE  Good
<1>1. ShapeInv'
  BY DEF IInv, ShapeInv, NoRepeat
<1>2. PlaceInv'
  BY DEF IInv, PlaceInv, NoRepeat, Entries, world
<1>3. OldPollsGetNothing'
  BY DEF IInv, OldPollsGetNothing
<1>4. \A t \in Task : (Unstarted(t)' <=> Unstarted(t)) /\ (Started(t)' <=> Started(t))
  BY DEF Unstarted, Started, Entries
<1>5. Moves
  BY <1>4 DEF Moves, world
<1>6. Passes
  BY DEF IInv, TimeInv, Passes, world
<1>. QED
  BY <1>1, <1>2, <1>3, <1>5, <1>6 DEF Good
LEMMA OfflineGood == ASSUME IInv, NEW t \in Task, DispatchOffline(t) PROVE Good
<1>1. TypeOK /\ answer' = [answer EXCEPT ![t] = "AGENT_OFFLINE"] /\ answer[t] = "none"
  BY DEF IInv, ShapeInv, DispatchOffline
<1>2. TypeOK'
  BY <1>1 DEF DispatchOffline, TypeOK, credentials, world, Answer, Refusal
<1>3. Answers
  BY <1>1 DEF Answers, Refusal, TypeOK
<1>. QED
  BY <1>2, <1>3, StillStep DEF DispatchOffline, credentials, world

LEMMA TimerGood == ASSUME IInv, NEW t \in Task, Timer(t) PROVE Good
<1>1. /\ TypeOK /\ answer' = [answer EXCEPT ![t] = "AGENT_TIMEOUT"] /\ answer[t] = "waiting"
      /\ pending' = pending \ {t} /\ t \in late
  BY DEF IInv, ShapeInv, Timer, TypeOK
<1>2. TypeOK'
  BY <1>1 DEF Timer, TypeOK, credentials, world, Answer, Refusal
<1>3. Answers
  BY <1>1 DEF Answers, Unknown, TypeOK
<1>. QED
  BY <1>1, <1>2, <1>3, StillStep DEF Timer, credentials, world

LEMMA HeartbeatGood == ASSUME IInv, Heartbeat \/ GoStale PROVE Good
<1>1. TypeOK
  BY DEF IInv, ShapeInv
<1>2. TypeOK'
  BY <1>1 DEF Heartbeat, GoStale, TypeOK, credentials, world
<1>3. Answers
  BY DEF Heartbeat, GoStale, Answers
<1>. QED
  BY <1>2, <1>3, StillStep DEF Heartbeat, GoStale, credentials, world

LEMMA AddTokenGood == ASSUME IInv, AddToken PROVE Good
<1>1. TypeOK
  BY DEF IInv, ShapeInv
<1>2. tokens' \in Token /\ valid \subseteq valid' /\ valid' \subseteq Token
  BY <1>1, LimitAssumption DEF AddToken, TypeOK, Token
<1>3. TypeOK'
  BY <1>1, <1>2 DEF AddToken, TypeOK, broker, world
<1>4. Answers
  BY DEF AddToken, Answers, broker
<1>. QED
  BY <1>2, <1>3, <1>4, StillStep DEF AddToken, broker, world

-----------------------------------------------------------------------------
(* Steps of the agent that leave queue and polls alone.                    *)

\* The agent's task stays, or leaves with its answer or lost.
LEMMA AgentStep ==
    ASSUME IInv, TypeOK', Answers, UNCHANGED <<queue, waiters, poll, valid, runs>>,
           pending' \subseteq pending, lost \subseteq lost', late \subseteq late',
           \A t \in late' \ late : answer[t] # "none",
           agent'.task # None <=> agent'.phase \in {"received", "working", "reporting", "rejecting"},
           agent'.phase \in {"received", "rejecting"} =>
               agent'.task = agent.task /\ agent.phase \in {"received", "rejecting"},
           agent'.phase \in {"working", "reporting"} =>
               agent'.task = agent.task /\ agent.phase \in {"working", "reporting"},
           agent'.phase = "working" => agent.phase = "working" /\ agent.task \notin late',
           agent.task \in pending' => agent'.task = agent.task \/ agent.task \in lost',
           pending \ pending' \subseteq late' \cup ({agent.task} \ {agent'.task})
    PROVE  Good
<1>1. ShapeInv'
  BY DEF IInv, ShapeInv, NoRepeat
<1>2. agent'.task # None => agent'.task = agent.task
  OBVIOUS
<1>3. Entries(queue)' \subseteq Task /\ None \notin Entries(queue)'
  BY <1>1, NoneAssumption DEF ShapeInv, TypeOK, Entries
<1>4. PlaceInv'
  BY <1>2, <1>3 DEF IInv, PlaceInv, NoRepeat, Entries
<1>5. OldPollsGetNothing'
  BY DEF IInv, OldPollsGetNothing
<1>6. ASSUME NEW t \in Task PROVE (Unstarted(t)' => Unstarted(t)) /\ (Started(t)' => Started(t))
  BY DEF Unstarted, Started, Entries
<1>7. ASSUME NEW t \in Task, Unstarted(t) \/ Started(t), agent.task # t
      PROVE  Unstarted(t)'
  BY <1>7 DEF Unstarted, Started, Entries
<1>8. ASSUME NEW t \in pending', t = agent.task, t \in Task
      PROVE  Unstarted(t)' \/ Started(t)' \/ t \in lost'
  BY <1>8, NoneAssumption DEF Unstarted, Started
<1>9. ASSUME NEW t \in pending \ pending', t \notin late' PROVE ~Unstarted(t)' /\ ~Started(t)'
  <2>1. t = agent.task /\ t # agent'.task
    BY <1>9
  <2>. QED
    BY <2>1, <1>3, NoneAssumption DEF Unstarted, Started, IInv, PlaceInv, Entries, ShapeInv, TypeOK
<1>10. Moves
  BY <1>6, <1>7, <1>8, <1>9 DEF Moves
<1>11. Passes
  BY DEF Passes
<1>. QED
  BY <1>1, <1>4, <1>5, <1>10, <1>11 DEF Good
Agents == {"received", "working", "reporting", "rejecting"}

LEMMA DeadlineGood == ASSUME IInv, NEW t \in Task, Deadline(t) PROVE Good
<1>1. TypeOK /\ agent \in AgentState /\ (agent.task # None <=> agent.phase \in Agents)
  BY DEF IInv, ShapeInv, TypeOK, Agents
<1>2. agent.phase = "working" => agent.task \notin late
  BY DEF IInv, TimeInv
<1>3. /\ agent' \in AgentState /\ agent'.task = agent.task
      /\ IF agent.phase = "working" /\ agent.task = t
         THEN agent'.phase = "reporting" ELSE agent'.phase = agent.phase
  BY <1>1 DEF Deadline, AgentState
<1>4. TypeOK'
  BY <1>1, <1>3 DEF Deadline, TypeOK, broker, credentials
<1>5. Answers
  BY DEF Deadline, Answers, broker
<1>6. \A u \in late' \ late : answer[u] # "none"
  BY DEF Deadline
<1>. QED
  BY <1>1, <1>2, <1>3, <1>4, <1>5, <1>6, AgentStep DEF Deadline, broker, credentials, Agents

LEMMA UnregisteredIs ==
    ASSUME NEW token \in Token
    PROVE  /\ Unregistered(token) \in AgentState
           /\ Unregistered(token).phase = "unregistered"
           /\ Unregistered(token).task = None
           /\ [Unregistered(token) EXCEPT !.phase = "idle"] \in AgentState
           /\ [Unregistered(token) EXCEPT !.phase = "idle"].phase = "idle"
           /\ [Unregistered(token) EXCEPT !.phase = "idle"].task = None
  BY DEF Unregistered, AgentState

\* Without a task, and with nothing else to do.
LEMMA IdleGood ==
    ASSUME IInv, agent.phase \notin Agents, agent' \in AgentState,
           agent'.task = None, agent'.phase \notin Agents, socket' \in [Poll -> {"open", "closing", "closed"}],
           seen' \in {"none", "fresh", "stale"},
           UNCHANGED <<answer, pending, queue, waiters, credentials, poll, world>>
    PROVE  Good
<1>1. TypeOK /\ agent.task = None
  BY DEF IInv, ShapeInv, Agents
<1>2. TypeOK'
  BY <1>1 DEF TypeOK, credentials, world
<1>3. Answers
  BY DEF Answers
<1>. QED
  BY <1>1, <1>2, <1>3, AgentStep DEF credentials, world, Agents

LEMMA RegisterGood == ASSUME IInv, Register \/ AgentGivesUp PROVE Good
<1>1. agent \in AgentState /\ TypeOK /\ agent.phase \in {"unregistered", "polling"} /\ agent.task = None
  BY DEF IInv, ShapeInv, TypeOK, Register, AgentGivesUp
<1>2. agent' \in AgentState /\ agent'.task = None /\ agent'.phase \in {"unregistered", "idle"}
  BY <1>1 DEF Register, AgentGivesUp, AgentState, Unregistered
<1>. QED
  BY <1>1, <1>2, IdleGood DEF Register, AgentGivesUp, Agents, TypeOK, broker, credentials, world

LEMMA BreakGood == ASSUME IInv, NEW p \in Poll, ConnectionBreaks(p) PROVE Good
<1>1. agent \in AgentState /\ TypeOK /\ (agent.task # None <=> agent.phase \in Agents)
  BY DEF IInv, ShapeInv, TypeOK, Agents
<1>2. socket' \in [Poll -> {"open", "closing", "closed"}]
  BY <1>1 DEF ConnectionBreaks, TypeOK
<1>3. CASE agent.phase = "polling" /\ agent.poll = p
  <2>1. agent' = Unregistered(agent.token) /\ agent.token \in Token
    BY <1>1, <1>3 DEF ConnectionBreaks, AgentState
  <2>2. agent' \in AgentState /\ agent'.task = None /\ agent'.phase = "unregistered"
    BY <2>1, UnregisteredIs
  <2>. QED
    BY <1>1, <1>2, <1>3, <2>2, IdleGood DEF ConnectionBreaks, Agents, TypeOK, broker
<1>4. CASE ~(agent.phase = "polling" /\ agent.poll = p)
  <2>1. agent' = agent
    BY <1>4 DEF ConnectionBreaks
  <2>2. TypeOK'
    BY <1>1, <1>2, <2>1 DEF ConnectionBreaks, TypeOK, broker, credentials, world
  <2>3. Answers
    BY DEF ConnectionBreaks, Answers, broker
  <2>. QED
    BY <2>1, <2>2, <2>3, StillStep DEF ConnectionBreaks, broker, credentials, world
<1>. QED
  BY <1>3, <1>4

LEMMA FinishGood == ASSUME IInv, Finish PROVE Good
<1>1. agent \in AgentState /\ TypeOK /\ (agent.task # None <=> agent.phase \in Agents)
  BY DEF IInv, ShapeInv, TypeOK, Agents
<1>2. agent' \in AgentState /\ agent'.phase = "reporting" /\ agent'.task = agent.task
  BY <1>1 DEF Finish, AgentState
<1>3. TypeOK'
  BY <1>1, <1>2 DEF Finish, TypeOK, broker, credentials, world
<1>4. Answers
  BY DEF Finish, Answers, broker
<1>. QED
  BY <1>1, <1>2, <1>3, <1>4, AgentStep DEF Finish, broker, credentials, world, Agents

LEMMA RestartGood == ASSUME IInv, NEW token \in Token, AgentRestart(token) PROVE Good
<1>1. agent \in AgentState /\ TypeOK
  BY DEF IInv, ShapeInv, TypeOK
<1>2. agent' \in AgentState /\ agent'.phase = "unregistered" /\ agent'.task = None
  BY UnregisteredIs DEF AgentRestart
<1>3. lost' = lost \cup ({agent.task} \ {None}) /\ lost' \subseteq Task
  BY <1>1 DEF AgentRestart, TypeOK, AgentState
<1>4. TypeOK'
  BY <1>1, <1>2, <1>3 DEF AgentRestart, TypeOK, broker, credentials
<1>5. Answers
  BY DEF AgentRestart, Answers, broker
<1>6. agent.task \in pending' => agent.task \in lost'
  BY <1>1, <1>3, NoneAssumption DEF AgentRestart, broker, TypeOK
<1>. QED
  BY <1>1, <1>2, <1>3, <1>4, <1>5, <1>6, AgentStep DEF AgentRestart, broker, credentials, Agents

LEMMA ReportGood == ASSUME IInv, Report PROVE Good
<1>1. /\ agent \in AgentState /\ TypeOK /\ agent.phase \in {"reporting", "rejecting"}
      /\ agent.task \in Task
  BY DEF IInv, ShapeInv, TypeOK, Report, AgentState
<1>2. agent' \in AgentState /\ agent'.phase \in {"unregistered", "idle"} /\ agent'.task = None
  <2>1. agent.token \in Token
    BY <1>1 DEF AgentState
  <2> DEFINE out == Unregistered(agent.token)
             idle == [Unregistered(agent.token) EXCEPT !.phase = "idle"]
  <2>2. agent' = out \/ agent' = idle
    BY DEF Report
  <2>3. /\ out \in AgentState /\ out.phase = "unregistered" /\ out.task = None
        /\ idle \in AgentState /\ idle.phase = "idle" /\ idle.task = None
    BY <2>1, UnregisteredIs
  <2> HIDE DEF out, idle
  <2>. QED
    BY <2>2, <2>3
<1>3. /\ agent.phase = "reporting" => runs[agent.task] = 1
      /\ agent.phase = "rejecting" => runs[agent.task] = 0
  BY <1>1 DEF IInv, RunInv, Started, Unstarted
<1>4. UNCHANGED <<queue, waiters, poll, valid, tokens, runs, seen, socket, late>>
  BY DEF Report, credentials
<1> DEFINE code == IF agent.phase = "reporting" THEN "result" ELSE "TASK_EXPIRED"
<1>5. CASE Result(agent.task, code) /\ UNCHANGED lost
  <2>1. pending' = pending \ {agent.task}
    BY <1>5 DEF Result
  <2>2. /\ \A t \in Task : answer'[t] = IF t = agent.task /\ t \in pending THEN code ELSE answer[t]
        /\ answer' \in [Task -> Answer]
    BY <1>1, <1>5 DEF Result, TypeOK, Answer, Refusal
  <2>3. pending' = {t \in Task : answer'[t] = "waiting"}
    BY <1>1, <2>1, <2>2 DEF TypeOK
  <2>4. TypeOK'
    BY <1>1, <1>2, <1>5, <2>2, <2>3 DEF Report, TypeOK, credentials
  <2>5. Answers
    BY <1>1, <1>3, <2>2 DEF Answers, TypeOK, Refusal
  <2>. QED
    BY <1>1, <1>2, <1>5, <1>4, <2>1, <2>4, <2>5, NoneAssumption, AgentStep
<1>6. CASE lost' = lost \cup {agent.task} /\ UNCHANGED <<answer, pending>>
  <2>1. TypeOK'
    BY <1>1, <1>2, <1>6 DEF Report, TypeOK, credentials
  <2>2. Answers
    BY <1>6 DEF Answers
  <2>. QED
    BY <1>1, <1>2, <1>6, <1>4, <2>1, <2>2, AgentStep
<1>. QED
  BY <1>5, <1>6 DEF Report

-----------------------------------------------------------------------------
(* Steps of the polls.                                                     *)

LEMMA NoEntries == Entries(<< >>) = {} /\ NoRepeat(<< >>) /\ \A X : << >> \in Seq(X)
<1>1. DOMAIN << >> = {}
  OBVIOUS
<1>. QED
  BY <1>1 DEF Entries, NoRepeat

LEMMA DisconnectGood ==
    ASSUME IInv, Disconnect, CredentialOps # {}, UNCHANGED <<socket, agent, world>>,
           valid' \subseteq Token, tokens' \in Token
    PROVE  Good
<1>1. TypeOK /\ Entries(waiters) = {p \in Poll : poll[p].state = "waiting"}
  BY DEF IInv, ShapeInv, TypeOK
<1>2. \A t \in Task : answer'[t] = IF t \in pending THEN "AGENT_CREDENTIAL_CHANGED" ELSE answer[t]
  BY DEF Disconnect, Resolved
<1>3. \A p \in Poll : /\ poll'[p].task = poll[p].task /\ poll'[p].token = poll[p].token
                      /\ poll'[p].state = IF poll[p].state = "waiting" THEN "resumed" ELSE poll[p].state
  BY <1>1 DEF Disconnect, TypeOK, PollRequest
<1>4. poll' \in [Poll -> PollRequest]
  BY <1>1 DEF Disconnect, TypeOK, PollRequest
<1>5. answer' \in [Task -> Answer] /\ pending' = {t \in Task : answer'[t] = "waiting"}
  BY <1>1, <1>2 DEF Disconnect, Resolved, TypeOK, Answer
<1>6. Entries(queue)' = {} /\ Entries(waiters)' = {} /\ queue' \in Seq(Task) /\ waiters' \in Seq(Poll)
  BY NoEntries DEF Disconnect, Entries
<1>7. \A p \in Poll : poll'[p].state # "waiting"
  BY <1>3
<1>8. TypeOK'
  BY <1>1, <1>4, <1>5, <1>6, <1>7 DEF Disconnect, TypeOK, world
<1>9. NoRepeat(queue)' /\ NoRepeat(waiters)'
  BY NoEntries DEF Disconnect, NoRepeat
<1>10. ShapeInv'
  BY <1>3, <1>7, <1>8, <1>9 DEF IInv, ShapeInv
<1>11. PlaceInv'
  BY <1>3, <1>6, <1>9 DEF IInv, PlaceInv
<1>12. OldPollsGetNothing'
  BY DEF Disconnect, OldPollsGetNothing
<1>13. Answers
  BY <1>1, <1>2 DEF Answers, Unknown, TypeOK
<1>14. \A t \in Task : (Unstarted(t)' => Unstarted(t)) /\ (Started(t)' => Started(t))
  BY <1>3, <1>6 DEF Unstarted, Started
<1>15. Moves
  BY <1>14 DEF Moves, Disconnect
<1>16. Passes
  BY DEF IInv, TimeInv, Passes, world
<1>. QED
  BY <1>10, <1>11, <1>12, <1>13, <1>15, <1>16 DEF Good

LEMMA ResetGood == ASSUME IInv, ResetToken \/ Revoke PROVE Good
<1>1. TypeOK
  BY DEF IInv, ShapeInv
<1>2. valid' \subseteq Token /\ tokens' \in Token
  BY <1>1, LimitAssumption DEF ResetToken, Revoke, TypeOK, Token
<1>. QED
  BY <1>2, DisconnectGood DEF ResetToken, Revoke

LEMMA Handed ==
    ASSUME TypeOK, NEW p \in Poll, NEW t \in Task \cup {None}, Hand(p, t)
    PROVE  /\ poll' \in [Poll -> PollRequest]
           /\ \A q \in Poll : q # p => poll'[q] = poll[q]
           /\ poll'[p].token = poll[p].token
           /\ poll[p].state = "waiting" => poll'[p].state = "resumed" /\ poll'[p].task = t
           /\ poll[p].state # "waiting" => poll'[p] = poll[p]
  BY DEF TypeOK, Hand, PollRequest

LEMMA WithdrawnGood ==
    ASSUME IInv, NEW p \in Poll, PollTimeout(p) \/ CloseEvent(p)
    PROVE  Good
<1>1. /\ TypeOK /\ waiters' = Without(waiters, p) /\ Hand(p, None)
      /\ UNCHANGED <<answer, pending, queue, seen, credentials, agent, world>>
      /\ socket' \in [Poll -> {"open", "closing", "closed"}]
  BY DEF IInv, ShapeInv, PollTimeout, CloseEvent, TypeOK
<1>2. /\ poll' \in [Poll -> PollRequest]
      /\ \A q \in Poll : q # p => poll'[q] = poll[q]
      /\ poll[p].state = "waiting" => poll'[p].state = "resumed" /\ poll'[p].task = None
      /\ poll[p].state # "waiting" => poll'[p] = poll[p]
      /\ poll'[p].token = poll[p].token
  BY <1>1, Handed
<1>3. \A q \in Poll : /\ poll'[q].task = poll[q].task /\ poll'[q].token = poll[q].token
                      /\ poll'[q].state = IF q = p /\ poll[q].state = "waiting" THEN "resumed"
                                          ELSE poll[q].state
  <2>1. poll[p].state = "waiting" => poll[p].task = None
    BY DEF IInv, ShapeInv
  <2>. QED
    BY <1>2, <2>1
<1>4. /\ waiters' \in Seq(Poll) /\ Entries(waiters)' = Entries(waiters) \ {p}
      /\ NoRepeat(waiters)'
  <2>1. waiters \in Seq(Poll) /\ NoRepeat(waiters) /\ Entries(waiters) \subseteq Poll
    BY <1>1 DEF IInv, ShapeInv, TypeOK
  <2>2. /\ Without(waiters, p) \in Seq(Poll)
        /\ Entries(Without(waiters, p)) = Entries(waiters) \cap (Poll \ {p})
        /\ NoRepeat(Without(waiters, p))
    BY <2>1, Filtered DEF Without
  <2>. QED
    BY <1>1, <2>1, <2>2 DEF Entries, NoRepeat
<1>5. Entries(waiters)' = {q \in Poll : poll'[q].state = "waiting"}
  BY <1>1, <1>3, <1>4 DEF TypeOK
<1>6. TypeOK'
  BY <1>1, <1>2, <1>4, <1>5 DEF TypeOK, credentials, world
<1>7. ShapeInv'
  BY <1>1, <1>3, <1>4, <1>6 DEF IInv, ShapeInv, credentials
<1>8. Entries(queue)' = Entries(queue) /\ NoRepeat(queue)' = NoRepeat(queue)
  BY <1>1 DEF Entries, NoRepeat
<1>9. PlaceInv'
  BY <1>1, <1>3, <1>8 DEF IInv, PlaceInv, world
<1>10. OldPollsGetNothing'
  <2>1. \A q \in Poll : poll[q].task # None => poll[q].state = "resumed"
    BY DEF IInv, ShapeInv
  <2>2. None \notin pending
    BY <1>1, NoneAssumption DEF TypeOK
  <2>. QED
    BY <1>1, <1>3, <2>1, <2>2 DEF IInv, OldPollsGetNothing, credentials
<1>11. Answers
  BY <1>1 DEF Answers
<1>12. \A t \in Task : (Unstarted(t)' <=> Unstarted(t)) /\ (Started(t)' <=> Started(t))
  BY <1>1, <1>3, <1>8 DEF Unstarted, Started
<1>13. Moves
  BY <1>1, <1>12 DEF Moves
<1>14. Passes
  BY <1>1 DEF IInv, TimeInv, Passes, world
<1>. QED
  BY <1>7, <1>9, <1>10, <1>11, <1>13, <1>14 DEF Good

\* The queue in the order of priority has the same tasks.
LEMMA Prioritised ==
    ASSUME NEW q \in Seq(Task), NoRepeat(q)
    PROVE  ByPriority(q) \in Seq(Task) /\ Entries(ByPriority(q)) = Entries(q) /\ NoRepeat(ByPriority(q))
<1> DEFINE f == Filter(q, Task \ Background)
           b == Filter(q, Background)
<1>1. /\ f \in Seq(Task) /\ Entries(f) = Entries(q) \cap (Task \ Background) /\ NoRepeat(f)
      /\ b \in Seq(Task) /\ Entries(b) = Entries(q) \cap Background /\ NoRepeat(b)
  BY Filtered
<1>2. Entries(q) \subseteq Task
  BY DEF Entries
<1> HIDE DEF f, b
<1>3. Entries(f) \cap Entries(b) = {} /\ Entries(f) \cup Entries(b) = Entries(q)
  BY <1>1, <1>2
<1>4. /\ f \o b \in Seq(Task) /\ Entries(f \o b) = Entries(f) \cup Entries(b)
      /\ NoRepeat(f) /\ NoRepeat(b) /\ Entries(f) \cap Entries(b) = {} => NoRepeat(f \o b)
  BY <1>1, Joined
<1>. QED
  BY <1>1, <1>3, <1>4 DEF ByPriority, f, b

LEMMA RespondGood == ASSUME IInv, NEW p \in Poll, Respond(p) PROVE Good
<1> DEFINE t == poll[p].task
<1>1. /\ TypeOK /\ poll[p].state = "resumed" /\ poll[p] \in PollRequest /\ t \in Task \cup {None}
      /\ t # None => t \notin Entries(queue) \cup {agent.task}
      /\ t # None => \A q \in Poll : poll[q].task = t => q = p
      /\ queue \in Seq(Task) /\ NoRepeat(queue)
  BY DEF IInv, ShapeInv, PlaceInv, TypeOK, Respond, PollRequest
<1>2. UNCHANGED <<answer, pending, waiters, seen, valid, tokens, late, runs>>
  BY DEF Respond, credentials
<1>3. /\ poll' \in [Poll -> PollRequest] /\ poll'[p].state = "free" /\ poll'[p].task = None
      /\ \A q \in Poll : q # p => poll'[q] = poll[q]
  BY <1>1, LimitAssumption DEF Respond, TypeOK, NoPoll, PollRequest, Token
<1>4. socket' \in [Poll -> {"open", "closing", "closed"}]
  BY <1>1 DEF Respond, TypeOK
<1>5. Entries(waiters)' = {q \in Poll : poll'[q].state = "waiting"} /\ NoRepeat(waiters)'
  <2>1. \A q \in Poll : poll'[q].state = "waiting" <=> poll[q].state = "waiting"
    BY <1>1, <1>3
  <2>2. Entries(waiters)' = {q \in Poll : poll[q].state = "waiting"}
    BY <1>1, <1>2 DEF TypeOK, Entries
  <2>3. NoRepeat(waiters)
    BY DEF IInv, ShapeInv
  <2>4. NoRepeat(waiters)'
    BY <1>2, <2>3 DEF NoRepeat
  <2>. QED
    BY <2>1, <2>2, <2>4
<1>6. Answers
  BY <1>2 DEF Answers
<1>7. OldPollsGetNothing'
  BY <1>1, <1>2, <1>3 DEF IInv, OldPollsGetNothing
<1>8. \A q \in Poll : /\ poll'[q].task # None => poll'[q].state = "resumed"
                      /\ poll'[q].state = "waiting" => poll'[q].token \in valid'
  BY <1>2, <1>3 DEF IInv, ShapeInv
<1>9. \A u \in Task : u # t => \A q \in Poll : poll'[q].task = u <=> poll[q].task = u
  BY <1>1, <1>3, NoneAssumption
<1>10. \A q \in Poll : poll'[q].task # None => q # p /\ poll'[q].task = poll[q].task
  BY <1>3
<1>11. t \in pending => t \in Task /\ t # None
  BY <1>1, NoneAssumption DEF TypeOK
<1>12. agent.phase = "working" => agent.task \notin late
  BY DEF IInv, TimeInv
<1>20. CASE t # None /\ socket[p] # "open"
  <2>1. agent' = agent /\ lost' = lost /\ queue' = IF t \in pending THEN ByPriority(<<t>> \o queue) ELSE queue
    BY <1>20 DEF Respond, Requeue
  <2>2. t \in Task /\ <<t>> \in Seq(Task) /\ Entries(<<t>>) = {t} /\ NoRepeat(<<t>>)
    <3>1. t \in Task
      BY <1>1, <1>20
    <3>2. DOMAIN <<t>> = {1} /\ <<t>>[1] = t /\ <<t>> \in Seq(Task)
      BY <3>1
    <3>. QED
      BY <3>1, <3>2 DEF Entries, NoRepeat
  <2>3. /\ queue' \in Seq(Task) /\ NoRepeat(queue')
        /\ Entries(queue') = IF t \in pending THEN {t} \cup Entries(queue) ELSE Entries(queue)
    <3>1. Entries(<<t>>) \cap Entries(queue) = {}
      BY <1>1, <1>20, <2>2
    <3> DEFINE one == <<t>>
    <3> HIDE DEF one
    <3>3. one \in Seq(Task) /\ Entries(one) = {t} /\ NoRepeat(one)
      BY <2>2 DEF one
    <3>4. /\ one \o queue \in Seq(Task) /\ Entries(one \o queue) = Entries(one) \cup Entries(queue)
          /\ NoRepeat(one) /\ NoRepeat(queue) /\ Entries(one) \cap Entries(queue) = {} => NoRepeat(one \o queue)
      BY <1>1, <3>3, Joined
    <3>2. /\ <<t>> \o queue \in Seq(Task) /\ NoRepeat(<<t>> \o queue)
          /\ Entries(<<t>> \o queue) = {t} \cup Entries(queue)
      BY <1>1, <2>2, <3>1, <3>3, <3>4 DEF one
    <3>. QED
      BY <1>1, <2>1, <3>2, Prioritised
  <2>4. TypeOK'
    BY <1>1, <1>2, <1>3, <1>4, <1>5, <2>1, <2>3 DEF TypeOK
  <2>5. ShapeInv'
    BY <1>5, <1>8, <2>1, <2>4 DEF IInv, ShapeInv
  <2>6. PlaceInv'
    <3>1. NoRepeat(queue)' /\ Entries(queue)' = Entries(queue')
      BY <2>3 DEF NoRepeat, Entries
    <3>2. agent'.task \notin Entries(queue)'
      BY <1>1, <1>20, <2>1, <2>3, <3>1 DEF IInv, PlaceInv
    <3>3. ASSUME NEW q \in Poll, poll'[q].task # None
          PROVE  /\ poll'[q].task \notin Entries(queue)' \cup {agent'.task}
                 /\ \A r \in Poll : poll'[r].task = poll'[q].task => r = q
      <4>1. q # p /\ poll'[q].task = poll[q].task /\ poll[q].task # t
        BY <1>1, <1>10, <1>20, <3>3
      <4>2. poll[q].task \notin Entries(queue) \cup {agent.task}
        BY <3>3, <4>1 DEF IInv, PlaceInv
      <4>3. \A r \in Poll : poll'[r].task = poll'[q].task => r = q
        BY <1>10, <3>3, <4>1 DEF IInv, PlaceInv
      <4>. QED
        BY <2>1, <2>3, <3>1, <4>1, <4>2, <4>3
    <3>4. Entries(queue') \ late' \subseteq pending'
      BY <1>2, <2>3 DEF IInv, PlaceInv
    <3>. QED
      BY <3>1, <3>2, <3>3, <3>4 DEF PlaceInv
  <2>7. ASSUME NEW u \in Task
        PROVE  /\ Unstarted(u)' => Unstarted(u) /\ (u = t => t \in pending)
               /\ Started(u)' <=> Started(u)
               /\ u # t \/ t \in pending => (Unstarted(u) => Unstarted(u)')
    <3>1. Entries(queue)' = Entries(queue')
      BY DEF Entries
    <3>2. Unstarted(t)
      BY DEF Unstarted
    <3>3. \A q \in Poll : poll'[q].task # t
      BY <1>1, <1>3, <1>20
    <3>4. t # agent.task /\ t \notin Entries(queue)
      BY <1>1, <1>20
    <3>. QED
      BY <1>9, <2>1, <2>3, <3>1, <3>2, <3>3, <3>4 DEF Unstarted, Started
  <2>8. Moves
    BY <1>2, <2>7 DEF Moves
  <2>9. Passes
    BY <1>2, <1>12, <2>1 DEF Passes
  <2>. QED
    BY <1>6, <1>7, <2>5, <2>6, <2>8, <2>9 DEF Good
<1>30. CASE ~(t # None /\ socket[p] # "open")
  <2>1. /\ queue' = queue
        /\ IF agent.phase = "polling" /\ agent.poll = p /\ socket[p] = "open"
           THEN /\ agent' = [agent EXCEPT !.poll = None, !.task = t,
                                !.phase = IF t = None THEN "idle" ELSE "received"]
                /\ lost' = lost
           ELSE lost' = lost \cup ({t} \ {None}) /\ agent' = agent
    BY <1>30 DEF Respond
  <2>2. Entries(queue)' = Entries(queue) /\ NoRepeat(queue)'
    BY <1>1, <2>1 DEF Entries, NoRepeat
  <2>3. agent \in AgentState /\ lost \subseteq Task
        /\ (agent.task # None <=> agent.phase \in Agents)
    BY <1>1 DEF TypeOK, IInv, ShapeInv, Agents
  <2>4. /\ agent' \in AgentState /\ lost' \subseteq Task
        /\ agent'.task # None <=> agent'.phase \in Agents
    <3>1. CASE agent' = agent
      BY <1>1, <2>1, <2>3, <3>1
    <3>2. CASE agent' # agent
      BY <1>1, <2>1, <2>3, <3>2 DEF AgentState, Agents
    <3>. QED
      BY <3>1, <3>2
  <2>5. TypeOK'
    BY <1>1, <1>2, <1>3, <1>4, <1>5, <2>1, <2>4 DEF TypeOK
  <2>6. ShapeInv'
    BY <1>5, <1>8, <2>4, <2>5 DEF ShapeInv, Agents
  <2>7. agent'.task = agent.task \/ (agent'.task = t /\ t # None /\ agent'.phase = "received")
        \/ agent'.task = None
    BY <2>1, <2>3 DEF AgentState
  <2>8. PlaceInv'
    <3>1. agent'.task \notin Entries(queue)'
      <4>1. None \notin Entries(queue) /\ agent.task \notin Entries(queue)
        BY <1>1, NoneAssumption DEF IInv, PlaceInv, Entries
      <4>. QED
        BY <1>1, <2>2, <2>7, <4>1
    <3>2. ASSUME NEW q \in Poll, poll'[q].task # None
          PROVE  /\ poll'[q].task \notin Entries(queue)' \cup {agent'.task}
                 /\ \A r \in Poll : poll'[r].task = poll'[q].task => r = q
      <4>1. q # p /\ poll'[q].task = poll[q].task /\ poll[q].task # t
        BY <1>1, <1>10, <3>2
      <4>2. poll[q].task \notin Entries(queue) \cup {agent.task}
        BY <3>2, <4>1 DEF IInv, PlaceInv
      <4>3. \A r \in Poll : poll'[r].task = poll'[q].task => r = q
        BY <1>10, <3>2, <4>1 DEF IInv, PlaceInv
      <4>. QED
        BY <2>2, <2>7, <3>2, <4>1, <4>2, <4>3
    <3>3. Entries(queue)' \ late' \subseteq pending'
      BY <1>2, <2>2 DEF IInv, PlaceInv
    <3>. QED
      BY <2>2, <3>1, <3>2, <3>3 DEF PlaceInv
  <2>9. ASSUME NEW u \in Task
        PROVE  /\ Unstarted(u)' => Unstarted(u)
               /\ Started(u)' => Started(u)
               /\ Unstarted(u) \/ Started(u) => Unstarted(u)' \/ Started(u)' \/ u \in lost'
    <3>1. \A q \in Poll : poll'[q].task = u => poll[q].task = u
      BY <1>10, NoneAssumption
    <3>2. CASE agent' = agent
      <4>1. u = t => u \in lost' \/ Unstarted(u)'
        <5>1. CASE agent.phase = "polling" /\ agent.poll = p /\ socket[p] = "open"
          <6>1. agent'.phase # "polling"
            BY <2>1, <2>3, <5>1 DEF AgentState
          <6>. QED
            BY <3>2, <5>1, <6>1
        <5>2. CASE ~(agent.phase = "polling" /\ agent.poll = p /\ socket[p] = "open")
          BY <2>1, <5>2, NoneAssumption
        <5>. QED
          BY <5>1, <5>2
      <4>. QED
        BY <1>9, <2>2, <3>1, <3>2, <4>1 DEF Unstarted, Started
    <3>3. CASE agent' # agent
      <4>1. /\ agent.task = None /\ agent'.task = t
            /\ agent'.phase = IF t = None THEN "idle" ELSE "received"
        BY <2>1, <2>3, <3>3 DEF AgentState, Agents
      <4>2. Unstarted(t)
        BY DEF Unstarted
      <4>. QED
        BY <1>9, <2>2, <3>1, <4>1, <4>2, NoneAssumption DEF Unstarted, Started
    <3>. QED
      BY <3>2, <3>3
  <2>10. Moves
    BY <1>2, <2>9 DEF Moves
  <2>11. agent'.phase = "working" => agent.phase = "working" /\ agent'.task = agent.task
    BY <2>1, <2>3 DEF AgentState
  <2>12. Passes
    BY <1>2, <1>12, <2>1, <2>11 DEF Passes
  <2>. QED
    BY <1>6, <1>7, <2>6, <2>8, <2>10, <2>12 DEF Good
<1>. QED
  BY <1>20, <1>30

-----------------------------------------------------------------------------
(* Steps that prune the queue.                                             *)

LEMMA PrunedIs ==
    ASSUME IInv
    PROVE  /\ Pruned \in Seq(Task) /\ NoRepeat(Pruned)
           /\ Entries(Pruned) = Entries(queue) \ late
           /\ Expired \subseteq Task /\ Entries(queue) \subseteq Task
<1>1. queue \in Seq(Task) /\ NoRepeat(queue)
  BY DEF IInv, ShapeInv, TypeOK, PlaceInv
<1>2. Entries(queue) \subseteq Task
  BY <1>1 DEF Entries
<1>3. /\ Filter(queue, Task \ late) \in Seq(Task)
      /\ Entries(Filter(queue, Task \ late)) = Entries(queue) \cap (Task \ late)
      /\ NoRepeat(Filter(queue, Task \ late))
  BY <1>1, Filtered
<1>. QED
  BY <1>2, <1>3 DEF Pruned, Expired

\* Tasks leave the queue with their answer, or for the polls of P, of which
\* there is one at most; one task may come in.
LEMMA QueueStep ==
    ASSUME IInv, TypeOK', Answers, NoRepeat(queue'), NoRepeat(waiters'),
           UNCHANGED <<valid, runs, late, lost>>,
           agent'.task = agent.task,
           agent'.phase = agent.phase \/ (agent.phase \notin Agents /\ agent'.phase \notin Agents),
           NEW u \in Task \cup {None}, NEW P \in SUBSET Poll,
           \A q, r \in P : q = r, P = {} => u = None,
           \A q \in Poll \ P : poll'[q] = poll[q],
           \A q \in P : /\ poll[q].task = None /\ poll'[q].task = u
                        /\ poll'[q].state = IF u = None THEN "waiting" ELSE "resumed"
                        /\ poll'[q].token \in valid,
           u \notin Entries(queue'),
           \A t \in Task : t \in Entries(queue') \/ t = u =>
               t \in Entries(queue) \/ (answer[t] = "none" /\ answer'[t] = "waiting"),
           \A t \in Entries(queue) : t \in Entries(queue') \/ t = u \/ t \notin pending',
           \A t \in Task : answer[t] = "none" /\ answer'[t] = "waiting" =>
               t \in Entries(queue') \/ t = u,
           \A t \in pending \ pending' :
               t \in late \/ (t \in Entries(queue) /\ t \notin Entries(queue') /\ t # u)
    PROVE  Good
<1>1. /\ Entries(queue)' = Entries(queue') /\ NoRepeat(queue)' /\ NoRepeat(waiters)'
      /\ Entries(queue') \subseteq Task
  BY DEF Entries, NoRepeat, TypeOK
<1>2. ASSUME NEW t \in Task, t \in Entries(queue') \/ t = u
      PROVE  agent.task # t /\ \A q \in Poll : poll[q].task # t
  <2>1. CASE t \in Entries(queue)
    BY <2>1, NoneAssumption DEF IInv, PlaceInv
  <2>2. CASE answer[t] = "none"
    <3>1. ~Unstarted(t) /\ ~Started(t)
      BY <2>2 DEF IInv, RunInv
    <3>2. agent.task = t => agent.phase \in Agents
      BY NoneAssumption DEF IInv, ShapeInv, Agents
    <3>. QED
      BY <3>1, <3>2 DEF Unstarted, Started, Agents
  <2>. QED
    BY <1>2, <2>1, <2>2
<1>3. ShapeInv'
  <2>1. \A q \in Poll : /\ poll'[q].task # None => poll'[q].state = "resumed"
                        /\ poll'[q].state = "waiting" => poll'[q].token \in valid'
    BY DEF IInv, ShapeInv
  <2>2. agent'.task # None <=> agent'.phase \in Agents
    BY DEF IInv, ShapeInv, Agents
  <2>. QED
    BY <1>1, <2>1, <2>2 DEF ShapeInv, Agents
<1>4. \A q \in Poll : \/ poll'[q] = poll[q]
                      \/ q \in P /\ poll[q].task = None /\ poll'[q].task = u
  OBVIOUS
<1>5. PlaceInv'
  <2>1. agent'.task \notin Entries(queue)'
    BY <1>1, <1>2
  <2>2. ASSUME NEW q \in Poll, poll'[q].task # None
        PROVE  /\ poll'[q].task \notin Entries(queue)' \cup {agent'.task}
               /\ \A r \in Poll : poll'[r].task = poll'[q].task => r = q
    <3>1. CASE q \in P
      <4>1. poll'[q].task = u /\ u \in Task
        BY <2>2, <3>1
      <4>2. \A r \in Poll : poll'[r].task = u => r \in P
        BY <1>2, <4>1
      <4>. QED
        BY <1>1, <1>2, <3>1, <4>1, <4>2
    <3>2. CASE q \notin P
      <4>1. poll'[q].task = poll[q].task /\ poll[q].task # None
        BY <2>2, <3>2
      <4>2. poll[q].task \in Task
        BY <4>1 DEF IInv, ShapeInv, TypeOK, PollRequest
      <4>3. poll[q].task \notin Entries(queue') /\ poll[q].task # u /\ poll[q].task # agent.task
        BY <1>2, <4>1, <4>2 DEF IInv, PlaceInv
      <4>4. \A r \in Poll : poll'[r].task = poll[q].task => r = q
        BY <1>4, <4>1, <4>3 DEF IInv, PlaceInv
      <4>. QED
        BY <1>1, <4>1, <4>3, <4>4
    <3>. QED
      BY <3>1, <3>2
  <2>3. ASSUME NEW t \in Entries(queue'), t \notin late PROVE t \in pending'
    <3>1. CASE t \in Entries(queue)
      BY <2>3, <3>1 DEF IInv, PlaceInv
    <3>2. CASE answer[t] = "none" /\ answer'[t] = "waiting"
      BY <1>1, <3>2 DEF TypeOK
    <3>. QED
      BY <1>1, <3>1, <3>2
  <2>. QED
    BY <1>1, <2>1, <2>2, <2>3 DEF PlaceInv
<1>6. OldPollsGetNothing'
  <2>1. \A t \in pending' : t \in pending \/ (t \in Task /\ (t \in Entries(queue') \/ t = u))
    BY DEF IInv, ShapeInv, TypeOK, Answers, Refusal, Unknown
  <2> SUFFICES ASSUME NEW q \in Poll, poll'[q].state = "resumed", poll'[q].task \in pending'
               PROVE  poll'[q].token \in valid'
    BY DEF OldPollsGetNothing
  <2>2. CASE q \in P
    BY <2>2
  <2>3. CASE q \notin P
    <3>1. poll'[q] = poll[q] /\ poll[q].task \in pending
      BY <1>2, <2>1, <2>3
    <3>. QED
      BY <3>1 DEF IInv, OldPollsGetNothing
  <2>. QED
    BY <2>2, <2>3
<1>7. ASSUME NEW t \in Task
      PROVE  /\ Unstarted(t)' => Unstarted(t) \/ (answer[t] = "none" /\ answer'[t] = "waiting")
             /\ Started(t)' <=> Started(t)
             /\ Unstarted(t) => Unstarted(t)' \/ t \notin pending'
  <2>1. (\E q \in Poll : poll'[q].task = t) <=> (t = u \/ \E q \in Poll : poll[q].task = t)
    <3>1. t = u => \E q \in P : poll'[q].task = t
      BY NoneAssumption
    <3>. QED
      BY <1>4, <3>1, NoneAssumption
  <2>2. agent'.task = t => agent'.phase = agent.phase
    BY NoneAssumption DEF IInv, ShapeInv, Agents
  <2>. QED
    BY <1>1, <2>1, <2>2 DEF Unstarted, Started
<1>8. ASSUME NEW t \in pending', t \in Task
      PROVE  \/ t \in pending /\ ~Unstarted(t) /\ ~Started(t)
             \/ Unstarted(t)' \/ Started(t)' \/ t \in lost'
  <2>1. t \in pending \/ (answer[t] = "none" /\ answer'[t] = "waiting")
    BY <1>8 DEF IInv, ShapeInv, TypeOK, Answers, Refusal, Unknown
  <2>2. CASE t \in pending
    BY <1>7, <1>8, <2>2
  <2>3. CASE answer[t] = "none" /\ answer'[t] = "waiting"
    <3>1. t \in Entries(queue') \/ \E q \in Poll : poll'[q].task = t
      BY <1>8, <2>3, NoneAssumption
    <3>. QED
      BY <1>1, <3>1 DEF Unstarted
  <2>. QED
    BY <2>1, <2>2, <2>3
<1>9. ASSUME NEW t \in pending \ pending', t \notin late
      PROVE  ~Unstarted(t)' /\ ~Started(t)'
  <2>1. t \in Entries(queue) /\ t \notin Entries(queue') /\ t # u /\ t \in Task
    BY <1>9 DEF IInv, ShapeInv, TypeOK
  <2>2. agent.task # t /\ \A q \in Poll : poll[q].task # t
    BY <2>1, NoneAssumption DEF IInv, PlaceInv
  <2>. QED
    BY <1>1, <1>4, <2>1, <2>2 DEF Unstarted, Started
<1>10. Moves
  BY <1>7, <1>8, <1>9 DEF Moves
<1>11. Passes
  BY DEF IInv, TimeInv, Passes, Agents
<1>. QED
  BY <1>3, <1>5, <1>6, <1>10, <1>11 DEF Good

LEMMA SendPollGood == ASSUME IInv, NEW p \in Poll, SendPoll(p) PROVE Good
<1>1. /\ TypeOK /\ agent.phase = "idle" /\ agent \in AgentState /\ agent.task = None
      /\ poll[p].state = "free" /\ poll[p].task = None
      /\ agent.token \in Token /\ waiters \in Seq(Poll) /\ NoRepeat(waiters)
      /\ Entries(waiters) = {q \in Poll : poll[q].state = "waiting"}
  BY DEF IInv, ShapeInv, TypeOK, SendPoll, AgentState
<1>2. Unregistered(agent.token) \in AgentState /\ Unregistered(agent.token).phase = "unregistered"
      /\ Unregistered(agent.token).task = None
  BY <1>1, UnregisteredIs
<1>3. CASE agent.token \notin valid
  <2>1. agent' = Unregistered(agent.token) /\ UNCHANGED <<broker, poll, socket, credentials, world>>
    BY <1>3 DEF SendPoll
  <2>. QED
    BY <1>1, <1>2, <2>1, IdleGood DEF Agents, TypeOK, broker
<1>4. CASE agent.token \in valid
  <2>1. agent' \in AgentState /\ agent'.task = None /\ agent'.phase \in {"polling", "unregistered"}
    BY <1>1, <1>2, <1>4 DEF SendPoll, AgentState
  <2>2. /\ socket' \in [Poll -> {"open", "closing", "closed"}] /\ seen' \in {"none", "fresh", "stale"}
        /\ UNCHANGED <<valid, tokens, late, runs, lost>>
    BY <1>1, <1>4 DEF SendPoll, TypeOK, credentials, world
  <2>3. /\ pending' = pending \ Expired
        /\ \A t \in Task : answer'[t] = IF t \in Expired \cap pending THEN "TASK_EXPIRED" ELSE answer[t]
        /\ answer' \in [Task -> Answer]
    BY <1>1, <1>4 DEF SendPoll, Resolved, Open, TypeOK, Answer, Refusal
  <2>4. pending' = {t \in Task : answer'[t] = "waiting"}
    BY <1>1, <2>3 DEF TypeOK
  <2>5. Answers
    <3>1. \A t \in Expired : runs[t] = 0
      BY PrunedIs DEF IInv, RunInv, Unstarted, Expired
    <3>. QED
      BY <1>1, <2>3, <3>1 DEF Answers, Refusal, TypeOK
  <2>6. \A t \in pending \ pending' : t \in late
    BY <2>3 DEF Expired
  <2>7. CASE Pruned # << >>
    <3> DEFINE u == Head(Pruned)
    <3>1. /\ poll' = [poll EXCEPT ![p] = [state |-> "resumed", task |-> u, token |-> agent.token]]
          /\ queue' = Tail(Pruned) /\ waiters' = waiters
      BY <1>4, <2>7 DEF SendPoll, Asked, Rest
    <3>2. /\ u \in Task /\ queue' \in Seq(Task) /\ NoRepeat(queue')
          /\ Entries(Pruned) = {u} \cup Entries(queue') /\ u \notin Entries(queue')
      BY <2>7, <3>1, PrunedIs, Shortened
    <3>3. Entries(Pruned) = Entries(queue) \ late
      BY PrunedIs
    <3> HIDE DEF u
    <3>4. /\ poll' \in [Poll -> PollRequest] /\ \A q \in Poll \ {p} : poll'[q] = poll[q]
          /\ poll'[p].task = u /\ poll'[p].state = "resumed" /\ poll'[p].token = agent.token
      BY <1>1, <3>1, <3>2 DEF TypeOK, PollRequest
    <3>5. Entries(waiters') = {q \in Poll : poll'[q].state = "waiting"}
      BY <1>1, <3>1, <3>4
    <3>6. TypeOK'
      BY <1>1, <2>1, <2>2, <2>3, <2>4, <3>1, <3>2, <3>4, <3>5 DEF TypeOK, Entries
    <3>7. u # None
      BY <3>2, NoneAssumption
    <3>8. \A t \in Entries(queue) : t \in Entries(queue') \/ t = u \/ t \notin pending'
      BY <2>3, <3>2, <3>3 DEF Expired
    <3>9. \A t \in Task : answer[t] = "none" => answer'[t] # "waiting"
      BY <1>1, <2>3
    <3> DEFINE P == {p}
    <3>10. /\ P \in SUBSET Poll /\ P # {} /\ \A q, r \in P : q = r
           /\ \A q \in Poll \ P : poll'[q] = poll[q]
           /\ \A q \in P : /\ poll[q].task = None /\ poll'[q].task = u
                           /\ poll'[q].state = IF u = None THEN "waiting" ELSE "resumed"
                           /\ poll'[q].token \in valid
      BY <1>1, <1>4, <3>4, <3>7
    <3>11. /\ u \in Task \cup {None} /\ NoRepeat(waiters') /\ agent'.task = agent.task
           /\ agent.phase \notin Agents /\ agent'.phase \notin Agents
           /\ \A t \in Task : t \in Entries(queue') \/ t = u => t \in Entries(queue)
           /\ \A t \in pending \ pending' : t \in late
      BY <1>1, <2>1, <2>6, <3>1, <3>2, <3>3 DEF Agents, NoRepeat
    <3> HIDE DEF P
    <3>. QED
      BY <2>2, <2>5, <3>2, <3>6, <3>8, <3>9, <3>10, <3>11, QueueStep
  <2>8. CASE Pruned = << >>
    <3>1. /\ poll' = [poll EXCEPT ![p] = [state |-> "waiting", task |-> None, token |-> agent.token]]
          /\ queue' = << >> /\ waiters' = Append(waiters, p)
      BY <1>4, <2>8 DEF SendPoll, Asked
    <3>2. queue' \in Seq(Task) /\ NoRepeat(queue') /\ Entries(queue') = {}
      BY <3>1, NoEntries
    <3>3. Entries(queue) \subseteq late
      BY <2>8, PrunedIs, NoEntries
    <3>4. /\ poll' \in [Poll -> PollRequest] /\ \A q \in Poll \ {p} : poll'[q] = poll[q]
          /\ poll'[p].task = None /\ poll'[p].state = "waiting" /\ poll'[p].token = agent.token
      BY <1>1, <3>1 DEF TypeOK, PollRequest
    <3>5. waiters' \in Seq(Poll) /\ Entries(waiters') = Entries(waiters) \cup {p} /\ NoRepeat(waiters')
      BY <1>1, <3>1, Appended
    <3>6. Entries(waiters') = {q \in Poll : poll'[q].state = "waiting"}
      BY <1>1, <3>4, <3>5
    <3>7. TypeOK'
      BY <1>1, <2>1, <2>2, <2>3, <2>4, <3>2, <3>4, <3>5, <3>6 DEF TypeOK, Entries
    <3>8. \A t \in Entries(queue) : t \notin pending'
      BY <2>3, <3>3 DEF Expired
    <3>9. \A t \in Task : answer[t] = "none" => answer'[t] # "waiting"
      BY <1>1, <2>3
    <3> DEFINE P == {p}
               u == None
    <3>10. /\ P \in SUBSET Poll /\ P # {} /\ \A q, r \in P : q = r
           /\ \A q \in Poll \ P : poll'[q] = poll[q]
           /\ \A q \in P : /\ poll[q].task = None /\ poll'[q].task = u
                           /\ poll'[q].state = IF u = None THEN "waiting" ELSE "resumed"
                           /\ poll'[q].token \in valid
      BY <1>1, <1>4, <3>4
    <3>11. /\ u \in Task \cup {None} /\ u \notin Entries(queue') /\ agent'.task = agent.task
           /\ agent.phase \notin Agents /\ agent'.phase \notin Agents
           /\ \A t \in Task : ~(t \in Entries(queue') \/ t = u)
      BY <1>1, <2>1, <3>2, NoneAssumption DEF Agents
    <3> HIDE DEF P, u
    <3>. QED
      BY <2>2, <2>5, <2>6, <3>2, <3>3, <3>5, <3>7, <3>8, <3>9, <3>10, <3>11, QueueStep
  <2>. QED
    BY <2>7, <2>8
<1>. QED
  BY <1>3, <1>4

LEMMA KeptIs ==
    ASSUME IInv, NEW t \in Task
    PROVE  /\ Victims(t) \subseteq Entries(queue) \ late
           /\ Kept(t) \in Seq(Task) /\ NoRepeat(Kept(t))
           /\ Entries(Kept(t)) = (Entries(queue) \ late) \ Victims(t)
<1>1. /\ Pruned \in Seq(Task) /\ NoRepeat(Pruned) /\ Entries(Pruned) = Entries(queue) \ late
      /\ Entries(queue) \subseteq Task
  BY PrunedIs
<1>2. Entries(Filter(Pruned, Background)) = Entries(Pruned) \cap Background
  BY <1>1, Filtered
<1>3. Victims(t) \subseteq Entries(Filter(Pruned, Background))
  BY DEF Victims, First, Entries
<1> DEFINE S == Task \ Victims(t)
<1> HIDE DEF S
<1>4. /\ Filter(Pruned, S) \in Seq(Task) /\ Entries(Filter(Pruned, S)) = Entries(Pruned) \cap S
      /\ NoRepeat(Filter(Pruned, S))
  BY <1>1, Filtered
<1>. QED
  BY <1>1, <1>2, <1>3, <1>4 DEF Kept, S

LEMMA DispatchGood == ASSUME IInv, NEW t \in Task, Dispatch(t) PROVE Good
<1> DEFINE V == Victims(t)
           code == Verdict(t)
<1>1. /\ TypeOK /\ answer[t] = "none" /\ t \notin pending /\ pending \subseteq Task
      /\ pending = {x \in Task : answer[x] = "waiting"}
  BY DEF IInv, ShapeInv, Dispatch, TypeOK
<1>2. t \notin late /\ t \notin Entries(queue)
  BY <1>1 DEF IInv, RunInv, Unstarted
<1>3. /\ V \subseteq Entries(queue) \ late /\ Kept(t) \in Seq(Task) /\ NoRepeat(Kept(t))
      /\ Entries(Kept(t)) = (Entries(queue) \ late) \ V
      /\ Expired = Entries(queue) \cap late /\ Entries(queue) \subseteq Task
  BY KeptIs, PrunedIs DEF Expired
<1>4. code \in {"TASK_DEDUPED", "TASK_QUEUE_FULL", "waiting"}
  BY DEF Verdict
<1>5. UNCHANGED <<seen, valid, tokens, socket, agent, late, runs, lost>>
  BY DEF Dispatch, credentials, world
<1>6. /\ \A x \in Task : answer'[x] = IF x = t THEN code
                                      ELSE IF x \in Expired \cap pending THEN "TASK_EXPIRED"
                                      ELSE IF x \in V \cap pending THEN "TASK_PREEMPTED"
                                      ELSE answer[x]
      /\ answer' = [x \in Task |-> answer'[x]]
  BY DEF Dispatch
<1>7. pending' = IF code = "waiting" THEN ((pending \ Expired) \ V) \cup {t} ELSE (pending \ Expired) \ V
  BY DEF Dispatch, Open
<1>8. IF code = "waiting"
      THEN IF waiters # << >>
           THEN queue' = Kept(t) /\ waiters' = Tail(waiters) /\ Hand(Head(waiters), t)
           ELSE queue' = ByPriority(Append(Kept(t), t)) /\ UNCHANGED <<waiters, poll>>
      ELSE queue' = Kept(t) /\ UNCHANGED <<waiters, poll>>
  BY DEF Dispatch
<1> HIDE DEF V, code
<1>9. answer' \in [Task -> Answer] /\ pending' = {x \in Task : answer'[x] = "waiting"}
  <2>1. \A x \in Task : answer'[x] \in Answer
    BY <1>1, <1>4, <1>6 DEF TypeOK, Answer, Refusal
  <2>2. \A x \in Task : answer'[x] = "waiting" <=> x \in pending'
    BY <1>1, <1>4, <1>6, <1>7
  <2>. QED
    BY <1>1, <1>6, <1>7, <2>1, <2>2
<1>10. Answers
  <2>1. \A x \in Entries(queue) : x \in Task => runs[x] = 0
    BY DEF IInv, RunInv, Unstarted
  <2>. QED
    BY <1>1, <1>3, <1>4, <1>6, <2>1 DEF Answers, Refusal
<1>11. \A x \in Task : answer[x] = "none" /\ answer'[x] = "waiting" <=> x = t /\ code = "waiting"
  BY <1>1, <1>4, <1>6
<1>12. \A x \in pending \ pending' : x \in late \/ (x \in Entries(queue) /\ x \notin Entries(Kept(t)) /\ x # t)
  BY <1>1, <1>3, <1>7
<1>13. \A x \in Entries(queue) : x \in Entries(Kept(t)) \/ x \notin pending'
  BY <1>2, <1>3, <1>7
<1>14. /\ waiters \in Seq(Poll) /\ NoRepeat(waiters) /\ None \notin Entries(queue)
       /\ Entries(waiters) = {q \in Poll : poll[q].state = "waiting"}
  BY <1>3, NoneAssumption DEF IInv, ShapeInv, TypeOK
<1>15. CASE code = "waiting" /\ waiters # << >>
  <2> DEFINE p == Head(waiters)
             P == {p}
  <2>1. queue' = Kept(t) /\ waiters' = Tail(waiters) /\ Hand(p, t)
    BY <1>8, <1>15
  <2>2. /\ p \in Poll /\ waiters' \in Seq(Poll) /\ NoRepeat(waiters')
        /\ Entries(waiters) = {p} \cup Entries(waiters') /\ p \notin Entries(waiters')
    BY <1>14, <1>15, <2>1, Shortened
  <2> HIDE DEF p
  <2>3. poll[p].state = "waiting" /\ poll[p].task = None /\ poll[p].token \in valid
    BY <1>14, <2>2 DEF IInv, ShapeInv
  <2>4. /\ poll' \in [Poll -> PollRequest] /\ \A q \in Poll : q # p => poll'[q] = poll[q]
        /\ poll'[p].token = poll[p].token /\ poll'[p].state = "resumed" /\ poll'[p].task = t
    BY <1>1, <2>1, <2>2, <2>3, Handed
  <2>5. Entries(waiters') = {q \in Poll : poll'[q].state = "waiting"}
    BY <1>14, <2>2, <2>4
  <2>6. TypeOK'
    BY <1>1, <1>3, <1>5, <1>9, <2>1, <2>2, <2>4, <2>5 DEF TypeOK, Entries
  <2>7. /\ P \in SUBSET Poll /\ P # {} /\ \A q, r \in P : q = r
        /\ \A q \in Poll \ P : poll'[q] = poll[q]
        /\ \A q \in P : /\ poll[q].task = None /\ poll'[q].task = t
                        /\ poll'[q].state = IF t = None THEN "waiting" ELSE "resumed"
                        /\ poll'[q].token \in valid
    BY <2>2, <2>3, <2>4, NoneAssumption
  <2>8. /\ t \in Task \cup {None} /\ NoRepeat(queue') /\ t \notin Entries(queue')
        /\ \A x \in Task : x \in Entries(queue') \/ x = t =>
               x \in Entries(queue) \/ (answer[x] = "none" /\ answer'[x] = "waiting")
        /\ \A x \in Entries(queue) : x \in Entries(queue') \/ x = t \/ x \notin pending'
        /\ \A x \in Task : answer[x] = "none" /\ answer'[x] = "waiting" => x \in Entries(queue') \/ x = t
        /\ \A x \in pending \ pending' :
               x \in late \/ (x \in Entries(queue) /\ x \notin Entries(queue') /\ x # t)
    BY <1>2, <1>3, <1>11, <1>12, <1>13, <1>15, <2>1
  <2> HIDE DEF P
  <2>. QED
    BY <1>5, <1>10, <2>2, <2>6, <2>7, <2>8, QueueStep
<1>16. CASE ~(code = "waiting" /\ waiters # << >>)
  <2> DEFINE P == {}
             u == None
  <2>1. waiters' = waiters /\ poll' = poll
    BY <1>8, <1>16
  <2>2. /\ queue' \in Seq(Task) /\ NoRepeat(queue')
        /\ Entries(queue') = IF code = "waiting" THEN Entries(Kept(t)) \cup {t} ELSE Entries(Kept(t))
    <3>1. CASE code = "waiting"
      <4> DEFINE a == Append(Kept(t), t)
      <4>1. t \notin Entries(Kept(t))
        BY <1>2, <1>3
      <4>2. a \in Seq(Task) /\ Entries(a) = Entries(Kept(t)) \cup {t} /\ NoRepeat(a)
        BY <1>3, <4>1, Appended
      <4>3. queue' = ByPriority(a)
        BY <1>8, <1>16, <3>1
      <4> HIDE DEF a
      <4>. QED
        BY <3>1, <4>2, <4>3, Prioritised
    <3>2. CASE code # "waiting"
      BY <1>3, <1>8, <3>2
    <3>. QED
      BY <3>1, <3>2
  <2>3. Entries(waiters') = {q \in Poll : poll'[q].state = "waiting"}
    BY <1>14, <2>1
  <2>4. TypeOK'
    BY <1>1, <1>5, <1>9, <2>1, <2>2, <2>3 DEF TypeOK, Entries
  <2>5. /\ P \in SUBSET Poll /\ P = {} /\ \A q, r \in P : q = r
        /\ \A q \in Poll \ P : poll'[q] = poll[q]
    BY <2>1
  <2>6. /\ u \in Task \cup {None} /\ u = None /\ NoRepeat(waiters') /\ u \notin Entries(queue')
        /\ \A x \in Task : x # u
        /\ \A x \in Task : x \in Entries(queue') =>
               x \in Entries(queue) \/ (answer[x] = "none" /\ answer'[x] = "waiting")
        /\ \A x \in Entries(queue) : x \in Entries(queue') \/ x \notin pending'
        /\ \A x \in Task : answer[x] = "none" /\ answer'[x] = "waiting" => x \in Entries(queue')
        /\ \A x \in pending \ pending' :
               x \in late \/ (x \in Entries(queue) /\ x \notin Entries(queue') /\ x # u)
    BY <1>1, <1>2, <1>3, <1>11, <1>12, <1>13, <1>14, <2>1, <2>2, NoneAssumption
  <2> HIDE DEF P, u
  <2>. QED
    BY <1>5, <1>10, <2>2, <2>4, <2>5, <2>6, QueueStep
<1>. QED
  BY <1>15, <1>16

-----------------------------------------------------------------------------
(* The agent begins a task: the one step that runs one.                    *)

LEMMA BeginLate == ASSUME IInv, Begin, agent.task \in late PROVE Good
<1>1. agent \in AgentState /\ TypeOK /\ (agent.task # None <=> agent.phase \in Agents)
  BY DEF IInv, ShapeInv, TypeOK, Agents
<1>2. agent' \in AgentState /\ agent'.phase = "rejecting" /\ agent'.task = agent.task /\ runs' = runs
  BY <1>1 DEF Begin, AgentState
<1>3. TypeOK'
  BY <1>1, <1>2 DEF Begin, TypeOK, broker, credentials
<1>4. Answers
  BY DEF Begin, Answers, broker
<1>. QED
  BY <1>1, <1>2, <1>3, <1>4, AgentStep DEF Begin, broker, credentials, Agents

LEMMA BeginRuns ==
    ASSUME IInv, Begin, agent.task \notin late
    PROVE  /\ IInv'
           /\ agent.task \in Task /\ runs[agent.task] = 0 /\ answer[agent.task] # "none"
           /\ CredentialOps = {} => agent.task \in pending
           /\ runs' = [runs EXCEPT ![agent.task] = @ + 1]
           /\ UNCHANGED answer
<1>1. /\ agent \in AgentState /\ TypeOK /\ agent.phase = "received" /\ agent.task \in Task
  BY DEF IInv, ShapeInv, TypeOK, Begin, AgentState
<1>2. /\ agent' \in AgentState /\ agent'.phase = "working" /\ agent'.task = agent.task
      /\ runs' = [runs EXCEPT ![agent.task] = @ + 1]
      /\ UNCHANGED <<answer, pending, queue, waiters, seen, valid, tokens, poll, socket, late, lost>>
  BY <1>1 DEF Begin, AgentState, broker, credentials
<1>3. Unstarted(agent.task)
  BY <1>1 DEF Unstarted
<1>4. runs[agent.task] = 0 /\ answer[agent.task] # "none"
  BY <1>1, <1>3 DEF IInv, RunInv
<1>5. CredentialOps = {} => agent.task \in pending
  BY <1>1, <1>3 DEF IInv, TimeInv
<1>6. runs' \in [Task -> Nat] /\ \A t \in Task : runs'[t] = IF t = agent.task THEN 1 ELSE runs[t]
  BY <1>1, <1>2, <1>4 DEF TypeOK
<1>7. TypeOK'
  BY <1>1, <1>2, <1>6 DEF TypeOK, Entries
<1>8. ShapeInv'
  BY <1>1, <1>2, <1>7, NoneAssumption DEF IInv, ShapeInv, NoRepeat
<1>9. Entries(queue)' = Entries(queue) /\ NoRepeat(queue)' = NoRepeat(queue)
  BY <1>2 DEF Entries, NoRepeat
<1>10. PlaceInv'
  BY <1>2, <1>9 DEF IInv, PlaceInv
<1>11. /\ \A t \in Task : t # agent.task => (Unstarted(t)' <=> Unstarted(t)) /\ (Started(t)' <=> Started(t))
       /\ ~Unstarted(agent.task)' /\ Started(agent.task)'
  <2>1. agent.task \notin Entries(queue) /\ \A p \in Poll : poll[p].task # agent.task
    BY <1>1, NoneAssumption DEF IInv, PlaceInv
  <2>2. ~Unstarted(agent.task)' /\ Started(agent.task)'
    BY <1>2, <1>9, <2>1 DEF Unstarted, Started
  <2>3. ASSUME NEW t \in Task, t # agent.task
        PROVE  (Unstarted(t)' <=> Unstarted(t)) /\ (Started(t)' <=> Started(t))
    BY <1>2, <1>9, <2>3 DEF Unstarted, Started
  <2>. QED
    BY <2>2, <2>3
<1>12. RunInv'
  <2>1. \A t \in Task : /\ Unstarted(t)' => runs'[t] = 0 /\ answer'[t] # "none"
                        /\ Started(t)' => runs'[t] = 1 /\ answer'[t] # "none"
                        /\ answer'[t] = "none" => runs'[t] = 0 /\ t \notin late'
    BY <1>2, <1>4, <1>6, <1>11 DEF IInv, RunInv
  <2>. QED
    BY <2>1 DEF RunInv
<1>13. TimeInv'
  <2>1. ASSUME CredentialOps = {}, NEW t \in Task \ late', Unstarted(t)' \/ Started(t)'
        PROVE  t \in pending'
    BY <1>2, <1>5, <1>11, <2>1 DEF IInv, TimeInv
  <2>. QED
    BY <1>2, <2>1 DEF TimeInv
<1>14. NothingLost' /\ OldPollsGetNothing'
  BY <1>2, <1>9 DEF IInv, NothingLost, OldPollsGetNothing
<1>. QED
  BY <1>1, <1>2, <1>4, <1>5, <1>8, <1>10, <1>12, <1>13, <1>14 DEF IInv

-----------------------------------------------------------------------------
(* All steps.                                                              *)

LEMMA InitInv == Init => IInv
<1> SUFFICES ASSUME Init PROVE IInv
  OBVIOUS
<1>1. /\ queue = << >> /\ waiters = << >> /\ agent = Unregistered(1) /\ pending = {} /\ late = {}
      /\ \A t \in Task : answer[t] = "none" /\ runs[t] = 0
      /\ \A p \in Poll : poll[p] = NoPoll
      /\ 1 \in Token
  BY LimitAssumption DEF Init, Token
<1>2. Entries(queue) = {} /\ Entries(waiters) = {} /\ NoRepeat(queue) /\ NoRepeat(waiters)
      /\ queue \in Seq(Task) /\ waiters \in Seq(Poll)
  BY <1>1, NoEntries
<1>3. agent \in AgentState /\ agent.phase = "unregistered" /\ agent.task = None
  BY <1>1, UnregisteredIs
<1>4. NoPoll \in PollRequest /\ NoPoll.state = "free" /\ NoPoll.task = None
  BY <1>1 DEF NoPoll, PollRequest
<1>5. TypeOK
  BY <1>1, <1>2, <1>3, <1>4 DEF Init, TypeOK, Answer
<1>6. ShapeInv
  BY <1>1, <1>2, <1>3, <1>4, <1>5 DEF ShapeInv
<1>7. PlaceInv
  BY <1>1, <1>2, <1>4 DEF PlaceInv
<1>8. \A t \in Task : ~Unstarted(t) /\ ~Started(t)
  BY <1>1, <1>2, <1>3, <1>4, NoneAssumption DEF Unstarted, Started
<1>9. RunInv /\ TimeInv
  BY <1>1, <1>3, <1>8 DEF RunInv, TimeInv
<1>10. NothingLost /\ OldPollsGetNothing
  BY <1>1 DEF NothingLost, OldPollsGetNothing
<1>. QED
  BY <1>6, <1>7, <1>9, <1>10 DEF IInv

\* Every step but the beginning of a task is a Good one.
LEMMA NextGood ==
    ASSUME IInv, Next
    PROVE  Good \/ (Begin /\ agent.task \notin late)
<1>1. ASSUME NEW t \in Task, DispatchOffline(t) \/ Dispatch(t) \/ Timer(t) \/ Deadline(t)
      PROVE  Good
  BY <1>1, OfflineGood, DispatchGood, TimerGood, DeadlineGood
<1>2. ASSUME NEW p \in Poll, \/ SendPoll(p) \/ PollTimeout(p) \/ ConnectionBreaks(p)
                             \/ CloseEvent(p) \/ Respond(p)
      PROVE  Good
  BY <1>2, SendPollGood, WithdrawnGood, BreakGood, RespondGood
<1>3. ASSUME Register \/ AgentGivesUp \/ Finish \/ Heartbeat \/ Report \/ GoStale PROVE Good
  BY <1>3, RegisterGood, FinishGood, HeartbeatGood, ReportGood
<1>4. ASSUME NEW token \in Token, AgentRestart(token) PROVE Good
  BY <1>4, RestartGood
<1>5. ASSUME AddToken \/ ResetToken \/ Revoke PROVE Good
  BY <1>5, AddTokenGood, ResetGood
<1>6. ASSUME Begin PROVE Good \/ agent.task \notin late
  BY <1>6, BeginLate
<1>. QED
  BY <1>1, <1>2, <1>3, <1>4, <1>5, <1>6 DEF Next

LEMMA NextInv == IInv /\ [Next]_vars => IInv'
<1> SUFFICES ASSUME IInv, [Next]_vars PROVE IInv'
  OBVIOUS
<1>1. CASE Next
  BY <1>1, NextGood, GoodStep, BeginRuns
<1>2. CASE UNCHANGED vars
  BY <1>2 DEF vars, IInv, ShapeInv, TypeOK, Entries, NoRepeat, PlaceInv, RunInv, Unstarted, Started,
     TimeInv, NothingLost, OldPollsGetNothing
<1>. QED
  BY <1>1, <1>2

LEMMA Invariant == Spec => []IInv
<1>. QED
  BY InitInv, NextInv, PTL DEF Spec

-----------------------------------------------------------------------------
(* What the broker promises.                                               *)

\* The types, and that pending tasks and waiting polls are what the broker's
\* maps say (#pending against the promises of dispatch, #waiters against poll).
THEOREM TypeCorrect == Spec => []TypeOK
<1>1. IInv => TypeOK
  BY DEF IInv, ShapeInv
<1>. QED
  BY <1>1, Invariant, PTL

\* A task whose caller waits is queued, with a poll, with the agent, or lost by
\* the network: requeue, #pruneQueue, #dropBackgroundTasks and the hand-over to
\* a poll lose none between them, whatever breaks.
THEOREM KeepsTasks == Spec => []NothingLost
<1>1. IInv => NothingLost
  BY DEF IInv
<1>. QED
  BY <1>1, Invariant, PTL

\* issueToken, rotateToken and revoke end the polls of the tokens they replace:
\* none of these gets a task dispatched afterwards.
THEOREM KeepsToNewTokens == Spec => []OldPollsGetNothing
<1>1. IInv => OldPollsGetNothing
  BY DEF IInv
<1>. QED
  BY <1>1, Invariant, PTL

\* While credentials stay as they are, the agent works on nothing its caller
\* has given up: deadlineAt stops both at the same time.
THEOREM WorksInTime == ASSUME CredentialOps = {} PROVE Spec => []NoLateWork
<1>1. IInv => NoLateWork
  <2> SUFFICES ASSUME IInv, agent.phase = "working" PROVE agent.task \in pending
    BY DEF NoLateWork
  <2>1. agent.task \in Task \ late
    BY DEF IInv, ShapeInv, TypeOK, AgentState, TimeInv
  <2>2. Started(agent.task)
    BY DEF Started
  <2>. QED
    BY <2>1, <2>2 DEF IInv, TimeInv
<1>. QED
  BY <1>1, Invariant, PTL

-----------------------------------------------------------------------------
(* The broker, the network and the agent as a remote call.                 *)

LEMMA CallStateIs ==
    ASSUME NEW t \in Task
    PROVE  /\ answer[t] = "none" => CallState(t) = "new"
           /\ answer[t] = "waiting" => CallState(t) = "open"
           /\ answer[t] = "result" => CallState(t) = "done"
           /\ answer[t] \in Refusal => CallState(t) = "refused"
           /\ answer[t] \in Unknown => CallState(t) = "unknown"
  BY DEF CallState, Refusal, Unknown

\* The same of the next state.
LEMMA CallStateBecomes ==
    ASSUME NEW t \in Task
    PROVE  /\ answer'[t] = "none" => CallState(t)' = "new"
           /\ answer'[t] = "waiting" => CallState(t)' = "open"
           /\ answer'[t] = "result" => CallState(t)' = "done"
           /\ answer'[t] \in Refusal => CallState(t)' = "refused"
           /\ answer'[t] \in Unknown => CallState(t)' = "unknown"
  BY DEF CallState, Refusal, Unknown

LEMMA CallProgress == ASSUME IInv, Good PROVE Call!Progress
<1>1. ASSUME NEW t \in Task
      PROVE  CallState(t)' \in
                 CASE CallState(t) = "new" -> {"new", "open", "refused"}
                   [] CallState(t) = "open" ->
                         {"open", "unknown"} \cup (IF runs[t] = 0 THEN {"refused"} ELSE {"done"})
                   [] OTHER -> {CallState(t)}
  <2>1. CASE answer'[t] = answer[t]
    <3>1. CallState(t)' = CallState(t)
      BY <2>1 DEF CallState
    <3>. QED
      BY <3>1
  <2>2. CASE answer[t] = "none" /\ answer'[t] \in Refusal \cup {"waiting"}
    BY <2>2, CallStateIs, CallStateBecomes
  <2>3. CASE answer[t] = "waiting" /\ answer'[t] \in Unknown
    BY <2>3, CallStateIs, CallStateBecomes
  <2>4. CASE answer[t] = "waiting" /\ runs[t] = 0 /\ answer'[t] \in Refusal
    BY <2>4, CallStateIs, CallStateBecomes
  <2>5. CASE answer[t] = "waiting" /\ runs[t] = 1 /\ answer'[t] = "result"
    BY <2>5, CallStateIs, CallStateBecomes
  <2>. QED
    BY <2>1, <2>2, <2>3, <2>4, <2>5 DEF Good, Answers
<1>2. runs' = runs
  BY DEF Good, Passes
<1>. QED
  BY <1>1, <1>2 DEF Call!Progress, Call!MayBecome

LEMMA CallStart ==
    ASSUME IInv, Begin, agent.task \notin late, CredentialOps = {}
    PROVE  \E t \in Task : Call!Start(t)
<1>1. /\ agent.task \in Task /\ runs[agent.task] = 0 /\ agent.task \in pending
      /\ runs' = [runs EXCEPT ![agent.task] = @ + 1] /\ UNCHANGED answer
  BY BeginRuns
<1>2. answer[agent.task] = "waiting"
  BY <1>1 DEF IInv, ShapeInv, TypeOK
<1>3. CallState(agent.task) = "open"
  BY <1>1, <1>2, CallStateIs
<1>4. runs' = [runs EXCEPT ![agent.task] = 1]
  BY <1>1
<1>5. [t \in Task |-> CallState(t)]' = [t \in Task |-> CallState(t)]
  BY <1>1 DEF CallState
<1>6. Call!Start(agent.task)
  BY <1>1, <1>3, <1>4, <1>5 DEF Call!Start
<1>. QED
  BY <1>1, <1>6

\* While credentials stay as they are, a dispatched task is a remote call: it
\* runs at most once and only while its caller waits, "result" means it ran,
\* and a refusal (offline, deduplicated, queue full, expired, preempted) that
\* it did not.
THEOREM AtMostOnceCall == ASSUME CredentialOps = {} PROVE Spec => IsRemoteCall
<1>1. Init => Call!Init
  <2> SUFFICES ASSUME Init PROVE Call!Init
    OBVIOUS
  <2>1. \A t \in Task : answer[t] = "none"
    BY DEF Init
  <2>2. \A t \in Task : CallState(t) = "new"
    BY <2>1, CallStateIs
  <2>3. runs = [t \in Task |-> 0]
    BY DEF Init
  <2>. QED
    BY <2>2, <2>3 DEF Call!Init
<1>2. IInv /\ [Next]_vars => [Call!Next]_Call!vars
  <2> SUFFICES ASSUME IInv, [Next]_vars PROVE [Call!Next]_Call!vars
    OBVIOUS
  <2>1. CASE UNCHANGED vars
    BY <2>1 DEF vars, Call!vars, CallState
  <2>2. CASE Next
    BY <2>2, NextGood, CallProgress, CallStart DEF Call!Next
  <2>. QED
    BY <2>1, <2>2
<1>. QED
  BY <1>1, <1>2, Invariant, PTL DEF Spec, IsRemoteCall, Call!Spec

-----------------------------------------------------------------------------
(* The limit of tasks.                                                     *)

\* The first n elements of a sequence without repetition are n.
LEMMA FirstIs ==
    ASSUME NEW X, NEW s \in Seq(X), NoRepeat(s), NEW n \in 0 .. Len(s)
    PROVE  IsFiniteSet(First(s, n)) /\ Cardinality(First(s, n)) = n
<1> DEFINE f == [i \in 1 .. n |-> s[i]]
<1>1. DOMAIN s = 1 .. Len(s) /\ Len(s) \in Nat
  OBVIOUS
<1>2. \A i \in 1 .. n : i \in DOMAIN s /\ i <= n
  BY <1>1
<1>3. \A i \in DOMAIN s : i <= n => i \in 1 .. n
  BY <1>1
<1>4. First(s, n) = {s[i] : i \in 1 .. n}
  BY <1>2, <1>3 DEF First
<1>5. f \in Bijection(1 .. n, First(s, n))
  <2>1. f \in [1 .. n -> First(s, n)] /\ \A i \in 1 .. n : f[i] = s[i]
    BY <1>4
  <2> HIDE DEF f
  <2>2. IsInjective(f)
    BY <1>2, <2>1 DEF NoRepeat, IsInjective
  <2>3. \A x \in First(s, n) : \E i \in 1 .. n : f[i] = x
    BY <1>4, <2>1
  <2>. QED
    BY <2>1, <2>2, <2>3 DEF Bijection, Injection, Surjection
<1>6. IsFiniteSet(1 .. n) /\ Cardinality(1 .. n) = n
  BY FS_Interval
<1>. QED
  BY <1>5, <1>6, FS_Bijection DEF ExistsBijection

\* Only the dispatch of a task finds the node full for it.
LEMMA FullAtDispatch ==
    ASSUME IInv, Next, NEW t \in Task, answer[t] = "none", answer'[t] = "TASK_QUEUE_FULL"
    PROVE  Dispatch(t)
<1>1. t \notin pending /\ answer \in [Task -> Answer]
  BY DEF IInv, ShapeInv, TypeOK
<1>2. ASSUME NEW u \in Task, DispatchOffline(u) \/ Dispatch(u) \/ Timer(u) \/ Deadline(u)
      PROVE  Dispatch(t)
  <2>1. CASE Dispatch(u)
    <3>1. u # t => answer'[t] \in {"TASK_EXPIRED", "TASK_PREEMPTED", "none"}
      BY <2>1 DEF Dispatch
    <3>. QED
      BY <2>1, <3>1
  <2>2. CASE DispatchOffline(u) \/ Timer(u) \/ Deadline(u)
    BY <1>1, <2>2 DEF DispatchOffline, Timer, Deadline, broker
  <2>. QED
    BY <1>2, <2>1, <2>2
<1>3. ASSUME NEW p \in Poll, \/ SendPoll(p) \/ PollTimeout(p) \/ ConnectionBreaks(p)
                             \/ CloseEvent(p) \/ Respond(p)
      PROVE  answer'[t] = "none"
  BY <1>1, <1>3 DEF SendPoll, PollTimeout, ConnectionBreaks, CloseEvent, Respond, Resolved, broker
<1>4. ASSUME Register \/ AgentGivesUp \/ Begin \/ Finish \/ Heartbeat \/ Report \/ GoStale
      PROVE  answer'[t] = "none"
  BY <1>1, <1>4 DEF Register, AgentGivesUp, Begin, Finish, Heartbeat, Report, Result, GoStale, broker
<1>5. ASSUME (\E token \in Token : AgentRestart(token)) \/ AddToken \/ ResetToken \/ Revoke
      PROVE  answer'[t] = "none"
  BY <1>1, <1>5 DEF AgentRestart, AddToken, ResetToken, Revoke, Disconnect, Resolved, broker
<1>. QED
  BY <1>2, <1>3, <1>4, <1>5 DEF Next

\* The victims are all queued background tasks, or as many as the limit asks
\* for: each of them is one of the open tasks, so there is room after them.
LEMMA NoVictimLeft ==
    ASSUME IInv, NEW t \in Task \ Background, Verdict(t) = "TASK_QUEUE_FULL"
    PROVE  Victims(t) = (Entries(queue) \ late) \cap Background
<1> DEFINE F == Filter(Pruned, Background)
           n == Cardinality(Open) - MaxTasks + 1
<1>1. /\ Pruned \in Seq(Task) /\ NoRepeat(Pruned) /\ Entries(Pruned) = Entries(queue) \ late
      /\ Entries(queue) \subseteq Task
  BY PrunedIs
<1>2. F \in Seq(Task) /\ Entries(F) = Entries(Pruned) \cap Background /\ NoRepeat(F)
  BY <1>1, Filtered
<1>3. Victims(t) = First(F, n) /\ Cardinality(Open \ Victims(t)) >= MaxTasks
  BY DEF Victims, Verdict
<1>4. Entries(F) \subseteq Open
  BY <1>1, <1>2 DEF IInv, PlaceInv, Open, Expired
<1>5. IsFiniteSet(Open) /\ Cardinality(Open) \in Nat /\ MaxTasks \in Nat
  <2>1. Open \subseteq Task
    BY DEF Open, IInv, ShapeInv, TypeOK
  <2>. QED
    BY <2>1, TaskAssumption, LimitAssumption, FS_Subset, FS_CardinalityType
<1>6. n \in Int /\ n = Cardinality(Open) - MaxTasks + 1
  BY <1>5
<1>7. First(F, n) \subseteq Entries(F)
  BY DEF First, Entries
<1> HIDE DEF F, n
<1> SUFFICES ASSUME NEW j \in DOMAIN F, F[j] \notin First(F, n) PROVE FALSE
  BY <1>1, <1>2, <1>3, <1>7 DEF Entries
<1>8. j \in 1 .. Len(F) /\ Len(F) \in Nat /\ j > n
  BY <1>2, <1>6 DEF First
<1>9. CASE n <= 0
  <2>1. \A i \in DOMAIN F : ~(i <= n)
    BY <1>2, <1>6, <1>9
  <2>2. Open \ Victims(t) = Open
    BY <1>3, <2>1 DEF First
  <2>3. Cardinality(Open) >= MaxTasks
    BY <1>3, <2>2
  <2>. QED
    BY <1>5, <1>6, <1>9, <2>3
<1>10. CASE n > 0
  <2>1. n \in 0 .. Len(F)
    BY <1>6, <1>8, <1>10
  <2>2. Cardinality(First(F, n)) = n
    BY <1>2, <2>1, FirstIs
  <2>3. Cardinality(Open \ Victims(t)) = Cardinality(Open) - Cardinality(Open \cap Victims(t))
    BY <1>5, FS_Difference
  <2>4. Open \cap Victims(t) = First(F, n)
    BY <1>3, <1>4, <1>7
  <2>. QED
    BY <1>3, <1>5, <1>6, <2>2, <2>3, <2>4
<1>. QED
  BY <1>6, <1>9, <1>10

\* A control task is turned away only when no background task is left in the
\* queue, nor a late one: dispatch prunes and preempts before it counts.
THEOREM ControlFirst == Spec => ControlHasPriority
<1>1. IInv /\ [Next]_vars =>
          [\A t \in Task \ Background :
              answer'[t] = "TASK_QUEUE_FULL" /\ answer[t] = "none" =>
                  Entries(queue') \cap (Background \cup late) = {}]_vars
  <2> SUFFICES ASSUME IInv, Next, NEW t \in Task \ Background,
                      answer'[t] = "TASK_QUEUE_FULL", answer[t] = "none"
               PROVE  Entries(queue') \cap (Background \cup late) = {}
    OBVIOUS
  <2>1. Dispatch(t)
    BY FullAtDispatch
  <2>2. Verdict(t) = "TASK_QUEUE_FULL" /\ queue' = Kept(t)
    BY <2>1 DEF Dispatch
  <2>3. Entries(queue') = (Entries(queue) \ late) \ Victims(t)
    BY <2>2, KeptIs
  <2>. QED
    BY <2>2, <2>3, NoVictimLeft
<1>. QED
  BY <1>1, Invariant, PTL DEF Spec, ControlHasPriority
=============================================================================
