---------------------- MODULE OpenClawConnectionProofs ----------------------
(***************************************************************************)
(* What holds of the connection to OpenClaw however many tasks and sockets  *)
(* there are and however often it goes: no socket is lost, a connection is  *)
(* heard, somebody tries until it is closed, and neither the breaker nor    *)
(* the close is undone.                                                    *)
(***************************************************************************)
EXTENDS OpenClawConnection, SequenceTheorems, FiniteSetTheorems, TLAPS

Member(q, t) == \E i \in DOMAIN q : q[i] = t
Once(q)      == \A i, j \in DOMAIN q : q[i] = q[j] => i = j

\* What is left of a sequence without its i-th element.
LEMMA RemovedAt ==
  ASSUME NEW S, NEW q \in Seq(S), NEW i \in 1..Len(q)
  PROVE  /\ RemoveAt(q, i) \in Seq(S) /\ Len(RemoveAt(q, i)) = Len(q) - 1
         /\ \A j \in 1..(Len(q) - 1) : RemoveAt(q, i)[j] = IF j < i THEN q[j] ELSE q[j + 1]
<1> DEFINE a == SubSeq(q, 1, i - 1)
           b == SubSeq(q, i + 1, Len(q))
<1>1. a \in Seq(S) /\ Len(a) = i - 1 /\ \A j \in 1..(i - 1) : a[j] = q[j]
  BY SubSeqProperties
<1>2. b \in Seq(S) /\ Len(b) = Len(q) - i /\ \A j \in 1..(Len(q) - i) : b[j] = q[i + j]
  BY SubSeqProperties
<1>3. /\ a \o b \in Seq(S) /\ Len(a \o b) = Len(a) + Len(b)
      /\ \A j \in 1..(Len(a) + Len(b)) :
           (a \o b)[j] = IF j <= Len(a) THEN a[j] ELSE b[j - Len(a)]
  BY <1>1, <1>2, ConcatProperties
<1> HIDE DEF a, b
<1>4. Len(q) \in Nat
  BY LenProperties
<1>5. ASSUME NEW j \in 1..(Len(q) - 1)
      PROVE  (a \o b)[j] = IF j < i THEN q[j] ELSE q[j + 1]
  <2>1. CASE j < i
    BY <2>1, <1>1, <1>2, <1>3, <1>4
  <2>2. CASE ~(j < i)
    <3>1. j - (i - 1) \in 1..(Len(q) - i) /\ i + (j - (i - 1)) = j + 1
      BY <2>2, <1>4
    <3>2. (a \o b)[j] = b[j - (i - 1)]
      BY <2>2, <1>1, <1>2, <1>3, <1>4
    <3>3. b[j - (i - 1)] = q[i + (j - (i - 1))]
      BY <3>1, <1>2
    <3> QED BY <2>2, <3>1, <3>2, <3>3
  <2> QED BY <2>1, <2>2
<1>6. RemoveAt(q, i) = a \o b
  BY DEF RemoveAt, a, b
<1>7. Len(a \o b) = Len(q) - 1
  BY <1>1, <1>2, <1>3, <1>4
<1> HIDE DEF a
<1> QED BY <1>3, <1>5, <1>6, <1>7

\* Who leaves the queue of the lock changes the place of nobody, and its head only if it was that.
LEMMA WithoutIt ==
  ASSUME lockQ \in Seq(Tasks), Once(lockQ), NEW t \in Tasks
  PROVE  /\ Without(t) \in Seq(Tasks) /\ Once(Without(t))
         /\ \A u \in Tasks : Member(Without(t), u) <=> Member(lockQ, u) /\ u # t
         /\ lockQ # <<>> /\ lockQ[1] # t => Without(t) # <<>> /\ Without(t)[1] = lockQ[1]
<1>1. CASE ~Queued(t)
  BY <1>1 DEF Without, Queued, Member
<1>2. CASE Queued(t)
  <2> DEFINE i == CHOOSE i \in DOMAIN lockQ : lockQ[i] = t
             r == RemoveAt(lockQ, i)
  <2>1. i \in 1..Len(lockQ) /\ lockQ[i] = t /\ Without(t) = r /\ Len(lockQ) \in Nat
    BY <1>2, LenProperties DEF Queued, Without
  <2>2. /\ r \in Seq(Tasks) /\ Len(r) = Len(lockQ) - 1 /\ DOMAIN r = 1..(Len(lockQ) - 1)
        /\ \A j \in 1..(Len(lockQ) - 1) : r[j] = IF j < i THEN lockQ[j] ELSE lockQ[j + 1]
    BY <2>1, RemovedAt, LenProperties
  <2>3. DOMAIN lockQ = 1..Len(lockQ)
    BY LenProperties
  <2> HIDE DEF i, r
  <2>4. Once(r)
    <3> SUFFICES ASSUME NEW j \in DOMAIN r, NEW k \in DOMAIN r, r[j] = r[k] PROVE j = k
      BY DEF Once
    <3> DEFINE at(x) == IF x < i THEN x ELSE x + 1
    <3>1. at(j) \in DOMAIN lockQ /\ at(k) \in DOMAIN lockQ /\ lockQ[at(j)] = lockQ[at(k)]
      BY <2>1, <2>2, <2>3
    <3>2. at(j) = at(k)
      BY <3>1 DEF Once
    <3> QED BY <3>2, <2>1, <2>2
  <2>5. ASSUME NEW u \in Tasks
        PROVE  Member(r, u) <=> Member(lockQ, u) /\ u # t
    <3>1. ASSUME NEW j \in DOMAIN r, r[j] = u PROVE Member(lockQ, u) /\ u # t
      <4>1. CASE j < i
        BY <4>1, <3>1, <2>1, <2>2, <2>3 DEF Member, Once
      <4>2. CASE ~(j < i)
        BY <4>2, <3>1, <2>1, <2>2, <2>3 DEF Member, Once
      <4> QED BY <4>1, <4>2
    <3>2. ASSUME NEW j \in DOMAIN lockQ, lockQ[j] = u, u # t PROVE Member(r, u)
      <4>1. CASE j < i
        BY <4>1, <3>2, <2>1, <2>2, <2>3 DEF Member
      <4>2. CASE j > i
        <5>1. j - 1 \in DOMAIN r /\ r[j - 1] = u
          BY <4>2, <3>2, <2>1, <2>2, <2>3
        <5> QED BY <5>1 DEF Member
      <4> QED BY <4>1, <4>2, <3>2, <2>1, <2>3
    <3> QED BY <3>1, <3>2 DEF Member
  <2>6. lockQ # <<>> /\ lockQ[1] # t => r # <<>> /\ r[1] = lockQ[1]
    <3> SUFFICES ASSUME lockQ # <<>>, lockQ[1] # t PROVE r # <<>> /\ r[1] = lockQ[1]
      OBVIOUS
    <3>1. 1 \in 1..(Len(lockQ) - 1) /\ 1 < i
      BY <2>1
    <3> QED BY <3>1, <2>2
  <2> QED BY <2>1, <2>4, <2>5, <2>6, <2>2
<1> QED BY <1>1, <1>2
-----------------------------------------------------------------------------
\* The types, one by one: TypeOK says the references by the kinds of the tasks.
TaskRec == [kind : {"none", "boot", "loop", "slow"},
            pc : {"sleep", "lock", "stop", "opening", "handshake", "cleanup", "abandon"},
            cancel : BOOLEAN, sock : Socks \cup {None}]

Typed ==
  /\ state \in States /\ exhausted \in BOOLEAN /\ closed \in BOOLEAN /\ reach \in BOOLEAN
  /\ task \in [Tasks -> TaskRec]
  /\ loopRef \in Tasks \cup {None} /\ slowRef \in Tasks \cup {None}
  /\ lockQ \in Seq(Tasks)
  /\ ws \in Socks \cup {None} /\ sockets \subseteq Socks /\ dead \subseteq sockets
  /\ listener \in {"none", "alive", "cancelled"}
  /\ closer \in [pc : {"none", "slow", "loop", "client", "done"}, target : Tasks \cup {None}]
  /\ flaps \in 0..MaxFlaps /\ triggers \in 0..MaxTriggers

\* The lock is first come, first served: who is past it is the first of the queue.
LockOrder ==
  /\ Once(lockQ)
  /\ \A t \in Tasks : /\ Member(lockQ, t) <=> task[t].pc # "sleep"
                      /\ task[t].pc \notin {"sleep", "lock"} => lockQ # <<>> /\ lockQ[1] = t

\* What the references say of the tasks, and who may have a cancellation to hear.
Refs ==
  /\ slowRef # None => task[slowRef].kind = "slow"
  /\ \A t \in Tasks :
      /\ task[t].kind = "none" => task[t].pc = "sleep" /\ ~task[t].cancel
      /\ task[t].kind = "loop" <=> loopRef = t
      /\ task[t].kind = "slow" => slowRef = t \/ task[t].cancel
      /\ task[t].pc = "abandon" => task[t].cancel
      /\ task[t].cancel => \/ task[t].kind = "slow" /\ slowRef # t
                           \/ task[t].kind = "loop" /\ closer.pc \in {"loop", "client", "done"}
      /\ task[t].kind = "boot" => /\ \A u \in Tasks \ {t} : task[u].kind = "none"
                                  /\ state = "DEGRADED" /\ ~exhausted /\ ~closed
                                  /\ listener = "none"

\* Until close(), one of four: connected and heard, or exactly one task tries.
OneTries ==
  /\ exhausted => loopRef = None
  /\ ~closed =>
       \/ /\ state = "CONNECTED" /\ listener = "alive"
          /\ loopRef = None /\ slowRef = None /\ ~exhausted /\ ~Booting
       \/ state = "RECONNECTING" /\ loopRef # None /\ slowRef = None
       \/ state = "DEGRADED" /\ exhausted /\ slowRef # None
       \/ state = "DEGRADED" /\ ~exhausted /\ slowRef = None /\ Booting

\* How far close() has come, and what it has left behind by then.
Ending ==
  /\ closed <=> closer.pc # "none"
  /\ closed => slowRef = None /\ ~Booting
  /\ closer.pc \in {"loop", "client", "done"} => \A t \in Tasks : Alive(t) => task[t].cancel
  /\ closer.pc \in {"client", "done"} => listener # "alive"
  /\ closer.pc = "done" => listener = "none" /\ sockets = {}

\* _ws owns every open socket; who opens one has none, who cleans up knows which.
Owned ==
  /\ sockets \subseteq {ws}
  /\ \A t \in Tasks : /\ task[t].pc = "opening" => ws = None
                      /\ task[t].pc \in {"cleanup", "abandon"} => sockets \subseteq {task[t].sock}

Inv == Typed /\ LockOrder /\ Refs /\ OneTries /\ Ending /\ Owned

-----------------------------------------------------------------------------
\* A queue somebody is in has a head.
LEMMA FirstIsATask ==
  ASSUME lockQ \in Seq(Tasks), NEW t \in Tasks, Member(lockQ, t)
  PROVE  lockQ # <<>> /\ lockQ[1] \in Tasks
<1>1. PICK i \in 1..Len(lockQ) : lockQ[i] = t
  BY LenProperties DEF Member
<1>2. Len(lockQ) \in Nat /\ 1 \in 1..Len(lockQ)
  BY <1>1, LenProperties
<1> QED BY <1>2, ElementOfSeq

\* Who comes last is behind everybody.
LEMMA Enqueued ==
  ASSUME lockQ \in Seq(Tasks), Once(lockQ), NEW t \in Tasks, ~Member(lockQ, t)
  PROVE  /\ Append(lockQ, t) \in Seq(Tasks) /\ Once(Append(lockQ, t))
         /\ \A u \in Tasks : Member(Append(lockQ, t), u) <=> Member(lockQ, u) \/ u = t
         /\ lockQ # <<>> => Append(lockQ, t) # <<>> /\ Append(lockQ, t)[1] = lockQ[1]
BY AppendProperties, LenProperties DEF Member, Once

LEMMA InvInit == Init => Inv
<1> SUFFICES ASSUME Init PROVE Inv
  OBVIOUS
<1> USE ConnectionAssumption
<1>1. PICK t \in Tasks : /\ task = [x \in Tasks |-> IF x = t THEN Task("boot", "lock") ELSE NoTask]
                         /\ lockQ = <<t>>
  BY DEF Init
<1>2. /\ lockQ \in Seq(Tasks) /\ Once(lockQ) /\ \A u \in Tasks : Member(lockQ, u) <=> u = t
  BY <1>1 DEF Once, Member
<1>3. Typed
  <2>1. task \in [Tasks -> TaskRec]
    BY <1>1 DEF Task, NoTask, TaskRec
  <2>2. closer \in [pc : {"none", "slow", "loop", "client", "done"}, target : Tasks \cup {None}]
    BY DEF Init
  <2>3. flaps \in 0..MaxFlaps /\ triggers \in 0..MaxTriggers
    BY DEF Init
  <2>4. state \in States /\ exhausted \in BOOLEAN /\ closed \in BOOLEAN /\ reach \in BOOLEAN
    BY DEF Init, States
  <2>5. sockets \subseteq Socks /\ dead \subseteq sockets /\ listener = "none"
        /\ ws = None /\ loopRef = None /\ slowRef = None
    BY DEF Init
  <2> QED BY <2>1, <2>2, <2>3, <2>4, <2>5, <1>2 DEF Typed
<1>4. LockOrder
  BY <1>1, <1>2 DEF LockOrder, Task, NoTask
<1>5. Refs /\ OneTries /\ Ending /\ Owned
  BY <1>1 DEF Init, Refs, OneTries, Ending, Owned, Task, NoTask, Booting, Alive
<1> QED BY <1>3, <1>4, <1>5 DEF Inv

\* A task that is cancelled ends and leaves the queue.
LEMMA EndsKeeps ==
  ASSUME Inv, NEW t \in Tasks, Ends(t), Alive(t), lockQ' = Without(t),
         task[t].cancel,
         UNCHANGED <<health, listener, closer, counts>>,
         \/ UNCHANGED net
         \/ /\ sockets' = {} /\ dead' = {} /\ ws' = None
  PROVE  Inv'
<1> USE ConnectionAssumption DEF health, refs, net, counts
<1>1. /\ task \in [Tasks -> TaskRec] /\ lockQ \in Seq(Tasks) /\ Once(lockQ)
      /\ task' = [task EXCEPT ![t] = NoTask] /\ task' \in [Tasks -> TaskRec]
      /\ NoTask = [kind |-> "none", pc |-> "sleep", cancel |-> FALSE, sock |-> None]
  BY DEF Inv, Typed, LockOrder, TaskRec, NoTask, Task, Ends
<1>2. /\ lockQ' \in Seq(Tasks) /\ Once(lockQ')
      /\ \A u \in Tasks : Member(lockQ', u) <=> Member(lockQ, u) /\ u # t
      /\ lockQ # <<>> /\ lockQ[1] # t => lockQ' # <<>> /\ lockQ'[1] = lockQ[1]
  BY <1>1, WithoutIt
<1>3. Typed'
  BY <1>1, <1>2 DEF Inv, Typed, Ends
<1>4. LockOrder'
  BY <1>1, <1>2 DEF Inv, LockOrder
<1>5. Refs'
  BY <1>1 DEF Inv, Typed, Refs, Ends, Alive
<1>6. OneTries'
  BY <1>1 DEF Inv, Typed, Refs, OneTries, Ending, Ends, Booting, Alive
<1>7. Ending'
  BY <1>1 DEF Inv, Typed, Refs, Ending, Ends, Booting, Alive
<1>8. Owned'
  BY <1>1 DEF Inv, Typed, Owned
<1> QED BY <1>3, <1>4, <1>5, <1>6, <1>7, <1>8 DEF Inv

\* An attempt that failed leaves the queue, and one task goes on trying unless it is closed.
LEMMA FailureKeeps ==
  ASSUME Inv, NEW t \in Tasks, AttemptFailed(t), Alive(t), ~task[t].cancel, lockQ' = Without(t),
         UNCHANGED <<listener, closer, counts>>,
         \/ UNCHANGED net
         \/ sockets' = {} /\ dead' = {} /\ ws' = None
  PROVE  Inv'
<1> USE ConnectionAssumption DEF health, refs, net, counts
<1>1. /\ task \in [Tasks -> TaskRec] /\ task[t] \in TaskRec /\ lockQ \in Seq(Tasks) /\ Once(lockQ)
      /\ NoTask = [kind |-> "none", pc |-> "sleep", cancel |-> FALSE, sock |-> None]
      /\ Task("loop", "sleep") = [kind |-> "loop", pc |-> "sleep", cancel |-> FALSE, sock |-> None]
      /\ Task("slow", "sleep") = [kind |-> "slow", pc |-> "sleep", cancel |-> FALSE, sock |-> None]
  BY DEF Inv, Typed, LockOrder, TaskRec, NoTask, Task
<1>2. /\ lockQ' \in Seq(Tasks) /\ Once(lockQ')
      /\ \A u \in Tasks : Member(lockQ', u) <=> Member(lockQ, u) /\ u # t
      /\ lockQ # <<>> /\ lockQ[1] # t => lockQ' # <<>> /\ lockQ'[1] = lockQ[1]
  BY <1>1, WithoutIt
<1>3. /\ task' \in [Tasks -> TaskRec] /\ task'[t].pc = "sleep" /\ task'[t].cancel = FALSE
      /\ \A u \in Tasks \ {t} : task'[u] = task[u]
  <2>1. PICK r \in TaskRec : task' = [task EXCEPT ![t] = r] /\ r.pc = "sleep" /\ r.cancel = FALSE
    <3>1. [task[t] EXCEPT !.pc = "sleep"] \in TaskRec
      BY <1>1 DEF TaskRec
    <3>2. CASE task' = [task EXCEPT ![t].pc = "sleep"]
      <4>1. task' = [task EXCEPT ![t] = [task[t] EXCEPT !.pc = "sleep"]]
        BY <3>2, <1>1
      <4> QED BY <3>1, <4>1, <1>1 DEF TaskRec
    <3>3. CASE \E r \in {NoTask, Task("loop", "sleep"), Task("slow", "sleep")} :
                 task' = [task EXCEPT ![t] = r]
      <4>1. PICK r \in {NoTask, Task("loop", "sleep"), Task("slow", "sleep")} :
              task' = [task EXCEPT ![t] = r]
        BY <3>3
      <4>2. r \in TaskRec /\ r.pc = "sleep" /\ r.cancel = FALSE
        <5>1. CASE r = NoTask
          BY <5>1, <1>1 DEF TaskRec
        <5>2. CASE r = Task("loop", "sleep")
          BY <5>2 DEF Task, TaskRec
        <5>3. CASE r = Task("slow", "sleep")
          BY <5>3 DEF Task, TaskRec
        <5> QED BY <4>1, <5>1, <5>2, <5>3
      <4> QED BY <4>1, <4>2
    <3> QED BY <3>2, <3>3 DEF AttemptFailed
  <2> QED BY <2>1, <1>1
<1>4. Typed'
  <2>1. /\ state' \in States /\ exhausted' \in BOOLEAN /\ closed' \in BOOLEAN
        /\ loopRef' \in Tasks \cup {None} /\ slowRef' \in Tasks \cup {None}
    BY DEF Inv, Typed, AttemptFailed, States
  <2>2. ws' \in Socks \cup {None} /\ sockets' \subseteq Socks /\ dead' \subseteq sockets'
    BY DEF Inv, Typed
  <2> QED BY <1>2, <1>3, <2>1, <2>2 DEF Inv, Typed
<1>5. LockOrder'
  BY <1>1, <1>2, <1>3 DEF Inv, LockOrder
<1>6. Owned'
  BY <1>1, <1>3 DEF Inv, Typed, Owned
<1> USE DEF Inv, Typed, Refs, OneTries, Ending, Alive, Booting
<1>7. CASE /\ task[t].kind = "boot"
           /\ task' = [task EXCEPT ![t] = Task("loop", "sleep")]
           /\ loopRef' = t /\ state' = "RECONNECTING"
           /\ UNCHANGED <<exhausted, closed, slowRef>>
  <2>1. task'[t].kind = "loop"
    BY <1>7, <1>1
  <2>2. Refs'
    BY <1>7, <1>1, <1>3, <2>1
  <2>3. OneTries' /\ Ending'
    BY <1>7, <1>1, <1>3, <2>1
  <2> QED BY <1>4, <1>5, <1>6, <2>2, <2>3
<1>8. CASE /\ task[t].kind \in {"loop", "slow"}
           /\ task' = [task EXCEPT ![t].pc = "sleep"]
           /\ UNCHANGED <<health, refs>>
  <2>1. task'[t].kind = task[t].kind
    BY <1>8, <1>1 DEF TaskRec
  <2>2. Refs'
    BY <1>8, <1>1, <1>3, <2>1
  <2>3. OneTries' /\ Ending'
    BY <1>8, <1>1, <1>3, <2>1
  <2> QED BY <1>4, <1>5, <1>6, <2>2, <2>3
<1>9. CASE /\ task[t].kind = "loop" /\ StartsSlow
           /\ state' = "DEGRADED" /\ exhausted' = TRUE /\ loopRef' = None
           /\ task' = [task EXCEPT ![t] = Task("slow", "sleep")] /\ slowRef' = t
           /\ UNCHANGED closed
  <2>1. task'[t].kind = "slow"
    BY <1>9, <1>1
  <2>2. Refs'
    BY <1>9, <1>1, <1>3, <2>1 DEF StartsSlow
  <2>3. OneTries' /\ Ending'
    BY <1>9, <1>1, <1>3, <2>1 DEF StartsSlow
  <2> QED BY <1>4, <1>5, <1>6, <2>2, <2>3
<1>10. CASE /\ task[t].kind = "loop" /\ ~StartsSlow
            /\ state' = "DEGRADED" /\ exhausted' = TRUE /\ loopRef' = None
            /\ task' = [task EXCEPT ![t] = NoTask] /\ UNCHANGED slowRef
            /\ UNCHANGED closed
  <2>1. task'[t].kind = "none"
    BY <1>10, <1>1
  <2>2. Refs'
    BY <1>10, <1>1, <1>3, <2>1 DEF StartsSlow
  <2>3. OneTries' /\ Ending'
    BY <1>10, <1>1, <1>3, <2>1 DEF StartsSlow
  <2> QED BY <1>4, <1>5, <1>6, <2>2, <2>3
<1> QED BY <1>7, <1>8, <1>9, <1>10 DEF AttemptFailed

\* One task at most is past the lock.
LEMMA OneInside ==
  ASSUME Inv, NEW t \in Tasks, task[t].pc \notin {"sleep", "lock"}, NEW u \in Tasks, u # t
  PROVE  task[u].pc \in {"sleep", "lock"}
BY DEF Inv, LockOrder

\* The steps of connect() and of the tasks that run it.
LEMMA TaskKeeps ==
  ASSUME Inv, NEW t \in Tasks, TaskStep(t)
  PROVE  Inv'
<1> USE ConnectionAssumption DEF health, refs, net, counts
<1>1. /\ task \in [Tasks -> TaskRec] /\ lockQ \in Seq(Tasks) /\ Once(lockQ)
      /\ task[t] \in TaskRec /\ NoTask \in TaskRec /\ Task("loop", "sleep") \in TaskRec
      /\ Task("slow", "sleep") \in TaskRec
  BY DEF Inv, Typed, LockOrder, TaskRec, NoTask, Task
<1>2. /\ Without(t) \in Seq(Tasks) /\ Once(Without(t))
      /\ \A u \in Tasks : Member(Without(t), u) <=> Member(lockQ, u) /\ u # t
      /\ lockQ # <<>> /\ lockQ[1] # t => Without(t) # <<>> /\ Without(t)[1] = lockQ[1]
  BY <1>1, WithoutIt
<1>3. CASE Attempt(t)
  <2>1. ~(task[t].kind = "slow" /\ ~exhausted)
    BY <1>3, <1>1 DEF Attempt, Inv, Typed, Refs, OneTries, Ending, Live, At, Alive, Booting
  <2>2. Inv'
    <3>0. task' = [task EXCEPT ![t].pc = "lock"] /\ task[t].kind # "none"
      BY <2>1, <1>3 DEF Attempt, Moves, Live, At, Alive
    <3>1. /\ task' = [task EXCEPT ![t].pc = "lock"] /\ task' \in [Tasks -> TaskRec]
          /\ task[t].pc = "sleep" /\ ~Member(lockQ, t) /\ lockQ' = Append(lockQ, t)
      BY <2>1, <3>0, <1>3, <1>1 DEF Attempt, Moves, Inv, LockOrder, Live, At, TaskRec
    <3>2. Typed'
      BY <2>1, <1>3, <1>1, <3>0, <3>1, Enqueued DEF Attempt, Inv, Typed
    <3>3. LockOrder'
      BY <3>0, <3>1, <1>1, Enqueued DEF Inv, LockOrder
    <3>4. Refs'
      BY <2>1, <1>3, <1>1, <3>0, <3>1 DEF Attempt, Inv, Refs
    <3>5. OneTries' /\ Ending'
      BY <2>1, <1>3, <1>1, <3>0, <3>1 DEF Attempt, Inv, OneTries, Ending, Alive, Booting
    <3>6. Owned'
      BY <2>1, <1>3, <1>1, <3>0, <3>1 DEF Attempt, Inv, Owned
    <3> QED BY <3>2, <3>3, <3>4, <3>5, <3>6 DEF Inv
  <2> QED BY <2>1, <2>2
<1>4. CASE Acquire(t)
  <2>0. task' = [task EXCEPT ![t].pc = "stop"] /\ task'[t] = [task[t] EXCEPT !.pc = "stop"]
    BY <1>4, <1>1 DEF Acquire, Moves
  <2>1. Typed'
    BY <1>4, <1>1, <2>0 DEF Acquire, Inv, Typed, TaskRec
  <2>2. LockOrder'
    <3>1. task[t].pc = "lock" /\ lockQ # <<>> /\ lockQ[1] = t /\ UNCHANGED lockQ
      BY <1>4, <1>1, FirstIsATask DEF Acquire, HasLock, Inv, LockOrder, Live, At
    <3> QED BY <3>1, <2>0, <1>1 DEF Inv, LockOrder
  <2>3. Refs' /\ Owned'
    BY <1>4, <1>1 DEF Acquire, Inv, Refs, Owned, TaskRec, Moves, Live, At, Alive
  <2>4. OneTries' /\ Ending'
    BY <1>4, <1>1 DEF Acquire, Inv, Refs, OneTries, Ending, TaskRec, Moves, Live, At, Alive, Booting
  <2> QED BY <2>1, <2>2, <2>3, <2>4 DEF Inv
<1>5. CASE CloseOld(t)
  <2>1. sockets' = {} /\ dead' = {} /\ ws' = None /\ Alive(t) /\ task[t].pc = "stop"
    BY <1>5 DEF CloseOld, At, Inv, Typed, Owned
  <2>2. CASE Reraises(t)
    BY <2>1, <2>2, <1>5, EndsKeeps DEF CloseOld, Reraises
  <2>3. CASE ~Reraises(t)
    <3>1. /\ task' = [task EXCEPT ![t].pc = "opening", ![t].cancel = FALSE]
          /\ lockQ' = lockQ /\ ~task[t].cancel /\ UNCHANGED refs
      BY <2>3, <1>5 DEF CloseOld, Reraises
    <3>2. /\ task' \in [Tasks -> TaskRec] /\ task'[t].pc = "opening" /\ ~task'[t].cancel
          /\ task'[t].kind = task[t].kind /\ task'[t].sock = task[t].sock
          /\ \A u \in Tasks \ {t} : task'[u] = task[u]
      BY <3>1, <1>1 DEF TaskRec
    <3>3. Typed' /\ LockOrder'
      BY <1>5, <1>1, <2>1, <3>1, <3>2 DEF CloseOld, Inv, Typed, LockOrder
    <3>7. UNCHANGED <<state, exhausted, closed, listener, closer, loopRef, slowRef>>
      BY <1>5, <3>1 DEF CloseOld
    <3>4. Refs'
      <4>1. task'[t].kind # "none" /\ task'[t].pc # "abandon" /\ task'[t].cancel = task[t].cancel
        BY <3>1, <3>2, <2>1, <1>1 DEF Alive, TaskRec
      <4> QED BY <4>1, <3>7, <3>2 DEF Inv, Typed, Refs
    <3>5. Owned'
      BY <1>5, <1>1, <2>1, <3>1, <3>2 DEF CloseOld, Inv, Owned
    <3>6. OneTries' /\ Ending'
      BY <1>5, <1>1, <2>1, <3>1, <3>2 DEF CloseOld, Inv, OneTries, Ending, Alive, Booting
    <3> QED BY <3>3, <3>4, <3>5, <3>6 DEF Inv
  <2> QED BY <2>2, <2>3
<1>6. CASE OpenOk(t)
  <2>1. /\ task' = [task EXCEPT ![t].pc = "handshake"] /\ task' \in [Tasks -> TaskRec]
        /\ task[t].pc = "opening" /\ ~task[t].cancel /\ Alive(t)
    BY <1>6, <1>1 DEF OpenOk, Moves, Live, At, TaskRec
  <2>2. /\ sockets = {} /\ dead = {} /\ ws' \in Socks /\ sockets' = {ws'}
    BY <1>6, <2>1 DEF OpenOk, Inv, Typed, Owned
  <2>3. \A u \in Tasks \ {t} : task[u].pc \in {"sleep", "lock"}
    BY <2>1, OneInside
  <2>4. Typed' /\ LockOrder'
    BY <1>6, <1>1, <2>1, <2>2 DEF OpenOk, Inv, Typed, LockOrder
  <2>5. Refs'
    BY <1>6, <1>1, <2>1 DEF OpenOk, Inv, Refs
  <2>6. Owned'
    BY <1>6, <1>1, <2>1, <2>2, <2>3 DEF OpenOk, Inv, Owned
  <2>7. OneTries' /\ Ending'
    BY <1>6, <1>1, <2>1, <2>2 DEF OpenOk, Inv, OneTries, Ending, Alive, Booting
  <2> QED BY <2>4, <2>5, <2>6, <2>7 DEF Inv
<1>7. CASE OpenFails(t)
  BY <1>7, FailureKeeps DEF OpenFails, Live, At
<1>8. CASE Connected(t)
  <2>1. /\ task' = [task EXCEPT ![t] = NoTask] /\ task' \in [Tasks -> TaskRec]
        /\ task[t].pc = "handshake" /\ ~task[t].cancel /\ Alive(t) /\ task'[t].kind = "none"
        /\ task'[t].cancel = FALSE /\ task'[t].pc = "sleep"
        /\ \A u \in Tasks \ {t} : task'[u] = task[u]
    BY <1>8, <1>1 DEF Connected, AttemptDone, Ends, Live, At, NoTask, Task
  <2>2. \A u \in Tasks \ {t} : task[u].pc \in {"sleep", "lock"}
    BY <2>1, OneInside
  <2>3. Typed'
    BY <1>8, <1>1, <1>2, <2>1 DEF Connected, AttemptDone, Ends, Inv, Typed, States
  <2>4. LockOrder'
    BY <1>8, <1>1, <1>2, <2>1 DEF Connected, Inv, LockOrder
  <2>5. Refs'
    BY <1>8, <1>1, <2>1 DEF Connected, AttemptDone, Ends, Inv, Typed, Refs, Alive
  <2>6. OneTries'
    <3>1. /\ state' = "CONNECTED" /\ listener' = "alive" /\ closed' = closed
          /\ exhausted' = IF task[t].kind = "loop" THEN exhausted ELSE FALSE
          /\ loopRef' = (IF loopRef = t THEN None ELSE loopRef)
          /\ slowRef' = (IF slowRef = t THEN None ELSE slowRef)
      BY <1>8 DEF Connected, AttemptDone, Ends
    <3>2. ~closed => \A u \in Tasks \ {t} : task[u].kind # "boot"
      BY <2>1 DEF Inv, Refs, Alive
    <3>3. CASE task[t].kind = "loop"
      BY <3>1, <3>2, <3>3, <2>1, <1>1 DEF Inv, Typed, Refs, OneTries, Alive, Booting
    <3>4. CASE task[t].kind # "loop"
      <4>1. CASE task[t].kind = "boot"
        BY <3>1, <4>1, <2>1, <1>1 DEF Inv, Typed, Refs, OneTries, Alive, Booting
      <4>2. CASE task[t].kind = "slow"
        BY <3>1, <3>2, <4>2, <2>1, <1>1 DEF Inv, Typed, Refs, OneTries, Alive, Booting
      <4> QED BY <3>4, <4>1, <4>2, <2>1, <1>1 DEF Alive, TaskRec
    <3> QED BY <3>3, <3>4
  <2>7. Ending'
    BY <1>8, <1>1, <2>1 DEF Connected, AttemptDone, Ends, Inv, Typed, Refs, Ending, Alive, Booting
  <2>8. Owned'
    BY <1>8, <1>1, <2>1, <2>2 DEF Connected, Inv, Owned
  <2> QED BY <2>3, <2>4, <2>5, <2>6, <2>7, <2>8 DEF Inv
<1>9. CASE HandshakeFails(t)
  <2>1. PICK pc \in {"cleanup", "abandon"} :
          /\ task' = [task EXCEPT ![t].pc = pc, ![t].sock = ws]
          /\ task[t].pc = "handshake" /\ Alive(t) /\ (pc = "abandon" => task[t].cancel)
    BY <1>9 DEF HandshakeFails, Live, Asked, At
  <2>2. /\ task' \in [Tasks -> TaskRec] /\ task'[t].pc = pc /\ task'[t].sock = ws
        /\ task'[t].kind = task[t].kind /\ task'[t].cancel = task[t].cancel
        /\ \A u \in Tasks \ {t} : task'[u] = task[u]
    BY <2>1, <1>1 DEF TaskRec, Inv, Typed
  <2>3. Typed' /\ LockOrder'
    BY <1>9, <1>1, <2>1, <2>2 DEF HandshakeFails, Inv, Typed, LockOrder
  <2>4. Refs'
    <3>1. UNCHANGED <<state, exhausted, closed, listener, closer, loopRef, slowRef>>
      BY <1>9 DEF HandshakeFails
    <3>2. task'[t].kind # "none" /\ (task'[t].pc = "abandon" => task'[t].cancel)
      BY <2>1, <2>2 DEF Alive
    <3> QED BY <3>1, <3>2, <2>2 DEF Inv, Typed, Refs
  <2>6. Owned'
    BY <1>9, <1>1, <2>1, <2>2 DEF HandshakeFails, Inv, Owned
  <2>5. OneTries' /\ Ending'
    BY <1>9, <1>1, <2>1, <2>2 DEF HandshakeFails, Inv, OneTries, Ending, Alive, Booting
  <2> QED BY <2>3, <2>4, <2>5, <2>6 DEF Inv
<1>10. CASE CleanedUp(t)
  <2>1. /\ sockets' = {} /\ dead' = {} /\ ws' = None /\ Alive(t)
        /\ task[t].pc \in {"cleanup", "abandon"}
    BY <1>10 DEF CleanedUp, Live, At, Inv, Typed, Owned
  <2>2. CASE task[t].pc = "cleanup"
    BY <2>1, <2>2, <1>10, FailureKeeps DEF CleanedUp, Live, At
  <2>3. CASE task[t].pc = "abandon"
    BY <2>1, <2>3, <1>10, EndsKeeps DEF CleanedUp, Inv, Refs
  <2> QED BY <2>1, <2>2, <2>3
<1>11. CASE Cancelled(t)
  BY <1>11, EndsKeeps DEF Cancelled, Asked, At
<1> QED BY <1>3, <1>4, <1>5, <1>6, <1>7, <1>8, <1>9, <1>10, <1>11 DEF TaskStep

\* Cancelling a task only marks it.
LEMMA Marked ==
  ASSUME Inv, NEW c \in Tasks \cup {None}
  PROVE  /\ CancelTask(c) \in [Tasks -> TaskRec]
         /\ c = None => CancelTask(c) = task
         /\ \A u \in Tasks : /\ CancelTask(c)[u].kind = task[u].kind
                             /\ CancelTask(c)[u].pc = task[u].pc
                             /\ CancelTask(c)[u].sock = task[u].sock
                             /\ CancelTask(c)[u].cancel <=> task[u].cancel \/ (u = c /\ Alive(u))
<1>1. task \in [Tasks -> TaskRec]
  BY DEF Inv, Typed
<1>2. CASE Alive(c)
  <2>1. c \in Tasks /\ CancelTask(c) = [task EXCEPT ![c].cancel = TRUE]
    BY <1>2 DEF Alive, CancelTask
  <2>2. [task[c] EXCEPT !.cancel = TRUE] \in TaskRec
    BY <1>1, <2>1 DEF TaskRec
  <2>3. CancelTask(c) = [task EXCEPT ![c] = [task[c] EXCEPT !.cancel = TRUE]]
    BY <1>1, <2>1
  <2>4. CancelTask(c) \in [Tasks -> TaskRec]
    BY <1>1, <2>1, <2>2, <2>3
  <2>5. ASSUME NEW u \in Tasks
        PROVE  /\ CancelTask(c)[u].kind = task[u].kind /\ CancelTask(c)[u].pc = task[u].pc
               /\ CancelTask(c)[u].sock = task[u].sock
               /\ CancelTask(c)[u].cancel <=> task[u].cancel \/ (u = c /\ Alive(u))
    <3>1. CASE u = c
      BY <3>1, <1>1, <1>2, <2>1 DEF TaskRec
    <3>2. CASE u # c
      BY <3>2, <1>1, <2>1
    <3> QED BY <3>1, <3>2
  <2> QED BY <2>1, <2>4, <2>5, <1>2, ConnectionAssumption
<1>3. CASE ~Alive(c)
  BY <1>1, <1>3 DEF CancelTask
<1> QED BY <1>2, <1>3

\* _ensure_reconnecting starts the loop, the slow retry having been told to stop.
LEMMA LoopBegins ==
  ASSUME Inv, ~Booting, ~closed, loopRef = None,
         NEW n \in Tasks, CancelTask(slowRef)[n].kind = "none",
         task' = [CancelTask(slowRef) EXCEPT ![n] = Task("loop", "sleep")],
         loopRef' = n, state' = "RECONNECTING", exhausted' = FALSE, slowRef' = None,
         listener' \in {"none", listener}, triggers' \in 0..MaxTriggers,
         UNCHANGED <<closed, lockQ, net, closer, reach, flaps>>
  PROVE  Inv'
<1> USE ConnectionAssumption DEF net
<1> DEFINE T == CancelTask(slowRef)
<1>1. /\ T \in [Tasks -> TaskRec]
      /\ \A u \in Tasks : /\ T[u].kind = task[u].kind /\ T[u].pc = task[u].pc
                          /\ T[u].sock = task[u].sock
                          /\ T[u].cancel <=> task[u].cancel \/ (u = slowRef /\ Alive(u))
  BY Marked DEF Inv, Typed
<1>2. /\ task' = [T EXCEPT ![n] = Task("loop", "sleep")]
      /\ Task("loop", "sleep") = [kind |-> "loop", pc |-> "sleep", cancel |-> FALSE, sock |-> None]
      /\ Task("loop", "sleep") \in TaskRec
  BY DEF Task, TaskRec
<1>3. task[n].kind = "none" /\ task[n].pc = "sleep" /\ n # slowRef /\ n # None
  BY <1>1 DEF Inv, Typed, Refs
<1> HIDE DEF T
<1>4. /\ task' \in [Tasks -> TaskRec]
      /\ task'[n].kind = "loop" /\ task'[n].pc = "sleep" /\ task'[n].cancel = FALSE
      /\ \A u \in Tasks \ {n} : task'[u] = T[u]
  <2> DEFINE r == Task("loop", "sleep")
  <2>1. r \in TaskRec /\ r.kind = "loop" /\ r.pc = "sleep" /\ r.cancel = FALSE
    BY <1>2
  <2> HIDE DEF r
  <2>2. task' = [T EXCEPT ![n] = r]
    BY <1>2 DEF r
  <2> QED BY <1>1, <2>1, <2>2
<1>5. Typed'
  BY <1>4 DEF Inv, Typed, States
<1>6. LockOrder'
  BY <1>1, <1>3, <1>4 DEF Inv, LockOrder
<1>7. Refs'
  <2>1. closer.pc = "none"
    BY DEF Inv, Ending
  <2>2. \A u \in Tasks : task[u].kind \notin {"loop", "boot"}
    BY DEF Inv, Typed, Refs, Booting
  <2> QED BY <1>1, <1>3, <1>4, <2>1, <2>2 DEF Inv, Typed, Refs, Alive
<1>8. OneTries'
  BY <1>3 DEF OneTries
<1>9. Ending'
  BY DEF Inv, Ending
<1>10. Owned'
  BY <1>1, <1>3, <1>4 DEF Inv, Owned
<1> QED BY <1>5, <1>6, <1>7, <1>8, <1>9, <1>10 DEF Inv

\* What is asked of the loop while it runs, or after close(), changes nothing.
LEMMA NothingBegins ==
  ASSUME Inv, UNCHANGED <<state, closed, task, refs, lockQ, net, closer, reach, flaps>>,
         exhausted' = exhausted \/ (exhausted' = FALSE /\ (closed \/ loopRef # None)),
         listener' = listener \/ (listener' = "none" /\ (closed \/ state # "CONNECTED")),
         triggers' \in 0..MaxTriggers
  PROVE  Inv'
<1> USE ConnectionAssumption DEF net, refs
<1>1. exhausted' \in BOOLEAN /\ listener' \in {"none", "alive", "cancelled"}
  BY DEF Inv, Typed
<1>2. Typed'
  BY <1>1 DEF Inv, Typed
<1>3. LockOrder'
  BY DEF Inv, LockOrder
<1>4. Refs' /\ Owned'
  BY DEF Inv, Typed, Refs, Owned
<1>5. OneTries' /\ Ending'
  BY DEF Inv, Typed, OneTries, Ending, Booting, Alive
<1> QED BY <1>2, <1>3, <1>4, <1>5 DEF Inv

\* _ensure_reconnecting, called by the listener that ends or by a request.
LEMMA EnsureKeeps ==
  ASSUME Inv, ~Booting, Ensure(task, exhausted),
         listener' = listener \/ (listener = "alive" /\ listener' = "none"),
         UNCHANGED <<exhausted, closed, slowRef, lockQ, net, closer, counts>>
  PROVE  Inv'
<1> USE DEF refs, counts
<1>1. CASE Refuses(exhausted) \/ loopRef # None
  <2>1. closed \/ state # "CONNECTED"
    BY <1>1 DEF Inv, OneTries, Refuses
  <2> QED BY <1>1, <2>1, NothingBegins DEF Ensure, Inv, Typed
<1>2. CASE ~(Refuses(exhausted) \/ loopRef # None)
  <2>1. slowRef = None /\ ~closed /\ loopRef = None /\ exhausted = FALSE
    BY <1>2 DEF Inv, Typed, OneTries, Refuses
  <2>2. CancelTask(slowRef) = task
    BY <2>1, Marked
  <2> QED BY <1>2, <2>1, <2>2, LoopBegins DEF Ensure, Inv, Typed
<1> QED BY <1>1, <1>2

\* The listener, the callers and the network.
LEMMA OthersKeep ==
  ASSUME Inv, Listening \/ Closing \/ TriggerReconnect \/ Ask \/ CloseBegin \/ Flip \/ SocketDies
  PROVE  Inv'
<1> USE ConnectionAssumption DEF health, refs, net, counts
<1>1. CASE ListenerCancelled
  <2>1. closed \/ state # "CONNECTED"
    BY <1>1 DEF ListenerCancelled, Inv, OneTries
  <2> QED BY <1>1, <2>1, NothingBegins DEF ListenerCancelled, Inv, Typed
<1>2. CASE ListenerEnds
  <2>1. ~Booting
    BY <1>2 DEF ListenerEnds, Inv, Refs, Booting
  <2> QED BY <1>2, <2>1, EnsureKeeps DEF ListenerEnds, OnDisconnect
<1>3. CASE Ask
  BY <1>3, EnsureKeeps DEF Ask
<1>4. CASE TriggerReconnect
  <2>1. triggers' \in 0..MaxTriggers
    BY <1>4 DEF TriggerReconnect, Inv, Typed
  <2>2. CASE Refuses(FALSE) \/ loopRef # None
    <3>1. closed \/ loopRef # None
      BY <2>2 DEF Refuses
    <3>2. slowRef = None
      BY <3>1 DEF Inv, Typed, OneTries, Ending
    <3>3. CancelSlow = task
      BY <3>2, Marked DEF CancelSlow
    <3> QED BY <1>4, <2>1, <2>2, <3>1, <3>2, <3>3, NothingBegins DEF TriggerReconnect, Ensure
  <2>3. CASE ~(Refuses(FALSE) \/ loopRef # None)
    BY <1>4, <2>1, <2>3, LoopBegins DEF TriggerReconnect, Ensure, Refuses, CancelSlow
  <2> QED BY <2>2, <2>3
<1>5. CASE CloseBegin
  <2>1. /\ task' \in [Tasks -> TaskRec]
        /\ \A u \in Tasks : /\ task'[u].kind = task[u].kind /\ task'[u].pc = task[u].pc
                            /\ task'[u].sock = task[u].sock
                            /\ task'[u].cancel <=> task[u].cancel \/ (u = slowRef /\ Alive(u))
    BY <1>5, Marked DEF CloseBegin, Inv, Typed
  <2>2. Typed' /\ LockOrder'
    BY <1>5, <2>1 DEF CloseBegin, MarkClosed, Inv, Typed, LockOrder
  <2>3. Refs'
    BY <1>5, <2>1 DEF CloseBegin, MarkClosed, Inv, Typed, Refs, Booting, Alive
  <2>4. OneTries' /\ Ending'
    BY <1>5, <2>1 DEF CloseBegin, MarkClosed, Inv, Typed, OneTries, Ending, Booting, Alive
  <2>5. Owned'
    BY <1>5, <2>1 DEF CloseBegin, Inv, Owned
  <2> QED BY <2>2, <2>3, <2>4, <2>5 DEF Inv
<1>6. CASE CloseLoop
  <2>1. /\ task' \in [Tasks -> TaskRec]
        /\ \A u \in Tasks : /\ task'[u].kind = task[u].kind /\ task'[u].pc = task[u].pc
                            /\ task'[u].sock = task[u].sock
                            /\ task'[u].cancel <=> task[u].cancel \/ (u = loopRef /\ Alive(u))
    BY <1>6, Marked DEF CloseLoop, Inv, Typed
  <2>2. closed /\ slowRef = None /\ ~Booting
    BY <1>6 DEF CloseLoop, Inv, Ending
  <2>3. Typed' /\ LockOrder'
    BY <1>6, <2>1 DEF CloseLoop, Inv, Typed, LockOrder
  <2>4. Refs'
    BY <1>6, <2>1, <2>2 DEF CloseLoop, Inv, Typed, Refs, Booting, Alive
  <2>5. OneTries'
    BY <1>6, <2>2 DEF CloseLoop, Inv, OneTries
  <2>6. Ending'
    <3>1. ASSUME NEW u \in Tasks, task[u].kind # "none" PROVE task'[u].cancel
      BY <3>1, <2>1, <2>2 DEF Inv, Typed, TaskRec, Refs, Booting, Alive
    <3> QED BY <1>6, <2>1, <2>2, <3>1 DEF CloseLoop, Inv, Ending, Booting, Alive
  <2>7. Owned'
    BY <1>6, <2>1 DEF CloseLoop, Inv, Owned
  <2> QED BY <2>3, <2>4, <2>5, <2>6, <2>7 DEF Inv
<1>7. CASE CloseClient
  <2>1. closed /\ ~Booting
    BY <1>7 DEF CloseClient, Inv, Ending
  <2>2. Typed' /\ LockOrder' /\ Owned'
    BY <1>7 DEF CloseClient, Inv, Typed, LockOrder, Owned
  <2>3. Refs'
    BY <1>7, <2>1 DEF CloseClient, Inv, Typed, Refs, Booting
  <2>4. OneTries' /\ Ending'
    BY <1>7, <2>1 DEF CloseClient, Inv, Typed, OneTries, Ending, Booting, Alive
  <2> QED BY <2>2, <2>3, <2>4 DEF Inv
<1>8. CASE CloseEnd
  <2>1. closed /\ ~Booting
    BY <1>8 DEF CloseEnd, Inv, Ending
  <2>2. sockets' = {} /\ dead' = {} /\ ws' = None
    BY <1>8 DEF CloseEnd, Inv, Typed, Owned
  <2>3. Typed' /\ LockOrder' /\ Owned'
    BY <1>8, <2>2 DEF CloseEnd, Inv, Typed, LockOrder, Owned
  <2>4. Refs'
    BY <1>8, <2>1 DEF CloseEnd, Inv, Typed, Refs, Booting
  <2>5. OneTries' /\ Ending'
    BY <1>8, <2>1, <2>2 DEF CloseEnd, Inv, Typed, OneTries, Ending, Booting, Alive
  <2> QED BY <2>3, <2>4, <2>5 DEF Inv
<1>9. CASE Flip \/ SocketDies
  <2>1. Typed' /\ LockOrder'
    <3>1. flaps' \in 0..MaxFlaps
      BY <1>9 DEF Flip, SocketDies, Flap, Inv, Typed
    <3>2. reach' = ~reach \/ reach' = reach
      BY <1>9 DEF Flip, SocketDies
    <3>3. reach' \in BOOLEAN
      BY <3>2 DEF Inv, Typed
    <3>4. dead' \subseteq sockets
      BY <1>9 DEF Flip, SocketDies, Inv, Typed
    <3> QED BY <1>9, <3>1, <3>3, <3>4 DEF Flip, SocketDies, Inv, Typed, LockOrder
  <2>2. Refs' /\ Owned'
    BY <1>9 DEF Flip, SocketDies, Inv, Refs, Owned
  <2>3. OneTries' /\ Ending'
    BY <1>9 DEF Flip, SocketDies, Inv, OneTries, Ending, Booting, Alive
  <2> QED BY <2>1, <2>2, <2>3 DEF Inv
<1> QED BY <1>1, <1>2, <1>3, <1>4, <1>5, <1>6, <1>7, <1>8, <1>9 DEF Listening, Closing

LEMMA InvNext == Inv /\ [Next]_vars => Inv'
<1> SUFFICES ASSUME Inv, [Next]_vars PROVE Inv'
  OBVIOUS
<1>1. CASE UNCHANGED vars
  <2> USE <1>1 DEF vars, health, refs, net, counts
  <2>1. Typed' /\ LockOrder' /\ Owned'
    BY DEF Inv, Typed, LockOrder, Owned
  <2>2. Refs' /\ OneTries' /\ Ending'
    BY DEF Inv, Refs, OneTries, Ending, Booting, Alive
  <2> QED BY <2>1, <2>2 DEF Inv
<1> QED BY <1>1, TaskKeeps, OthersKeep DEF Next

LEMMA Invariance == Spec => []Inv
BY InvInit, InvNext, PTL DEF Spec

\* The type invariant of the module follows.
LEMMA InvIsTyped == Inv => TypeOK
BY DEF Inv, Typed, TypeOK, Refs, TaskRec

\* Every open socket is _ws, whichever attempt opened it and however it was cut: a reconnection
\* never leaves a socket that nobody closes.  With it, the types.
THEOREM EverySocketHasItsOwner == Spec => []NoSocketLost
<1>1. Inv => NoSocketLost
  BY InvIsTyped DEF Inv, Owned, NoSocketLost
<1> QED BY <1>1, Invariance, PTL

\* While the client says CONNECTED a listener reads the socket, and will report its end.
THEOREM ConnectedIsAlwaysHeard == Spec => []ConnectedIsHeard
<1>1. Inv => ConnectedIsHeard
  BY DEF Inv, OneTries, ConnectedIsHeard
<1> QED BY <1>1, Invariance, PTL

\* Without service and before close(), the start-up, the loop or the slow retry is there and nobody
\* has cancelled it: DEGRADED is never terminal.
THEOREM SomebodyAlwaysTries == Spec => []SomebodyTries
<1>1. ASSUME Inv PROVE SomebodyTries
  BY <1>1 DEF Inv, Typed, Refs, OneTries, Ending, SomebodyTries, Alive
<1> QED BY <1>1, Invariance, PTL

\* Once the window is exhausted one slow attempt at a time is made and no loop; after close() nothing
\* is open and nobody is left who would open it, whoever was connecting when it was called.
THEOREM NothingStartsAgain == Spec => []NobodyStartsAgain
<1>1. ASSUME Inv PROVE BreakerHolds
  <2>1. ASSUME exhausted PROVE Cardinality({t \in Tasks : Alive(t) /\ ~task[t].cancel}) <= 1
    <3>1. {t \in Tasks : Alive(t) /\ ~task[t].cancel} \subseteq {slowRef}
      BY <1>1, <2>1 DEF Inv, Typed, TaskRec, Refs, OneTries, Ending, Alive
    <3>2. IsFiniteSet({slowRef}) /\ Cardinality({slowRef}) = 1
      BY FS_Singleton
    <3> QED BY <3>1, <3>2, FS_Subset
  <2> QED BY <1>1, <2>1 DEF Inv, OneTries, BreakerHolds
<1>2. Inv => ClosedForGood
  BY DEF Inv, Ending, ClosedForGood
<1> QED BY <1>1, <1>2, Invariance, PTL DEF NobodyStartsAgain
=============================================================================
