-------------------------- MODULE ControlPlaneProofs --------------------------
(***************************************************************************)
(* ConsentBeforeWork for any number of tasks, runs and kills, as long as   *)
(* calls do not overlap.  The proof follows a call access by access:       *)
(* Ready says what holds when an access is the next one to make, Follows   *)
(* which access may come after which, and CallOK what a call knows.        *)
(***************************************************************************)
EXTENDS ControlPlane, TLAPS

\* Which access may stand right after which in what a call has still to do.
Follows(a, b) ==
    \/ a = "new" /\ b = "gate"
    \/ a = "gate" /\ b = "policy"
    \/ a = "ask" /\ b = "await"
    \/ a = "decide" /\ b = "settle"
    \/ a = "grant" /\ b = "mark"
    \/ a = "mark" /\ b \in {"enqueue", "answer"}
    \/ a = "enqueue" /\ b = "save_run"
    \/ a = "save_run" /\ b = "save_task"
    \/ a = "answer" /\ b = "answered"
    \/ a = "task" /\ b = "run"
    \/ a \in {"run", "keep"} /\ b \in {"show", "cancel", "force-fail", "retry"}
    \/ a = "keep" /\ b = "note"
    \/ a = "show" /\ b \in {"run", "review"}
    \/ a = "subject" /\ b = "find"
    \/ a = "find" /\ b = "keep_mine"
    \/ a = "keep_mine" /\ b = "apply"
    \/ a = "apply" /\ b = "review"
    \/ a = "review" /\ b = "follow"
    \/ a = "review_run" /\ b = "review_task"
    \/ a = "review_task" /\ b = "follow"

SyncAccesses == {"subject", "find", "keep_mine", "apply", "review", "review_run",
                 "review_task", "follow"}

AccessNames ==
    SyncAccesses \union
    {"new", "gate", "policy", "ask", "await", "decide", "settle", "refuse", "grant", "mark",
     "enqueue", "save_run", "save_task", "answer", "answered", "task", "run", "keep", "show",
     "cancel", "note", "force-fail", "retry"}

\* The accesses that may be the last one of a call.
Final == {"policy", "settle", "await", "refuse", "save_task", "answered", "show", "cancel",
          "force-fail", "retry", "note", "follow"}

\* What a call has still to do is in order and not cut short, and a sync goes
\* on to its end.
WellFormed(s) ==
    /\ s \in Seq(AccessNames)
    /\ s # <<>> => s[Len(s)] \in Final
    /\ \A n \in 1 .. Len(s) - 1 : Follows(s[n], s[n + 1])
    /\ \A n \in 1 .. Len(s) : s[n] \in SyncAccesses => s[Len(s)] = "follow"

InSync(s) == s[Len(s)] = "follow"

LEMMA TailIsWellFormed ==
  ASSUME NEW s, WellFormed(s), s # <<>>, Tail(s) # <<>>
  PROVE  /\ WellFormed(Tail(s)) /\ Follows(Head(s), Head(Tail(s)))
         /\ InSync(Tail(s)) <=> InSync(s)
<1>1. /\ s \in Seq(AccessNames) /\ Tail(s) \in Seq(AccessNames)
      /\ Len(s) \in Nat /\ Len(s) >= 2 /\ Len(Tail(s)) = Len(s) - 1
  BY DEF WellFormed
<1>2. \A n \in 1 .. Len(s) - 1 : Tail(s)[n] = s[n + 1]
  BY <1>1
<1>3. Head(s) = s[1] /\ Head(Tail(s)) = s[2]
  BY <1>1, <1>2
<1>4. Follows(s[1], s[2])
  BY <1>1 DEF WellFormed
<1>5. Tail(s)[Len(Tail(s))] = s[Len(s)]
  BY <1>1, <1>2
<1>6. ASSUME NEW n \in 1 .. Len(Tail(s)) - 1 PROVE Follows(Tail(s)[n], Tail(s)[n + 1])
  <2>1. n + 1 \in 1 .. Len(s) - 1 /\ n \in 1 .. Len(s) - 1
    BY <1>1
  <2>2. Tail(s)[n] = s[n + 1] /\ Tail(s)[n + 1] = s[(n + 1) + 1]
    BY <1>2, <2>1
  <2> QED BY <2>1, <2>2 DEF WellFormed
<1>7. ASSUME NEW n \in 1 .. Len(Tail(s)), Tail(s)[n] \in SyncAccesses
      PROVE  Tail(s)[Len(Tail(s))] = "follow"
  <2>1. n + 1 \in 1 .. Len(s) /\ Tail(s)[n] = s[n + 1]
    BY <1>1, <1>2
  <2> QED BY <2>1, <1>5, <1>7 DEF WellFormed
<1>8. WellFormed(Tail(s))
  BY <1>1, <1>5, <1>6, <1>7 DEF WellFormed
<1> QED BY <1>3, <1>4, <1>5, <1>8 DEF InSync

\* A call ends only after an access that may be its last.
LEMMA GoesOnUnlessFinal ==
  ASSUME NEW s, WellFormed(s), s # <<>>, Head(s) \notin Final
  PROVE  Tail(s) # <<>>
<1>1. s \in Seq(AccessNames) /\ Len(s) \in Nat /\ Len(s) >= 1 /\ Head(s) = s[1]
  BY DEF WellFormed
<1>2. Len(s) # 1
  BY <1>1 DEF WellFormed
<1>3. Len(Tail(s)) = Len(s) - 1
  BY <1>1
<1>4. Len(Tail(s)) # Len(<<>>)
  BY <1>1, <1>2, <1>3
<1> QED BY <1>4

\* An access put before what is still to do.
LEMMA ConsIsWellFormed ==
  ASSUME NEW s, WellFormed(s), s # <<>>, NEW a \in AccessNames, Follows(a, Head(s)),
         a \in SyncAccesses => InSync(s)
  PROVE  /\ WellFormed(<<a>> \o s) /\ Head(<<a>> \o s) = a /\ <<a>> \o s # <<>>
         /\ InSync(<<a>> \o s) <=> InSync(s)
<1> DEFINE t == <<a>> \o s
<1>1. /\ t \in Seq(AccessNames) /\ Len(t) = Len(s) + 1 /\ Len(s) \in Nat /\ Len(s) >= 1 /\ t[1] = a
      /\ \A n \in 1 .. Len(s) : t[n + 1] = s[n]
  BY DEF WellFormed
<1>2. Head(t) = a /\ t # <<>> /\ Head(s) = s[1] /\ t[Len(t)] = s[Len(s)]
  BY <1>1
<1> HIDE DEF t
<1>3. ASSUME NEW n \in 1 .. Len(t) - 1 PROVE Follows(t[n], t[n + 1])
  <2>1. CASE n = 1
    BY <1>1, <1>2, <2>1
  <2>2. CASE n # 1
    <3>1. n - 1 \in 1 .. Len(s) - 1 /\ n \in 1 .. Len(s)
      BY <1>1, <2>2
    <3>2. t[(n - 1) + 1] = s[n - 1] /\ t[n + 1] = s[n] /\ (n - 1) + 1 = n
      BY <1>1, <3>1
    <3>3. Follows(s[n - 1], s[(n - 1) + 1])
      BY <3>1 DEF WellFormed
    <3> QED BY <3>2, <3>3
  <2> QED BY <2>1, <2>2
<1>4. ASSUME NEW n \in 1 .. Len(t), t[n] \in SyncAccesses PROVE t[Len(t)] = "follow"
  <2>1. CASE n = 1
    BY <1>1, <1>2, <1>4, <2>1 DEF InSync
  <2>2. CASE n # 1
    <3>1. n - 1 \in 1 .. Len(s) /\ (n - 1) + 1 = n
      BY <1>1, <2>2
    <3>2. t[n] = s[n - 1]
      BY <1>1, <3>1
    <3> QED BY <1>2, <1>4, <3>1, <3>2 DEF WellFormed
  <2> QED BY <2>1, <2>2
<1>5. WellFormed(t)
  BY <1>1, <1>2, <1>3, <1>4 DEF WellFormed
<1> QED BY <1>2, <1>5 DEF t, InSync

\* The sequences the calls are made of.
LEMMA OneIsWellFormed ==
  ASSUME NEW a \in AccessNames \ SyncAccesses, a \in Final
  PROVE  WellFormed(<<a>>) /\ <<a>> # <<>> /\ ~InSync(<<a>>) /\ Head(<<a>>) = a
<1> DEFINE s == <<a>>
<1>1. s \in Seq(AccessNames) /\ Len(s) = 1 /\ s[1] = a /\ Head(s) = a /\ s # <<>>
  OBVIOUS
<1> HIDE DEF s
<1>2. a # "follow"
  BY DEF SyncAccesses
<1>3. WellFormed(s) /\ ~InSync(s)
  BY <1>1, <1>2 DEF WellFormed, InSync
<1> QED BY <1>1, <1>3 DEF s

LEMMA TwoAreWellFormed ==
  ASSUME NEW a \in AccessNames \ SyncAccesses, NEW b \in AccessNames \ SyncAccesses, Follows(a, b),
         b \in Final
  PROVE  WellFormed(<<a, b>>) /\ <<a, b>> # <<>> /\ ~InSync(<<a, b>>) /\ Head(<<a, b>>) = a
<1> DEFINE s == <<a, b>>
<1>1. s \in Seq(AccessNames) /\ Len(s) = 2 /\ s[1] = a /\ s[2] = b /\ Head(s) = a /\ s # <<>>
  OBVIOUS
<1> HIDE DEF s
<1>2. b # "follow"
  BY DEF SyncAccesses
<1>3. \A n \in 1 .. 2 : s[n] \notin SyncAccesses
  BY <1>1
<1>4. WellFormed(s) /\ ~InSync(s)
  BY <1>1, <1>2, <1>3 DEF WellFormed, InSync
<1> QED BY <1>1, <1>4 DEF s

LEMMA ThreeAreWellFormed ==
  ASSUME NEW a \in AccessNames \ SyncAccesses, NEW b \in AccessNames \ SyncAccesses,
         NEW c \in AccessNames \ SyncAccesses, Follows(a, b), Follows(b, c), c \in Final
  PROVE  /\ WellFormed(<<a, b, c>>) /\ <<a, b, c>> # <<>> /\ ~InSync(<<a, b, c>>)
         /\ Head(<<a, b, c>>) = a
<1> DEFINE s == <<a, b, c>>
<1>1. /\ s \in Seq(AccessNames) /\ Len(s) = 3 /\ s[1] = a /\ s[2] = b /\ s[3] = c
      /\ Head(s) = a /\ s # <<>>
  OBVIOUS
<1> HIDE DEF s
<1>2. c # "follow"
  BY DEF SyncAccesses
<1>3. \A n \in 1 .. 3 : s[n] \notin SyncAccesses
  BY <1>1
<1>4. \A n \in 1 .. 2 : Follows(s[n], s[n + 1])
  BY <1>1
<1>5. WellFormed(s) /\ ~InSync(s)
  BY <1>1, <1>2, <1>3, <1>4 DEF WellFormed, InSync
<1> QED BY <1>1, <1>5 DEF s

LEMMA SyncIsWellFormed ==
  WellFormed(Sync) /\ Sync # <<>> /\ InSync(Sync) /\ Head(Sync) = "subject"
<1> DEFINE s == <<"subject", "find", "keep_mine", "apply", "review", "follow">>
<1>0. {"subject", "find", "keep_mine", "apply", "review", "follow"} \subseteq AccessNames
  BY DEF AccessNames, SyncAccesses
<1>1. s \in Seq(AccessNames)
  BY <1>0
<1>2. Len(s) = 6 /\ s # <<>>
  OBVIOUS
<1>3. /\ s[1] = "subject" /\ s[2] = "find" /\ s[3] = "keep_mine"
      /\ s[4] = "apply" /\ s[5] = "review" /\ s[6] = "follow"
  OBVIOUS
<1>4. Sync = s
  BY DEF Sync
<1> HIDE DEF s
<1>5. /\ Follows("subject", "find") /\ Follows("find", "keep_mine")
      /\ Follows("keep_mine", "apply") /\ Follows("apply", "review")
      /\ Follows("review", "follow")
  BY DEF Follows
<1>6. ASSUME NEW n \in 1 .. 5 PROVE Follows(s[n], s[n + 1])
  <2>1. n = 1 \/ n = 2 \/ n = 3 \/ n = 4 \/ n = 5
    OBVIOUS
  <2> QED BY <1>3, <1>5, <2>1
<1>7. Head(s) = "subject"
  BY <1>1, <1>2, <1>3
<1>8. s[Len(s)] = "follow"
  BY <1>2, <1>3
<1>9. \A n \in 1 .. Len(s) - 1 : Follows(s[n], s[n + 1])
  BY <1>2, <1>6
<1>10. WellFormed(s)
  BY <1>1, <1>8, <1>9 DEF WellFormed, Final
<1> QED BY <1>2, <1>4, <1>7, <1>8, <1>10 DEF InSync

LEMMA OperatorIsWellFormed ==
  ASSUME NEW kind \in {"cancel", "force-fail", "retry"}
  PROVE  LET s == <<"task", "run", "show", "run", kind>> IN
         WellFormed(s) /\ s # <<>> /\ ~InSync(s) /\ Head(s) = "task"
<1> DEFINE s == <<"task", "run", "show", "run", kind>>
<1>0. kind \in AccessNames /\ {"task", "run", "show"} \subseteq AccessNames
  BY DEF AccessNames
<1>1. s \in Seq(AccessNames)
  BY <1>0
<1>2. Len(s) = 5 /\ s # <<>>
  OBVIOUS
<1>3. s[1] = "task" /\ s[2] = "run" /\ s[3] = "show" /\ s[4] = "run" /\ s[5] = kind
  OBVIOUS
<1> HIDE DEF s
<1>a. /\ Follows("task", "run") /\ Follows("run", "show") /\ Follows("show", "run")
      /\ Follows("run", kind)
  BY DEF Follows
<1>4. ASSUME NEW n \in 1 .. 4 PROVE Follows(s[n], s[n + 1])
  <2>1. n = 1 \/ n = 2 \/ n = 3 \/ n = 4
    OBVIOUS
  <2> QED BY <1>3, <1>a, <2>1
<1>5. ASSUME NEW n \in 1 .. 5 PROVE s[n] \notin SyncAccesses
  <2>1. n = 1 \/ n = 2 \/ n = 3 \/ n = 4 \/ n = 5
    OBVIOUS
  <2> QED BY <1>3, <2>1 DEF SyncAccesses
<1>6. Head(s) = "task"
  BY <1>1, <1>2, <1>3
<1>7. s[5] # "follow" /\ s[5] \in Final
  BY <1>3 DEF Final
<1> QED BY <1>1, <1>2, <1>4, <1>5, <1>6, <1>7 DEF WellFormed, InSync, s

LEMMA PairsAreWellFormed ==
  /\ LET s == <<"ask", "await">> IN WellFormed(s) /\ s # <<>> /\ ~InSync(s) /\ Head(s) = "ask"
  /\ LET s == <<"keep", "note">> IN WellFormed(s) /\ s # <<>> /\ ~InSync(s) /\ Head(s) = "keep"
  /\ LET s == <<"refuse">> IN WellFormed(s) /\ s # <<>> /\ ~InSync(s) /\ Head(s) = "refuse"
<1>1. Follows("ask", "await") /\ Follows("keep", "note")
  BY DEF Follows
<1>2. {"ask", "await", "keep", "note", "refuse"} \subseteq AccessNames \ SyncAccesses
  BY DEF AccessNames, SyncAccesses
<1>3. {"await", "note", "refuse"} \subseteq Final
  BY DEF Final
<1> QED BY <1>1, <1>2, <1>3, OneIsWellFormed, TwoAreWellFormed

LEMMA EnqueueIsWellFormed ==
  LET s == <<"enqueue", "save_run", "save_task">> IN
  WellFormed(s) /\ s # <<>> /\ ~InSync(s) /\ Head(s) = "enqueue"
BY ThreeAreWellFormed DEF Follows, SyncAccesses, AccessNames, Final

LEMMA DispatchIsWellFormed ==
  ASSUME NEW t
  PROVE  /\ WellFormed(Dispatch(t)) /\ Dispatch(t) # <<>> /\ ~InSync(Dispatch(t))
         /\ Head(Dispatch(t)) \in {"enqueue", "answer"}
<1>1. CASE t \in Instant
  BY <1>1, TwoAreWellFormed DEF Dispatch, Follows, SyncAccesses, AccessNames, Final
<1>2. CASE t \notin Instant
  BY <1>2, EnqueueIsWellFormed DEF Dispatch
<1> QED BY <1>1, <1>2

First == {"new", "decide", "task", "subject"}

LEMMA AccessesAreWellFormed ==
  ASSUME NEW kind \in AllKinds
  PROVE  /\ WellFormed(Accesses(kind)) /\ Accesses(kind) # <<>>
         /\ Head(Accesses(kind)) \in First
         /\ Head(Accesses(kind)) = "new" <=> kind = "create"
         /\ Head(Accesses(kind)) = "subject" <=> kind = "sync"
         /\ InSync(Accesses(kind)) <=> kind = "sync"
<1>1. CASE kind = "create"
  <2>1. Accesses(kind) = <<"new", "gate", "policy">>
    BY <1>1 DEF Accesses
  <2>2. Follows("new", "gate") /\ Follows("gate", "policy")
    BY DEF Follows
  <2>3. {"new", "gate", "policy"} \subseteq AccessNames \ SyncAccesses
    BY DEF AccessNames, SyncAccesses
  <2>4. WellFormed(<<"new", "gate", "policy">>) /\ ~InSync(<<"new", "gate", "policy">>)
    BY <2>2, <2>3, ThreeAreWellFormed DEF Final
  <2> QED BY <1>1, <2>1, <2>4 DEF First
<1>2. CASE kind \in {"approve", "approve_for_a_year", "reject"}
  <2>1. Accesses(kind) = <<"decide", "settle">>
    BY <1>2 DEF Accesses
  <2>2. Follows("decide", "settle")
    BY DEF Follows
  <2>3. {"decide", "settle"} \subseteq AccessNames \ SyncAccesses
    BY DEF AccessNames, SyncAccesses
  <2>4. WellFormed(<<"decide", "settle">>) /\ ~InSync(<<"decide", "settle">>)
    BY <2>2, <2>3, TwoAreWellFormed DEF Final
  <2>5. kind \notin {"create", "sync"} /\ Head(Accesses(kind)) = "decide" /\ Accesses(kind) # <<>>
    BY <1>2, <2>1
  <2> QED BY <2>1, <2>4, <2>5 DEF First
<1>3. CASE kind = "get"
  <2>1. Accesses(kind) = <<"task", "run", "show">>
    BY <1>3 DEF Accesses
  <2>2. Follows("task", "run") /\ Follows("run", "show")
    BY DEF Follows
  <2>3. {"task", "run", "show"} \subseteq AccessNames \ SyncAccesses
    BY DEF AccessNames, SyncAccesses
  <2>4. WellFormed(<<"task", "run", "show">>) /\ ~InSync(<<"task", "run", "show">>)
    BY <2>2, <2>3, ThreeAreWellFormed DEF Final
  <2> QED BY <1>3, <2>1, <2>4 DEF First
<1>4. CASE kind = "sync"
  BY <1>4, SyncIsWellFormed DEF Accesses, First
<1>5. CASE kind \in {"cancel", "force-fail", "retry"}
  <2>1. Accesses(kind) = <<"task", "run", "show", "run", kind>>
    BY <1>5 DEF Accesses
  <2> QED BY <1>5, <2>1, OperatorIsWellFormed DEF First
<1> QED BY <1>1, <1>2, <1>3, <1>4, <1>5 DEF AllKinds

-----------------------------------------------------------------------------
(* The invariant.                                                          *)

OneCall == \A i, j \in Requests : i = j

Consent(t) == t \in Risky => approval[t] = "approved" \/ task[t].by # NoTask
Exists(t) == task[t].status # "absent"

Tables ==
    /\ TypeOK
    /\ \A t \in Tasks :
         /\ task[t].status = "absent" => task[t] = NewTask /\ approval[t] = "none"
         /\ task[t].run # NoRun => Consent(t)
         /\ task[t].by # NoTask => approval[task[t].by] = "approved"
         /\ grant[t] # "none" => approval[t] = "approved"
    /\ \A w \in Runs : work[w].status # "absent" =>
         work[w].task \in Tasks /\ Exists(work[w].task) /\ Consent(work[w].task)

CallType ==
    [todo : Seq(AccessNames), kind : AllKinds, task : Tasks, me : TaskType,
     cur : RunType, r : Runs \union {NoRun}, mine : RunType, job : Runs \union {NoRun},
     seen : WorkType, item : WorkType]

Knows(q) ==
    /\ q.item.task = q.task /\ q.item.status = "queued"
    /\ q.me.by # NoTask => approval[q.me.by] = "approved"
    /\ q.me.run # NoRun => Consent(q.task)
    /\ q.cur.status # "absent" => Consent(q.task) /\ task[q.task].run # NoRun
    /\ InSync(q.todo) => Consent(q.task) /\ q.seen.status # "absent" /\ q.job \in Runs

\* What holds when h is the next access of call q.
Ready(q, h) ==
    /\ h \notin {"new", "decide", "task"} => Exists(q.task)
    /\ h \notin First => q.me.status # "absent"
    /\ h \notin First \union {"answered"} => q.me.run = task[q.task].run
    /\ h = "answered" => q.me.run # NoRun
    /\ h \notin First \union {"mark"} => q.me.by = task[q.task].by
    /\ h = "mark" => q.me.by # NoTask
    /\ h = "new" => task[q.task] = NewTask /\ approval[q.task] = "none"
    /\ h \in {"gate", "policy", "ask"} => approval[q.task] = "none"
    /\ h = "settle" => approval[q.task] = "pending"
    /\ h = "grant" => approval[q.task] = "approved"
    /\ h \in {"enqueue", "save_run", "save_task", "answer", "answered"} => Consent(q.task)
    /\ h \in {"save_run", "save_task"} => q.r \in Runs
    /\ h = "apply" => q.mine.status # "absent"
    /\ InSync(q.todo) /\ h \notin {"subject", "find"} => q.r \in Runs

CallOK(q) ==
    /\ q \in CallType /\ WellFormed(q.todo) /\ q.todo # <<>>
    /\ Knows(q) /\ Ready(q, Head(q.todo))

CPInv ==
    /\ Tables
    /\ request \in [Requests -> {Idle} \union CallType]
    /\ \A i \in Requests : request[i] = Idle \/ CallOK(request[i])

LEMMA InCall ==
  ASSUME CPInv, NEW i \in Requests, NEW a, Doing(i, a)
  PROVE  CallOK(request[i]) /\ Head(request[i].todo) = a /\ Tables
BY DEF CPInv, Doing, Idle

\* With one call at a time it is enough to look at the tables and at that call.
LEMMA Onward ==
  ASSUME OneCall, CPInv, NEW i \in Requests, Tables', NEW q,
         request' = [request EXCEPT ![i] = q], q = Idle \/ CallOK(q)'
  PROVE  CPInv'
<1>1. q = Idle \/ q \in CallType
  BY DEF CallOK
<1>2. request' \in [Requests -> {Idle} \union CallType] /\ request'[i] = q
  BY <1>1 DEF CPInv
<1>3. ASSUME NEW j \in Requests PROVE (request[j] = Idle \/ CallOK(request[j]))'
  <2>1. request'[j] = q
    BY <1>2 DEF OneCall
  <2> QED BY <2>1 DEF CallOK, Knows, Ready, Consent, Exists
<1> QED BY <1>2, <1>3 DEF CPInv

LEMMA ThenOnward ==
  ASSUME OneCall, CPInv, NEW i \in Requests, Tables', NEW q, NEW s, Then(i, q, s),
         s = <<>> \/ CallOK([q EXCEPT !.todo = s])'
  PROVE  CPInv'
<1>1. CASE s = <<>>
  BY <1>1, Onward DEF Then, Ends, Goes
<1>2. CASE s # <<>>
  BY <1>2, Onward DEF Then, Goes
<1> QED BY <1>1, <1>2

\* A task is saved: what matters is that it keeps its status, its grant and
\* its consent.
LEMMA TaskSaved ==
  ASSUME Tables, NEW t \in Tasks, NEW v \in TaskType, task' = [task EXCEPT ![t] = v],
         UNCHANGED <<approval, grant, run, work>>,
         v.status # "absent",
         v.by # NoTask => approval[v.by] = "approved",
         task[t].by # NoTask => v.by # NoTask,
         v.run # NoRun => (t \in Risky => approval[t] = "approved" \/ v.by # NoTask)
  PROVE  /\ Tables' /\ task'[t] = v
         /\ \A u \in Tasks : (Consent(u) => Consent(u)') /\ (Exists(u) => Exists(u)')
<1>1. TypeOK
  BY DEF Tables
<1>2. task' \in [Tasks -> TaskType] /\ task'[t] = v /\ \A u \in Tasks \ {t} : task'[u] = task[u]
  BY <1>1 DEF TypeOK
<1>3. TypeOK'
  BY <1>1, <1>2 DEF TypeOK
<1>4. \A u \in Tasks : (Consent(u) => Consent(u)') /\ (Exists(u) => Exists(u)')
  BY <1>2 DEF Consent, Exists
<1>5. \A u \in Tasks :
         /\ task'[u].status = "absent" => task'[u] = NewTask /\ approval'[u] = "none"
         /\ task'[u].run # NoRun => Consent(u)'
         /\ task'[u].by # NoTask => approval'[task'[u].by] = "approved"
         /\ grant'[u] # "none" => approval'[u] = "approved"
  BY <1>2 DEF Tables, Consent
<1>6. ASSUME NEW w \in Runs, work'[w].status # "absent"
      PROVE  work'[w].task \in Tasks /\ (Exists(work[w].task))' /\ (Consent(work[w].task))'
  BY <1>4, <1>6 DEF Tables, Exists, Consent
<1> QED BY <1>2, <1>3, <1>4, <1>5, <1>6 DEF Tables

LEMMA RunSaved ==
  ASSUME Tables, NEW r, NEW v \in RunType, run' = [run EXCEPT ![r] = v],
         UNCHANGED <<task, approval, grant, work>>
  PROVE  Tables'
<1>1. TypeOK'
  BY DEF Tables, TypeOK
<1> QED BY <1>1 DEF Tables, Consent, Exists

LEMMA WorkSaved ==
  ASSUME Tables, NEW w \in Runs, NEW v \in WorkType, work' = [work EXCEPT ![w] = v],
         UNCHANGED <<task, approval, grant, run>>,
         v.status # "absent" => v.task \in Tasks /\ Exists(v.task) /\ Consent(v.task)
  PROVE  Tables'
<1>1. TypeOK' /\ work'[w] = v /\ \A u \in Runs \ {w} : work'[u] = work[u]
  BY DEF Tables, TypeOK
<1> QED BY <1>1 DEF Tables, Consent, Exists

\* A call goes on with s, as part of the sync it was in or in none.
LEMMA GoesOn ==
  ASSUME OneCall, CPInv, NEW i \in Requests, Tables', NEW q \in CallType, NEW s, Then(i, q, s),
         Knows(q)',
         s # <<>> => /\ WellFormed(s) /\ (InSync(s) => InSync(q.todo))
                     /\ Ready(q, Head(s))'
  PROVE  CPInv'
<1>1. CASE s = <<>>
  BY <1>1, ThenOnward
<1>2. CASE s # <<>>
  <2>1. s \in Seq(AccessNames)
    BY <1>2 DEF WellFormed
  <2>2. PICK p : p = [q EXCEPT !.todo = s]
    OBVIOUS
  <2>3. /\ p \in CallType /\ p.todo = s /\ p.item = q.item /\ p.task = q.task /\ p.me = q.me
        /\ p.cur = q.cur /\ p.seen = q.seen /\ p.job = q.job /\ p.r = q.r /\ p.mine = q.mine
    BY <2>1, <2>2 DEF CallType
  <2>4. Knows(p)'
    BY <1>2, <2>3 DEF Knows, Consent
  <2>5. Ready(p, Head(s))'
    BY <1>2, <2>3 DEF Ready, Consent, Exists
  <2>6. CallOK(p)'
    BY <1>2, <2>3, <2>4, <2>5 DEF CallOK
  <2>7. CallOK([q EXCEPT !.todo = s])'
    BY <2>2, <2>6
  <2> QED BY <2>7, ThenOnward
<1> QED BY <1>1, <1>2

\* A call goes on with whatever may follow the access it has made.
LEMMA GoesOnInOrder ==
  ASSUME OneCall, CPInv, NEW i \in Requests, Tables', NEW q \in CallType, Continues(i, q),
         WellFormed(q.todo), q.todo # <<>>, Knows(q)',
         \A h \in AccessNames : Follows(Head(q.todo), h) => Ready(q, h)'
  PROVE  CPInv'
<1>1. CASE Tail(q.todo) = <<>>
  BY <1>1, GoesOn DEF Continues
<1>2. CASE Tail(q.todo) # <<>>
  <2>1. /\ WellFormed(Tail(q.todo)) /\ (InSync(Tail(q.todo)) => InSync(q.todo))
        /\ Follows(Head(q.todo), Head(Tail(q.todo)))
    BY <1>2, TailIsWellFormed
  <2>2. Head(Tail(q.todo)) \in AccessNames
    BY <1>2, <2>1 DEF WellFormed
  <2>3. Ready(q, Head(Tail(q.todo)))'
    BY <2>1, <2>2
  <2> QED BY <2>1, <2>3, GoesOn DEF Continues
<1> QED BY <1>1, <1>2

\* A call saves its task and goes on, knowing me of it.
LEMMA SavesTask ==
  ASSUME OneCall, CPInv, NEW i \in Requests, NEW q, CallOK(q),
         NEW v \in TaskType, NEW me \in TaskType, NEW p, p = [q EXCEPT !.me = me],
         task' = [task EXCEPT ![q.task] = v], UNCHANGED <<approval, grant, run, work>>,
         Continues(i, p),
         v.status # "absent", v.by = me.by, me.by # NoTask => approval[me.by] = "approved",
         task[q.task].by # NoTask => me.by # NoTask,
         task[q.task].run # NoRun => v.run # NoRun,
         v.run # NoRun \/ me.run # NoRun =>
           (q.task \in Risky => approval[q.task] = "approved" \/ me.by # NoTask),
         task'[q.task] = v => \A h \in AccessNames : Follows(Head(q.todo), h) => Ready(p, h)'
  PROVE  CPInv'
<1>1. Tables /\ q \in CallType /\ q.task \in Tasks /\ WellFormed(q.todo) /\ q.todo # <<>> /\ Knows(q)
  BY DEF CallOK, CallType, CPInv
<1>2. /\ Tables' /\ task'[q.task] = v
      /\ \A u \in Tasks : (Consent(u) => Consent(u)') /\ (Exists(u) => Exists(u)')
  BY <1>1, TaskSaved
<1>3. /\ p \in CallType /\ p.todo = q.todo /\ p.task = q.task /\ p.me = me /\ p.item = q.item
      /\ p.cur = q.cur /\ p.seen = q.seen /\ p.job = q.job
  BY <1>1 DEF CallType
<1>4. me.run # NoRun => Consent(q.task)'
  BY <1>2 DEF Consent
<1>5. Knows(p)'
  BY <1>1, <1>2, <1>3, <1>4 DEF Knows
<1> QED BY <1>1, <1>2, <1>3, <1>5, GoesOnInOrder

\* A call saves its task as it knows it.
LEMMA SavesWhatItKnows ==
  ASSUME OneCall, CPInv, NEW i \in Requests, NEW q, CallOK(q), Head(q.todo) \notin First,
         task' = [task EXCEPT ![q.task] = q.me], UNCHANGED <<approval, grant, run, work>>,
         Continues(i, q),
         task'[q.task] = q.me => \A h \in AccessNames : Follows(Head(q.todo), h) => Ready(q, h)'
  PROVE  CPInv'
<1>1. q \in CallType /\ q.me \in TaskType /\ q.task \in Tasks /\ Knows(q) /\ Ready(q, Head(q.todo))
  BY DEF CallOK, CallType
<1>2. q = [q EXCEPT !.me = q.me]
  BY <1>1 DEF CallType
<1>3. /\ q.me.status # "absent" /\ (q.me.by # NoTask => approval[q.me.by] = "approved")
      /\ task[q.task].by # NoTask => q.me.by # NoTask
      /\ task[q.task].run # NoRun => q.me.run # NoRun
  BY <1>1 DEF Knows, Ready
<1>4. q.me.run # NoRun => (q.task \in Risky => approval[q.task] = "approved" \/ q.me.by # NoTask)
  BY <1>1, <1>3 DEF Knows, Consent
<1> QED BY <1>1, <1>2, <1>3, <1>4, SavesTask

\* A call saves its task, changed, as the last thing it does.
LEMMA SavesLast ==
  ASSUME OneCall, CPInv, NEW i \in Requests, NEW q, CallOK(q),
         Head(q.todo) \notin First \union {"mark", "answered"},
         ~ \E h \in AccessNames : Follows(Head(q.todo), h),
         NEW v \in TaskType, task' = [task EXCEPT ![q.task] = v],
         UNCHANGED <<approval, grant, run, work>>, Continues(i, q),
         v.status # "absent", v.by = q.me.by,
         v.run = q.me.run \/ (v.run # NoRun /\ Consent(q.task))
  PROVE  CPInv'
<1>1. q \in CallType /\ q.task \in Tasks /\ Knows(q) /\ Ready(q, Head(q.todo))
  BY DEF CallOK, CallType
<1>2. q = [q EXCEPT !.me = q.me] /\ q.me \in TaskType
  BY <1>1 DEF CallType
<1>3. /\ q.me.by = task[q.task].by /\ q.me.run = task[q.task].run
      /\ (q.me.by # NoTask => approval[q.me.by] = "approved")
      /\ v.run # NoRun \/ q.me.run # NoRun =>
           (q.task \in Risky => approval[q.task] = "approved" \/ q.me.by # NoTask)
  BY <1>1 DEF Ready, First, Knows, Consent
<1>4. /\ task[q.task].by # NoTask => q.me.by # NoTask
      /\ task[q.task].run # NoRun => v.run # NoRun
  BY <1>3
<1>5. task'[q.task] = v => \A h \in AccessNames : Follows(Head(q.todo), h) => Ready(q, h)'
  OBVIOUS
<1> QED BY <1>2, <1>3, <1>4, <1>5, SavesTask

\* A call changes nothing but what it knows.
LEMMA Learns ==
  ASSUME OneCall, CPInv, NEW i \in Requests, UNCHANGED tables, NEW q \in CallType, Continues(i, q),
         WellFormed(q.todo), q.todo # <<>>, Knows(q),
         \A h \in AccessNames : Follows(Head(q.todo), h) => Ready(q, h)
  PROVE  CPInv'
<1>1. Tables'
  BY DEF CPInv, Tables, TypeOK, Consent, Exists, tables
<1>2. Knows(q)' /\ \A h \in AccessNames : Follows(Head(q.todo), h) => Ready(q, h)'
  BY DEF Knows, Ready, Consent, Exists, tables
<1> QED BY <1>1, <1>2, GoesOnInOrder

LEMMA Turns ==
  ASSUME OneCall, CPInv, NEW i \in Requests, UNCHANGED tables, NEW q \in CallType, NEW s,
         Then(i, q, s), Knows(q),
         s # <<>> => WellFormed(s) /\ (InSync(s) => InSync(q.todo)) /\ Ready(q, Head(s))
  PROVE  CPInv'
<1>1. Tables'
  BY DEF CPInv, Tables, TypeOK, Consent, Exists, tables
<1>2. Knows(q)' /\ (s # <<>> => Ready(q, Head(s))')
  BY DEF Knows, Ready, Consent, Exists, tables
<1> QED BY <1>1, <1>2, GoesOn

LEMMA EndsWell ==
  ASSUME OneCall, CPInv, NEW i \in Requests, Tables', Ends(i) PROVE CPInv'
BY Onward DEF Ends, Goes

-----------------------------------------------------------------------------
(* create_task                                                             *)

LEMMA SaveNewStep ==
  ASSUME OneCall, CPInv, NEW i \in Requests, SaveNew(i) PROVE CPInv'
<1>1. PICK q : q = request[i]
  OBVIOUS
<1>2. CallOK(q) /\ Head(q.todo) = "new"
  BY <1>1, InCall DEF SaveNew
<1>3. q \in CallType /\ q.task \in Tasks /\ Ready(q, "new")
  BY <1>2 DEF CallOK, CallType
<1>4. approval[q.task] = "none" /\ task[q.task].by = NoTask /\ task[q.task].run = NoRun
  BY <1>3 DEF Ready, NewTask
<1>5. PICK me : me = [NewTask EXCEPT !.status = "created"]
  OBVIOUS
<1>6. me \in TaskType /\ me.status = "created" /\ me.by = NoTask /\ me.run = NoRun
  BY <1>5 DEF NewTask, TaskType
<1>7. PICK p : p = [q EXCEPT !.me = me]
  OBVIOUS
<1>8. /\ task' = [task EXCEPT ![q.task] = me] /\ Continues(i, p)
      /\ UNCHANGED <<approval, grant, run, work>>
  BY <1>1, <1>5, <1>7 DEF SaveNew
<1>9. p.todo = q.todo /\ p.task = q.task /\ p.me = me /\ p.r = q.r
  BY <1>3, <1>7 DEF CallType
<1>10. ASSUME task'[q.task] = me, NEW h \in AccessNames, Follows("new", h) PROVE Ready(p, h)'
  <2>1. h = "gate" /\ (InSync(q.todo) => q.r \in Runs)
    BY <1>3, <1>10 DEF Follows, Ready
  <2> QED BY <2>1, <1>4, <1>6, <1>8, <1>9, <1>10 DEF Ready, First, Exists
<1> QED BY <1>2, <1>4, <1>6, <1>7, <1>8, <1>10, SavesTask

LEMMA GateStep ==
  ASSUME OneCall, CPInv, NEW i \in Requests, Gate(i) PROVE CPInv'
<1>1. PICK q : q = request[i]
  OBVIOUS
<1>2. CallOK(q) /\ Head(q.todo) = "gate" /\ Tables
  BY <1>1, InCall DEF Gate
<1>3. q \in CallType /\ q.task \in Tasks /\ Ready(q, "gate") /\ Knows(q)
      /\ WellFormed(q.todo) /\ q.todo # <<>>
  BY <1>2 DEF CallOK, CallType
<1>4. CASE Continues(i, q) /\ UNCHANGED task
  <2>1. ASSUME NEW h \in AccessNames, Follows("gate", h) PROVE Ready(q, h)
    BY <1>3, <2>1 DEF Follows, Ready, First
  <2> QED BY <1>2, <1>3, <1>4, <2>1, Learns DEF Gate, tables
<1>5. CASE /\ task' = [task EXCEPT ![q.task] = [q.me EXCEPT !.status = "rejected"]]
           /\ Ends(i)
  <2>1. PICK v : v = [q.me EXCEPT !.status = "rejected"]
    OBVIOUS
  <2>2. /\ v \in TaskType /\ v.status = "rejected" /\ v.by = q.me.by /\ v.run = q.me.run
    BY <1>3, <2>1 DEF CallType, TaskType
  <2>3. Tables'
    BY <1>2, <1>3, <1>5, <2>1, <2>2, TaskSaved DEF Gate, Knows, Ready, First, Consent
  <2> QED BY <1>5, <2>3, EndsWell
<1> QED BY <1>1, <1>4, <1>5 DEF Gate

\* An active grant was given with the approval of its task.
LEMMA PolicyStep ==
  ASSUME OneCall, CPInv, NEW i \in Requests, Policy(i) PROVE CPInv'
<1>1. PICK q : q = request[i]
  OBVIOUS
<1>2. CallOK(q) /\ Head(q.todo) = "policy" /\ Tables
  BY <1>1, InCall DEF Policy
<1>3. q \in CallType /\ q.task \in Tasks /\ Ready(q, "policy") /\ Knows(q)
      /\ WellFormed(q.todo) /\ q.todo # <<>>
  BY <1>2 DEF CallOK, CallType
<1>4. ASSUME NEW g \in Usable, NEW p, p = [q EXCEPT !.me = [q.me EXCEPT !.by = g]],
             Then(i, p, <<"mark">> \o Dispatch(q.task))
      PROVE  CPInv'
  <2>1. g \in Tasks /\ approval[g] = "approved" /\ g # NoTask
    BY <1>2, <1>4, ControlPlaneAssumption DEF Usable, Tables
  <2>2. PICK me : me = [q.me EXCEPT !.by = g]
    OBVIOUS
  <2>3. me \in TaskType /\ me.by = g /\ me.run = q.me.run /\ me.status = q.me.status
    BY <1>3, <2>1, <2>2 DEF CallType, TaskType
  <2>4. /\ p \in CallType /\ p.todo = q.todo /\ p.task = q.task /\ p.me = me /\ p.item = q.item
        /\ p.cur = q.cur /\ p.seen = q.seen /\ p.job = q.job /\ p.r = q.r
    BY <1>3, <1>4, <2>2, <2>3 DEF CallType
  <2>5. Knows(p)
    BY <1>3, <2>1, <2>3, <2>4 DEF Knows
  <2>6. /\ WellFormed(<<"mark">> \o Dispatch(q.task)) /\ Head(<<"mark">> \o Dispatch(q.task)) = "mark"
        /\ ~InSync(<<"mark">> \o Dispatch(q.task))
    <3>1. /\ WellFormed(Dispatch(q.task)) /\ Dispatch(q.task) # <<>> /\ ~InSync(Dispatch(q.task))
          /\ Head(Dispatch(q.task)) \in {"enqueue", "answer"}
      BY DispatchIsWellFormed
    <3>2. "mark" \in AccessNames /\ "mark" \notin SyncAccesses
      BY DEF AccessNames, SyncAccesses
    <3>3. Follows("mark", Head(Dispatch(q.task)))
      BY <3>1 DEF Follows
    <3> QED BY <3>1, <3>2, <3>3, ConsIsWellFormed
  <2>7. Ready(p, "mark")
    BY <1>3, <2>1, <2>3, <2>4 DEF Ready, First
  <2> QED BY <1>4, <2>4, <2>5, <2>6, <2>7, Turns DEF Policy
<1>5. CASE NeedsApproval(q.task) /\ Then(i, q, <<"ask", "await">>)
  <2>1. Ready(q, "ask")
    BY <1>3 DEF Ready, First
  <2> QED BY <1>3, <1>5, <2>1, PairsAreWellFormed, Turns DEF Policy
<1>6. CASE ~NeedsApproval(q.task) /\ Then(i, q, Dispatch(q.task))
  <2>1. Consent(q.task)
    BY <1>6 DEF NeedsApproval, Consent
  <2>2. Ready(q, "enqueue") /\ Ready(q, "answer")
    BY <1>3, <2>1 DEF Ready, First
  <2> QED BY <1>3, <1>6, <2>2, DispatchIsWellFormed, Turns DEF Policy
<1>7. \/ \E g \in Usable : Then(i, [q EXCEPT !.me = [q.me EXCEPT !.by = g]],
                               <<"mark">> \o Dispatch(q.task))
      \/ NeedsApproval(q.task) /\ Then(i, q, <<"ask", "await">>)
      \/ ~NeedsApproval(q.task) /\ Then(i, q, Dispatch(q.task))
  BY <1>1 DEF Policy
<1> QED BY <1>4, <1>5, <1>6, <1>7

\* An approval is asked for a task that has none.
LEMMA AskStep ==
  ASSUME OneCall, CPInv, NEW i \in Requests, Ask(i) PROVE CPInv'
<1>1. PICK q : q = request[i]
  OBVIOUS
<1>2. CallOK(q) /\ Head(q.todo) = "ask" /\ Tables
  BY <1>1, InCall DEF Ask
<1>3. /\ q \in CallType /\ q.task \in Tasks /\ Ready(q, "ask") /\ Knows(q)
      /\ WellFormed(q.todo) /\ q.todo # <<>>
  BY <1>2 DEF CallOK, CallType
<1>4. /\ approval' = [approval EXCEPT ![q.task] = "pending"] /\ Continues(i, q)
      /\ UNCHANGED <<task, grant, run, work>>
  BY <1>1 DEF Ask
<1>5. approval[q.task] = "none" /\ Exists(q.task)
  BY <1>3 DEF Ready
<1>6. TypeOK' /\ \A t \in Tasks : /\ approval[t] = "approved" => approval'[t] = "approved"
                                  /\ ~Exists(t) => approval'[t] = approval[t]
  BY <1>2, <1>3, <1>4, <1>5 DEF Tables, TypeOK
<1>7. \A t \in Tasks : (Consent(t) => Consent(t)') /\ (Exists(t)' <=> Exists(t))
  BY <1>4, <1>6 DEF Consent, Exists
<1>8. Tables'
  BY <1>2, <1>4, <1>6, <1>7 DEF Tables, TypeOK, TaskType, Consent, Exists
<1>9. Knows(q)'
  BY <1>2, <1>3, <1>4, <1>6, <1>7 DEF Knows, CallType, TaskType
<1>10. ASSUME NEW h \in AccessNames, Follows("ask", h) PROVE Ready(q, h)'
  <2>1. h = "await"
    BY <1>10 DEF Follows
  <2> QED BY <2>1, <1>3, <1>4, <1>7 DEF Ready, First, Exists
<1> QED BY <1>2, <1>3, <1>4, <1>8, <1>9, <1>10, GoesOnInOrder

LEMMA AwaitStep ==
  ASSUME OneCall, CPInv, NEW i \in Requests, Await(i) PROVE CPInv'
<1>1. PICK q : q = request[i]
  OBVIOUS
<1>2. CallOK(q) /\ Head(q.todo) = "await"
  BY <1>1, InCall DEF Await
<1>3. q.me \in TaskType /\ q.r \in Runs \union {NoRun} /\ Ready(q, "await")
  BY <1>2 DEF CallOK, CallType
<1>4. PICK v : v = [q.me EXCEPT !.status = "awaiting", !.asked = TRUE]
  OBVIOUS
<1>5. v \in TaskType /\ v.status # "absent" /\ v.by = q.me.by /\ v.run = q.me.run
  BY <1>3, <1>4 DEF TaskType
<1>6. /\ task' = [task EXCEPT ![q.task] = v] /\ Continues(i, q)
      /\ UNCHANGED <<approval, grant, run, work>>
  BY <1>1, <1>4 DEF Await
<1>7. "await" \notin First \union {"mark", "answered"} /\ ~ \E h \in AccessNames : Follows("await", h)
  BY DEF First, Follows
<1> QED BY <1>2, <1>5, <1>6, <1>7, SavesLast

-----------------------------------------------------------------------------
(* decide_task                                                             *)

LEMMA DecideStep ==
  ASSUME OneCall, CPInv, NEW i \in Requests, Decide(i) PROVE CPInv'
<1>1. PICK q : q = request[i]
  OBVIOUS
<1>2. CallOK(q) /\ Head(q.todo) = "decide" /\ Tables
  BY <1>1, InCall DEF Decide
<1>3. /\ q \in CallType /\ q.task \in Tasks /\ Ready(q, "decide") /\ Knows(q)
      /\ WellFormed(q.todo) /\ q.todo # <<>>
  BY <1>2 DEF CallOK, CallType
<1>4. CASE Decidable(q.task) /\ Continues(i, [q EXCEPT !.me = task[q.task]])
  <2>1. PICK p : p = [q EXCEPT !.me = task[q.task]]
    OBVIOUS
  <2>2. task[q.task] \in TaskType
    BY <1>2, <1>3 DEF Tables, TypeOK
  <2>3. /\ p \in CallType /\ p.todo = q.todo /\ p.task = q.task /\ p.me = task[q.task]
        /\ p.item = q.item /\ p.cur = q.cur /\ p.seen = q.seen /\ p.job = q.job /\ p.r = q.r
    BY <1>3, <2>1, <2>2 DEF CallType
  <2>4. Knows(p)
    BY <1>2, <1>3, <2>3 DEF Knows, Tables
  <2>5. ASSUME NEW h \in AccessNames, Follows("decide", h) PROVE Ready(p, h)
    <3>1. h = "settle"
      BY <2>5 DEF Follows
    <3> QED BY <1>3, <1>4, <2>3, <3>1 DEF Ready, First, Decidable, Exists
  <2> QED BY <1>2, <1>3, <1>4, <2>1, <2>3, <2>4, <2>5, Learns DEF Decide
<1>5. CASE Ends(i)
  <2>1. Tables'
    BY <1>2 DEF Decide, Tables, TypeOK, Consent, Exists, tables
  <2> QED BY <1>5, <2>1, EndsWell
<1> QED BY <1>1, <1>4, <1>5 DEF Decide

\* Whatever is dispatched after a decision was approved in it.
LEMMA AfterDecisionIsReady ==
  ASSUME NEW q \in CallType, Ready(q, "run")',
         NEW kind, kind # "reject" => approval'[q.task] = "approved",
         NEW s, s = AfterDecision(kind, q.task)
  PROVE  WellFormed(s) /\ s # <<>> /\ ~InSync(s) /\ Ready(q, Head(s))'
<1>1. CASE kind = "reject"
  <2>1. s = <<"refuse">>
    BY <1>1 DEF AfterDecision
  <2>2. Head(s) = "refuse"
    BY <2>1
  <2> QED BY <2>1, <2>2, PairsAreWellFormed DEF Ready, First
<1>2. CASE kind # "reject" /\ s = Dispatch(q.task)
  <2>1. Consent(q.task)'
    BY <1>2 DEF Consent
  <2>2. Ready(q, "enqueue")' /\ Ready(q, "answer")'
    BY <2>1 DEF Ready, First
  <2> QED BY <1>2, <2>2, DispatchIsWellFormed
<1>3. CASE kind # "reject" /\ s = <<"grant", "mark">> \o Dispatch(q.task)
  <2> DEFINE d == Dispatch(q.task)
             m == <<"mark">> \o d
  <2>1. WellFormed(d) /\ d # <<>> /\ ~InSync(d) /\ Head(d) \in {"enqueue", "answer"}
    BY DispatchIsWellFormed
  <2>2. {"grant", "mark"} \subseteq AccessNames \ SyncAccesses
    BY DEF AccessNames, SyncAccesses
  <2>3. Follows("mark", Head(d)) /\ Follows("grant", "mark")
    BY <2>1 DEF Follows
  <2> HIDE DEF d
  <2>4. WellFormed(m) /\ m # <<>> /\ ~InSync(m) /\ Head(m) = "mark"
    BY <2>1, <2>2, <2>3, ConsIsWellFormed
  <2> HIDE DEF m
  <2>5. /\ WellFormed(<<"grant">> \o m) /\ <<"grant">> \o m # <<>> /\ ~InSync(<<"grant">> \o m)
        /\ Head(<<"grant">> \o m) = "grant"
    BY <2>2, <2>3, <2>4, ConsIsWellFormed
  <2>6. s = <<"grant">> \o m
    <3>1. d \in Seq(AccessNames)
      BY <2>1 DEF WellFormed
    <3> QED BY <1>3, <2>2, <3>1 DEF m, d
  <2>7. Ready(q, "grant")'
    BY <1>3 DEF Ready, First
  <2> QED BY <2>5, <2>6, <2>7
<1>4. kind # "reject" => s = Dispatch(q.task) \/ s = <<"grant", "mark">> \o Dispatch(q.task)
  <2>1. CASE kind = "approve_for_a_year" /\ q.task \in Scoped
    BY <2>1 DEF AfterDecision
  <2>2. CASE kind # "reject" /\ ~(kind = "approve_for_a_year" /\ q.task \in Scoped)
    <3>1. Dispatch(q.task) \in Seq(AccessNames)
      BY DispatchIsWellFormed DEF WellFormed
    <3>2. <<>> \o Dispatch(q.task) = Dispatch(q.task)
      BY <3>1
    <3> QED BY <2>2, <3>2 DEF AfterDecision
  <2> QED BY <2>1, <2>2
<1> QED BY <1>1, <1>2, <1>3, <1>4

LEMMA SettleStep ==
  ASSUME OneCall, CPInv, NEW i \in Requests, Settle(i) PROVE CPInv'
<1>1. PICK q : q = request[i]
  OBVIOUS
<1>2. CallOK(q) /\ Head(q.todo) = "settle" /\ Tables
  BY <1>1, InCall DEF Settle
<1>3. /\ q \in CallType /\ q.task \in Tasks /\ Ready(q, "settle") /\ Knows(q)
      /\ WellFormed(q.todo) /\ q.todo # <<>>
  BY <1>2 DEF CallOK, CallType
<1>4. PICK decided \in {"approved", "rejected"} :
        /\ approval' = [approval EXCEPT ![q.task] = decided]
        /\ q.kind # "reject" => decided = "approved"
  BY <1>1 DEF Settle
<1>5. /\ Then(i, q, AfterDecision(q.kind, q.task))
      /\ UNCHANGED <<task, grant, run, work>>
  BY <1>1 DEF Settle
<1>6. approval[q.task] = "pending" /\ Exists(q.task)
  BY <1>3 DEF Ready
<1>7. TypeOK' /\ \A t \in Tasks : /\ approval[t] = "approved" => approval'[t] = "approved"
                                  /\ ~Exists(t) => approval'[t] = approval[t]
  BY <1>2, <1>3, <1>4, <1>5, <1>6 DEF Tables, TypeOK
<1>8. \A t \in Tasks : (Consent(t) => Consent(t)') /\ (Exists(t)' <=> Exists(t))
  BY <1>5, <1>7 DEF Consent, Exists
<1>9. Tables'
  BY <1>2, <1>5, <1>7, <1>8 DEF Tables, TypeOK, TaskType, Consent, Exists
<1>10. Knows(q)'
  BY <1>2, <1>3, <1>5, <1>7, <1>8 DEF Knows, CallType, TaskType
<1>11. q.kind # "reject" => approval'[q.task] = "approved"
  BY <1>2, <1>3, <1>4 DEF Tables, TypeOK
<1>12. PICK s : s = AfterDecision(q.kind, q.task)
  OBVIOUS
<1>13. WellFormed(s) /\ s # <<>> /\ ~InSync(s) /\ Ready(q, Head(s))'
  <2>1. Ready(q, "run")'
    BY <1>3, <1>5, <1>8 DEF Ready, First
  <2> QED BY <1>3, <1>11, <1>12, <2>1, AfterDecisionIsReady
<1> QED BY <1>2, <1>3, <1>5, <1>9, <1>10, <1>12, <1>13, GoesOn

LEMMA RefuseStep ==
  ASSUME OneCall, CPInv, NEW i \in Requests, Refuse(i) PROVE CPInv'
<1>1. PICK q : q = request[i]
  OBVIOUS
<1>2. CallOK(q) /\ Head(q.todo) = "refuse"
  BY <1>1, InCall DEF Refuse
<1>3. q.me \in TaskType /\ q.r \in Runs \union {NoRun} /\ Ready(q, "refuse")
  BY <1>2 DEF CallOK, CallType
<1>4. PICK v : v = [q.me EXCEPT !.status = "rejected"]
  OBVIOUS
<1>5. v \in TaskType /\ v.status # "absent" /\ v.by = q.me.by /\ v.run = q.me.run
  BY <1>3, <1>4 DEF TaskType
<1>6. /\ task' = [task EXCEPT ![q.task] = v] /\ Continues(i, q)
      /\ UNCHANGED <<approval, grant, run, work>>
  BY <1>1, <1>4 DEF Refuse
<1>7. "refuse" \notin First \union {"mark", "answered"} /\ ~ \E h \in AccessNames : Follows("refuse", h)
  BY DEF First, Follows
<1> QED BY <1>2, <1>5, <1>6, <1>7, SavesLast

\* The grant an approved task gives.
LEMMA CreateGrantStep ==
  ASSUME OneCall, CPInv, NEW i \in Requests, CreateGrant(i) PROVE CPInv'
<1>1. PICK q : q = request[i]
  OBVIOUS
<1>2. CallOK(q) /\ Head(q.todo) = "grant" /\ Tables
  BY <1>1, InCall DEF CreateGrant
<1>3. /\ q \in CallType /\ q.task \in Tasks /\ Ready(q, "grant") /\ Knows(q)
      /\ WellFormed(q.todo) /\ q.todo # <<>>
  BY <1>2 DEF CallOK, CallType
<1>4. PICK me : me = [q.me EXCEPT !.by = q.task]
  OBVIOUS
<1>5. me \in TaskType /\ me.by = q.task /\ me.run = q.me.run /\ me.status = q.me.status
  BY <1>3, <1>4 DEF CallType, TaskType
<1>6. PICK p : p = [q EXCEPT !.me = me]
  OBVIOUS
<1>7. /\ p \in CallType /\ p.todo = q.todo /\ p.task = q.task /\ p.me = me /\ p.item = q.item
      /\ p.cur = q.cur /\ p.seen = q.seen /\ p.job = q.job /\ p.r = q.r
  BY <1>3, <1>5, <1>6 DEF CallType
<1>8. /\ grant' = [grant EXCEPT ![q.task] = "active"] /\ Continues(i, p)
      /\ UNCHANGED <<task, approval, run, work>>
  BY <1>1, <1>4, <1>6 DEF CreateGrant
<1>9. approval[q.task] = "approved" /\ q.task # NoTask
  BY <1>3, ControlPlaneAssumption DEF Ready
<1>10. TypeOK'
  BY <1>2, <1>8 DEF Tables, TypeOK
<1>11. Tables'
  BY <1>2, <1>8, <1>9, <1>10 DEF Tables, TypeOK, Consent, Exists
<1>12. Knows(p)'
  BY <1>3, <1>5, <1>7, <1>8, <1>9 DEF Knows, Consent
<1>13. ASSUME NEW h \in AccessNames, Follows("grant", h) PROVE Ready(p, h)'
  <2>1. h = "mark"
    BY <1>13 DEF Follows
  <2> QED BY <2>1, <1>3, <1>5, <1>7, <1>8, <1>9 DEF Ready, First, Exists
<1> QED BY <1>2, <1>3, <1>7, <1>8, <1>11, <1>12, <1>13, GoesOnInOrder

LEMMA MarkStep ==
  ASSUME OneCall, CPInv, NEW i \in Requests, Mark(i) PROVE CPInv'
<1>1. PICK q : q = request[i]
  OBVIOUS
<1>2. CallOK(q) /\ Head(q.todo) = "mark"
  BY <1>1, InCall DEF Mark
<1>3. q \in CallType /\ q.task \in Tasks /\ Ready(q, "mark") /\ Knows(q)
  BY <1>2 DEF CallOK, CallType
<1>4. /\ task' = [task EXCEPT ![q.task] = q.me] /\ Continues(i, q)
      /\ UNCHANGED <<approval, grant, run, work>>
  BY <1>1 DEF Mark
<1>5. ASSUME task'[q.task] = q.me, NEW h \in AccessNames, Follows("mark", h) PROVE Ready(q, h)'
  <2>1. h \in {"enqueue", "answer"}
    BY <1>5 DEF Follows
  <2>2. Consent(q.task)' /\ Exists(q.task)'
    BY <1>3, <1>5 DEF Consent, Exists, Ready, First
  <2> QED BY <2>1, <2>2, <1>3, <1>5 DEF Ready, First
<1>6. "mark" \notin First
  BY DEF First
<1> QED BY <1>2, <1>4, <1>5, <1>6, SavesWhatItKnows

-----------------------------------------------------------------------------
(* _dispatch_task                                                          *)

LEMMA EnqueueStep ==
  ASSUME OneCall, CPInv, NEW i \in Requests, Enqueue(i) PROVE CPInv'
<1>1. PICK q : q = request[i]
  OBVIOUS
<1>2. CallOK(q) /\ Head(q.todo) = "enqueue" /\ Tables
  BY <1>1, InCall DEF Enqueue
<1>3. /\ q \in CallType /\ q.task \in Tasks /\ Ready(q, "enqueue") /\ Knows(q)
      /\ WellFormed(q.todo) /\ q.todo # <<>> /\ q.item \in WorkType /\ q.item.task = q.task
  BY <1>2 DEF CallOK, CallType, Knows
<1>4. PICK r \in Fresh : /\ work' = [work EXCEPT ![r] = q.item]
                         /\ Continues(i, [q EXCEPT !.r = r])
  BY <1>1 DEF Enqueue
<1>5. r \in Runs /\ UNCHANGED <<task, approval, grant, run>>
  BY DEF Fresh, Enqueue
<1>6. Exists(q.task) /\ Consent(q.task)
  BY <1>3 DEF Ready
<1>7. Tables'
  BY <1>2, <1>3, <1>4, <1>5, <1>6, WorkSaved
<1>8. PICK p : p = [q EXCEPT !.r = r]
  OBVIOUS
<1>9. /\ p \in CallType /\ p.todo = q.todo /\ p.task = q.task /\ p.me = q.me /\ p.item = q.item
      /\ p.cur = q.cur /\ p.seen = q.seen /\ p.job = q.job /\ p.r = r
  BY <1>3, <1>5, <1>8 DEF CallType
<1>10. Knows(p)'
  BY <1>3, <1>5, <1>9 DEF Knows, Consent
<1>11. ASSUME NEW h \in AccessNames, Follows("enqueue", h) PROVE Ready(p, h)'
  <2>1. h = "save_run"
    BY <1>11 DEF Follows
  <2> QED BY <2>1, <1>3, <1>5, <1>6, <1>9 DEF Ready, First, Exists, Consent
<1> QED BY <1>2, <1>3, <1>4, <1>7, <1>8, <1>9, <1>10, <1>11, GoesOnInOrder

LEMMA SaveRunStep ==
  ASSUME OneCall, CPInv, NEW i \in Requests, SaveRun(i) PROVE CPInv'
<1>1. PICK q : q = request[i]
  OBVIOUS
<1>2. CallOK(q) /\ Head(q.todo) = "save_run" /\ Tables
  BY <1>1, InCall DEF SaveRun
<1>3. /\ q \in CallType /\ q.task \in Tasks /\ Ready(q, "save_run") /\ Knows(q)
      /\ WellFormed(q.todo) /\ q.todo # <<>> /\ q.r \in Runs
  BY <1>2 DEF CallOK, CallType, Ready
<1>4. PICK v : v = [status |-> "queued", task |-> q.task, work |-> q.r]
  OBVIOUS
<1>5. run' = [run EXCEPT ![q.r] = v] /\ Continues(i, q) /\ UNCHANGED <<task, approval, grant, work>>
  BY <1>1, <1>4 DEF SaveRun
<1>6. v \in RunType
  BY <1>3, <1>4 DEF RunType, RunStates
<1>7. Tables'
  BY <1>2, <1>5, <1>6, RunSaved
<1>8. Knows(q)'
  BY <1>3, <1>5 DEF Knows, Consent
<1>9. ASSUME NEW h \in AccessNames, Follows("save_run", h) PROVE Ready(q, h)'
  <2>1. h = "save_task"
    BY <1>9 DEF Follows
  <2> QED BY <2>1, <1>3, <1>5 DEF Ready, First, Exists, Consent
<1> QED BY <1>2, <1>3, <1>5, <1>7, <1>8, <1>9, GoesOnInOrder

LEMMA SaveTaskStep ==
  ASSUME OneCall, CPInv, NEW i \in Requests, SaveTask(i) PROVE CPInv'
<1>1. PICK q : q = request[i]
  OBVIOUS
<1>2. CallOK(q) /\ Head(q.todo) = "save_task"
  BY <1>1, InCall DEF SaveTask
<1>3. q.me \in TaskType /\ q.r \in Runs \union {NoRun} /\ Ready(q, "save_task")
  BY <1>2 DEF CallOK, CallType
<1>4. PICK v : v = [q.me EXCEPT !.status = "queued", !.run = q.r]
  OBVIOUS
<1>5. v \in TaskType /\ v.status # "absent" /\ v.by = q.me.by /\ v.run = q.r
  BY <1>3, <1>4 DEF TaskType, RunStates
<1>6. /\ task' = [task EXCEPT ![q.task] = v] /\ Continues(i, q)
      /\ UNCHANGED <<approval, grant, run, work>>
  BY <1>1, <1>4 DEF SaveTask
<1>7. "save_task" \notin First \union {"mark", "answered"} /\ ~ \E h \in AccessNames : Follows("save_task", h)
  BY DEF First, Follows
<1>8. q.r \in Runs /\ q.r # NoRun /\ Consent(q.task)
  BY <1>3, ControlPlaneAssumption DEF Ready
<1> QED BY <1>2, <1>5, <1>6, <1>7, <1>8, SavesLast

LEMMA AnswerStep ==
  ASSUME OneCall, CPInv, NEW i \in Requests, Answer(i) PROVE CPInv'
<1>1. PICK q : q = request[i]
  OBVIOUS
<1>2. CallOK(q) /\ Head(q.todo) = "answer" /\ Tables
  BY <1>1, InCall DEF Answer
<1>3. /\ q \in CallType /\ q.task \in Tasks /\ Ready(q, "answer") /\ Knows(q)
      /\ WellFormed(q.todo) /\ q.todo # <<>>
  BY <1>2 DEF CallOK, CallType
<1>4. PICK r \in Fresh, status \in {"succeeded", "failed"} :
        /\ run' = [run EXCEPT ![r] = [status |-> status, task |-> q.task, work |-> NoRun]]
        /\ Continues(i, [q EXCEPT !.me = [q.me EXCEPT !.status = status, !.run = r]])
  BY <1>1 DEF Answer
<1>5. r \in Runs /\ r # NoRun /\ UNCHANGED <<task, approval, grant, work>>
  BY ControlPlaneAssumption DEF Fresh, Answer
<1>6. [status |-> status, task |-> q.task, work |-> NoRun] \in RunType
  BY <1>3 DEF RunType, RunStates
<1>7. Tables'
  BY <1>2, <1>4, <1>5, <1>6, RunSaved
<1>8. PICK me : me = [q.me EXCEPT !.status = status, !.run = r]
  OBVIOUS
<1>9. me \in TaskType /\ me.by = q.me.by /\ me.run = r /\ me.status = status
  BY <1>3, <1>5, <1>8 DEF CallType, TaskType, RunStates
<1>10. PICK p : p = [q EXCEPT !.me = me]
  OBVIOUS
<1>11. /\ p \in CallType /\ p.todo = q.todo /\ p.task = q.task /\ p.me = me /\ p.item = q.item
       /\ p.cur = q.cur /\ p.seen = q.seen /\ p.job = q.job /\ p.r = q.r
  BY <1>3, <1>9, <1>10 DEF CallType
<1>12. Knows(p)'
  BY <1>3, <1>5, <1>9, <1>11 DEF Knows, Consent, Ready
<1>13. ASSUME NEW h \in AccessNames, Follows("answer", h) PROVE Ready(p, h)'
  <2>1. h = "answered"
    BY <1>13 DEF Follows
  <2> QED BY <2>1, <1>3, <1>5, <1>9, <1>11 DEF Ready, First, Exists, Consent
<1> QED BY <1>2, <1>3, <1>4, <1>7, <1>8, <1>10, <1>11, <1>12, <1>13, GoesOnInOrder

LEMMA SaveAnsweredStep ==
  ASSUME OneCall, CPInv, NEW i \in Requests, SaveAnswered(i) PROVE CPInv'
<1>1. PICK q : q = request[i]
  OBVIOUS
<1>2. CallOK(q) /\ Head(q.todo) = "answered"
  BY <1>1, InCall DEF SaveAnswered
<1>3. /\ task' = [task EXCEPT ![q.task] = q.me] /\ Continues(i, q)
      /\ UNCHANGED <<approval, grant, run, work>>
  BY <1>1 DEF SaveAnswered
<1>4. "answered" \notin First /\ ~ \E h \in AccessNames : Follows("answered", h)
  BY DEF First, Follows
<1> QED BY <1>2, <1>3, <1>4, SavesWhatItKnows

-----------------------------------------------------------------------------
(* get_task and get_run                                                    *)

LEMMA ReadTaskStep ==
  ASSUME OneCall, CPInv, NEW i \in Requests, ReadTask(i) PROVE CPInv'
<1>1. PICK q : q = request[i]
  OBVIOUS
<1>2. CallOK(q) /\ Head(q.todo) = "task" /\ Tables
  BY <1>1, InCall DEF ReadTask
<1>3. /\ q \in CallType /\ q.task \in Tasks /\ Ready(q, "task") /\ Knows(q)
      /\ WellFormed(q.todo) /\ q.todo # <<>>
  BY <1>2 DEF CallOK, CallType
<1>4. CASE task[q.task].status # "absent" /\ Continues(i, [q EXCEPT !.me = task[q.task]])
  <2>1. PICK p : p = [q EXCEPT !.me = task[q.task]]
    OBVIOUS
  <2>2. task[q.task] \in TaskType
    BY <1>2, <1>3 DEF Tables, TypeOK
  <2>3. /\ p \in CallType /\ p.todo = q.todo /\ p.task = q.task /\ p.me = task[q.task]
        /\ p.item = q.item /\ p.cur = q.cur /\ p.seen = q.seen /\ p.job = q.job /\ p.r = q.r
    BY <1>3, <2>1, <2>2 DEF CallType
  <2>4. Knows(p)
    BY <1>2, <1>3, <2>3 DEF Knows, Tables
  <2>5. ASSUME NEW h \in AccessNames, Follows("task", h) PROVE Ready(p, h)
    <3>1. h = "run"
      BY <2>5 DEF Follows
    <3> QED BY <1>3, <1>4, <2>3, <3>1 DEF Ready, First, Exists
  <2> QED BY <1>2, <1>3, <1>4, <2>1, <2>3, <2>4, <2>5, Learns DEF ReadTask
<1>5. CASE Ends(i)
  <2>1. Tables'
    BY <1>2 DEF ReadTask, Tables, TypeOK, Consent, Exists, tables
  <2> QED BY <1>5, <2>1, EndsWell
<1> QED BY <1>1, <1>4, <1>5 DEF ReadTask

\* A projected run is a run, and there is none without a run to project.
LEMMA ProjectedIsARun ==
  ASSUME Tables, NEW r \in Runs \union {NoRun}
  PROVE  Projected(r) \in RunType /\ (r = NoRun => Projected(r).status = "absent")
<1>1. CASE r = NoRun
  BY <1>1 DEF Projected, NoRunRecord, RunType
<1>2. CASE r # NoRun /\ (run[r].work = NoRun \/ work[run[r].work].status = "absent")
  BY <1>2 DEF Projected, Tables, TypeOK
<1>3. CASE r # NoRun /\ ~(run[r].work = NoRun \/ work[run[r].work].status = "absent")
  <2>1. run[r] \in RunType /\ work[run[r].work] \in WorkType
    BY <1>3 DEF Tables, TypeOK, RunType
  <2>2. RunStatus(work[run[r].work].status) \in RunStates
    BY <1>3, <2>1 DEF RunStatus, WorkType, RunStates, Open
  <2> QED BY <1>3, <2>1, <2>2 DEF Projected, RunType
<1> QED BY <1>1, <1>2, <1>3

LEMMA ReadRunStep ==
  ASSUME OneCall, CPInv, NEW i \in Requests, ReadRun(i) PROVE CPInv'
<1>1. PICK q : q = request[i]
  OBVIOUS
<1>2. CallOK(q) /\ Head(q.todo) = "run" /\ Tables
  BY <1>1, InCall DEF ReadRun
<1>3. /\ q \in CallType /\ q.task \in Tasks /\ Ready(q, "run") /\ Knows(q)
      /\ WellFormed(q.todo) /\ q.todo # <<>> /\ q.me.run \in Runs \union {NoRun}
  BY <1>2 DEF CallOK, CallType, TaskType
<1>4. PICK cur : cur = Projected(q.me.run)
  OBVIOUS
<1>5. cur \in RunType /\ (cur.status # "absent" => Consent(q.task) /\ task[q.task].run # NoRun)
  BY <1>2, <1>3, <1>4, ProjectedIsARun DEF Knows, Ready, First
<1>6. PICK p : p = [q EXCEPT !.cur = cur]
  OBVIOUS
<1>7. /\ p \in CallType /\ p.todo = q.todo /\ p.task = q.task /\ p.me = q.me /\ p.item = q.item
      /\ p.cur = cur /\ p.seen = q.seen /\ p.job = q.job /\ p.r = q.r
  BY <1>3, <1>5, <1>6 DEF CallType
<1>8. Knows(p)
  BY <1>3, <1>5, <1>7 DEF Knows
<1>9. ASSUME NEW h \in {"keep", "show", "cancel", "force-fail", "retry"} PROVE Ready(p, h)
  BY <1>3, <1>7 DEF Ready, First
<1>10. "keep" \in AccessNames \ SyncAccesses /\ {"show", "cancel", "force-fail", "retry"} \subseteq AccessNames
  BY DEF AccessNames, SyncAccesses
<1>11. PICK t : t = Tail(q.todo)
  OBVIOUS
<1>12. t # <<>> => /\ WellFormed(t) /\ (InSync(t) <=> InSync(q.todo))
                   /\ Head(t) \in {"show", "cancel", "force-fail", "retry"}
  <2>1. t # <<>> => WellFormed(t) /\ (InSync(t) <=> InSync(q.todo)) /\ Follows("run", Head(t))
    BY <1>2, <1>3, <1>11, TailIsWellFormed
  <2> QED BY <2>1 DEF Follows
<1>13. t \in Seq(AccessNames)
  BY <1>3, <1>11 DEF WellFormed
<1>14. UNCHANGED tables /\ (Then(i, p, <<"keep">> \o t) \/ Then(i, p, t))
  <2>1. <<>> \o t = t
    BY <1>13
  <2>2. Then(i, [q EXCEPT !.cur = cur],
             (IF q.me.run # NoRun /\ cur # run[q.me.run] THEN <<"keep">> ELSE <<>>) \o t)
    BY <1>1, <1>4, <1>11 DEF ReadRun
  <2> QED BY <1>6, <2>1, <2>2 DEF ReadRun
<1>15. CASE Then(i, p, t)
  BY <1>7, <1>8, <1>9, <1>12, <1>14, <1>15, Turns
<1>16. CASE Then(i, p, <<"keep">> \o t)
  <2>1. CASE t = <<>>
    <3>1. "run" \notin Final
      BY DEF Final
    <3> QED BY <1>2, <1>3, <1>11, <2>1, <3>1, GoesOnUnlessFinal
  <2>2. CASE t # <<>>
    <3>1. Follows("keep", Head(t))
      BY <1>12, <2>2 DEF Follows
    <3>2. /\ WellFormed(<<"keep">> \o t) /\ Head(<<"keep">> \o t) = "keep"
          /\ InSync(<<"keep">> \o t) => InSync(p.todo)
      BY <1>7, <1>10, <1>12, <2>2, <3>1, ConsIsWellFormed
    <3> QED BY <1>7, <1>8, <1>9, <1>14, <1>16, <3>2, Turns
  <2> QED BY <2>1, <2>2
<1> QED BY <1>14, <1>15, <1>16

LEMMA KeepRunStep ==
  ASSUME OneCall, CPInv, NEW i \in Requests, KeepRun(i) PROVE CPInv'
<1>1. PICK q : q = request[i]
  OBVIOUS
<1>2. CallOK(q) /\ Head(q.todo) = "keep" /\ Tables
  BY <1>1, InCall DEF KeepRun
<1>3. /\ q \in CallType /\ q.task \in Tasks /\ Ready(q, "keep") /\ Knows(q) /\ q.cur \in RunType
      /\ WellFormed(q.todo) /\ q.todo # <<>>
  BY <1>2 DEF CallOK, CallType
<1>4. /\ run' = [run EXCEPT ![q.me.run] = q.cur] /\ Continues(i, q)
      /\ UNCHANGED <<task, approval, grant, work>>
  BY <1>1 DEF KeepRun
<1>5. Tables'
  BY <1>2, <1>3, <1>4, RunSaved
<1>6. Knows(q)'
  BY <1>3, <1>4 DEF Knows, Consent
<1>7. ASSUME NEW h \in AccessNames, Follows("keep", h) PROVE Ready(q, h)'
  <2>1. h \in {"show", "cancel", "force-fail", "retry", "note"}
    BY <1>7 DEF Follows
  <2> QED BY <2>1, <1>3, <1>4 DEF Ready, First, Exists
<1> QED BY <1>2, <1>3, <1>4, <1>5, <1>6, <1>7, GoesOnInOrder

LEMMA ShowTaskStep ==
  ASSUME OneCall, CPInv, NEW i \in Requests, ShowTask(i) PROVE CPInv'
<1>1. PICK q : q = request[i]
  OBVIOUS
<1>2. CallOK(q) /\ Head(q.todo) = "show" /\ Tables
  BY <1>1, InCall DEF ShowTask
<1>3. /\ q \in CallType /\ q.task \in Tasks /\ Ready(q, "show") /\ Knows(q)
      /\ WellFormed(q.todo) /\ q.todo # <<>> /\ q.me \in TaskType /\ q.cur \in RunType
  BY <1>2 DEF CallOK, CallType
<1>4. PICK me : me = IF q.cur.status = "absent" THEN q.me
                     ELSE [q.me EXCEPT !.status = q.cur.status]
  OBVIOUS
<1>5. q.me.status # "absent"
  BY <1>3 DEF Ready, First
<1>6. me \in TaskType /\ me.by = q.me.by /\ me.run = q.me.run /\ me.status # "absent"
  BY <1>3, <1>4, <1>5 DEF RunType, TaskType
<1>7. PICK p : p = [q EXCEPT !.me = me]
  OBVIOUS
<1>8. /\ p \in CallType /\ p.todo = q.todo /\ p.task = q.task /\ p.me = me /\ p.item = q.item
      /\ p.cur = q.cur /\ p.seen = q.seen /\ p.job = q.job /\ p.r = q.r
  BY <1>3, <1>6, <1>7 DEF CallType
<1>9. /\ task' = IF me = q.me THEN task ELSE [task EXCEPT ![q.task] = me]
      /\ Continues(i, p) /\ UNCHANGED <<approval, grant, run, work>>
  BY <1>1, <1>4, <1>7 DEF ShowTask
<1>10. CASE task' = task
  <2>1. Knows(p)
    BY <1>3, <1>6, <1>8 DEF Knows
  <2>2. ASSUME NEW h \in AccessNames, Follows("show", h) PROVE Ready(p, h)
    <3>1. h \in {"run", "review"}
      BY <2>2 DEF Follows
    <3> QED BY <3>1, <1>3, <1>6, <1>8 DEF Ready, First
  <2> QED BY <1>2, <1>3, <1>8, <1>9, <1>10, <2>1, <2>2, Learns DEF tables
<1>11. CASE task' = [task EXCEPT ![q.task] = me]
  <2>1. ASSUME task'[q.task] = me, NEW h \in AccessNames, Follows("show", h) PROVE Ready(p, h)'
    <3>1. h \in {"run", "review"}
      BY <2>1 DEF Follows
    <3> QED BY <3>1, <2>1, <1>3, <1>6, <1>8 DEF Ready, First, Exists
  <2>2. /\ me.by # NoTask => approval[me.by] = "approved"
        /\ task[q.task].by # NoTask => me.by # NoTask
        /\ task[q.task].run # NoRun => me.run # NoRun
        /\ me.run # NoRun => (q.task \in Risky => approval[q.task] = "approved" \/ me.by # NoTask)
    BY <1>3, <1>6 DEF Knows, Ready, First, Consent
  <2>3. task'[q.task] = me =>
          \A h \in AccessNames : Follows(Head(q.todo), h) => Ready(p, h)'
    BY <1>2, <2>1
  <2>4. me.run # NoRun \/ me.run # NoRun =>
          (q.task \in Risky => approval[q.task] = "approved" \/ me.by # NoTask)
    BY <2>2
  <2>5. CallOK(q) /\ me \in TaskType /\ me.status # "absent" /\ Continues(i, p)
    BY <1>2, <1>6, <1>9
  <2>6. UNCHANGED <<approval, grant, run, work>>
    BY <1>9
  <2> QED BY <1>7, <1>11, <2>2, <2>3, <2>4, <2>5, <2>6, SavesTask
<1> QED BY <1>9, <1>10, <1>11

-----------------------------------------------------------------------------
(* Operators                                                               *)

\* A settled worker run is synced by the call that settled it.
LEMMA SyncsNowWell ==
  ASSUME OneCall, CPInv, NEW i \in Requests, Tables', NEW q \in CallType, NEW w \in Runs,
         SyncsNow(i, q, w), work'[w].status # "absent",
         (Exists(q.task))', (Consent(q.task))',
         q.item.task = q.task, q.item.status = "queued",
         q.me.by # NoTask => approval'[q.me.by] = "approved",
         q.cur.status # "absent" => task'[q.task].run # NoRun
  PROVE  CPInv'
<1>1. work'[w] \in WorkType
  BY DEF Tables, TypeOK
<1>2. PICK p : p = [q EXCEPT !.todo = Sync, !.job = w, !.seen = work'[w]]
  OBVIOUS
<1>3. Sync \in Seq(AccessNames)
  BY SyncIsWellFormed DEF WellFormed
<1>4. /\ p \in CallType /\ p.todo = Sync /\ p.task = q.task /\ p.me = q.me /\ p.item = q.item
      /\ p.cur = q.cur /\ p.seen = work'[w] /\ p.job = w /\ p.r = q.r
  BY <1>1, <1>2, <1>3 DEF CallType
<1>5. Knows(p)'
  BY <1>4 DEF Knows, Consent
<1>6. Ready(p, "subject")'
  BY <1>4 DEF Ready, First, Exists
<1>7. CallOK(p)'
  BY <1>4, <1>5, <1>6, SyncIsWellFormed DEF CallOK
<1> QED BY <1>2, <1>7, Onward DEF SyncsNow, Goes

\* An operator may stop a run that is open, and settles it as status.
LEMMA StopsAndSyncs ==
  ASSUME OneCall, CPInv, NEW i \in Requests, NEW q, CallOK(q), Head(q.todo) \notin First,
         Stoppable(q.cur), NEW status \in {"cancelled", "failed"},
         work' = [work EXCEPT ![q.cur.work] = [work[q.cur.work] EXCEPT !.status = status]],
         UNCHANGED <<task, approval, grant, run>>, SyncsNow(i, q, q.cur.work)
  PROVE  CPInv'
<1>1. /\ q \in CallType /\ q.task \in Tasks /\ Ready(q, Head(q.todo)) /\ Knows(q) /\ Tables
      /\ q.cur \in RunType
  BY DEF CallOK, CallType, CPInv
<1>2. PICK w : w = q.cur.work
  OBVIOUS
<1>3. w \in Runs /\ work[w].status # "absent" /\ q.cur.status # "absent" /\ work[w] \in WorkType
  BY <1>1, <1>2 DEF Stoppable, RunType, Open, Tables, TypeOK
<1>4. PICK v : v = [work[w] EXCEPT !.status = status]
  OBVIOUS
<1>5. v \in WorkType /\ v.task = work[w].task /\ v.status = status
  BY <1>3, <1>4 DEF WorkType
<1>6. work' = [work EXCEPT ![w] = v]
  BY <1>2, <1>4
<1>7. v.task \in Tasks /\ Exists(v.task) /\ Consent(v.task)
  BY <1>1, <1>3, <1>5 DEF Tables
<1>8. Tables'
  BY <1>1, <1>3, <1>5, <1>6, <1>7, WorkSaved
<1>9. work'[w].status # "absent"
  BY <1>1, <1>3, <1>5, <1>6 DEF Tables, TypeOK
<1>10. Exists(q.task) /\ Consent(q.task) /\ task[q.task].run # NoRun
  BY <1>1, <1>3 DEF Ready, Knows, First
<1>11. (Exists(q.task))' /\ (Consent(q.task))'
  BY <1>10 DEF Exists, Consent
<1>12. /\ q.item.task = q.task /\ q.item.status = "queued"
       /\ q.me.by # NoTask => approval'[q.me.by] = "approved"
       /\ q.cur.status # "absent" => task'[q.task].run # NoRun
  BY <1>1, <1>10 DEF Knows
<1>13. SyncsNow(i, q, w)
  BY <1>2
<1> QED BY <1>1, <1>3, <1>8, <1>9, <1>11, <1>12, <1>13, SyncsNowWell

LEMMA CancelStep ==
  ASSUME OneCall, CPInv, NEW i \in Requests, Cancel(i) PROVE CPInv'
<1>1. PICK q : q = request[i]
  OBVIOUS
<1>2. CallOK(q) /\ Head(q.todo) = "cancel" /\ Tables /\ "cancel" \notin First
  BY <1>1, InCall DEF Cancel, First
<1>3. /\ q \in CallType /\ q.task \in Tasks /\ Ready(q, "cancel") /\ Knows(q)
      /\ WellFormed(q.todo) /\ q.todo # <<>>
  BY <1>2 DEF CallOK, CallType
<1>4. UNCHANGED <<task, approval, grant, run>>
  BY DEF Cancel
<1>5. CASE Ends(i) /\ UNCHANGED work
  <2>1. Tables'
    BY <1>2, <1>4, <1>5 DEF Tables, TypeOK, Consent, Exists
  <2> QED BY <1>5, <2>1, EndsWell
<1>6. CASE /\ Stoppable(q.cur) /\ SyncsNow(i, q, q.cur.work)
           /\ work' = [work EXCEPT ![q.cur.work] = [work[q.cur.work] EXCEPT !.status = "cancelled"]]
  BY <1>2, <1>4, <1>6, StopsAndSyncs
<1>7. CASE /\ Stoppable(q.cur) /\ UNCHANGED work
           /\ Then(i, [q EXCEPT !.cur.status = "running", !.me.status = "running"],
                   <<"keep", "note">>)
  <2>1. PICK p : p = [q EXCEPT !.cur.status = "running", !.me.status = "running"]
    OBVIOUS
  <2>2. /\ p \in CallType /\ p.todo = q.todo /\ p.task = q.task /\ p.item = q.item
        /\ p.seen = q.seen /\ p.job = q.job /\ p.r = q.r
        /\ p.me.by = q.me.by /\ p.me.run = q.me.run /\ p.me.status = "running"
    <3>1. q.me \in TaskType /\ q.cur \in RunType
      BY <1>3 DEF CallType
    <3>2. PICK me : me = [q.me EXCEPT !.status = "running"]
      OBVIOUS
    <3>3. me \in TaskType /\ me.by = q.me.by /\ me.run = q.me.run /\ me.status = "running"
      BY <3>1, <3>2 DEF TaskType, RunStates
    <3>4. PICK cur : cur = [q.cur EXCEPT !.status = "running"]
      OBVIOUS
    <3>5. cur \in RunType
      BY <3>1, <3>4 DEF RunType, RunStates
    <3>6. p = [q EXCEPT !.cur = cur, !.me = me]
      BY <1>3, <2>1, <3>2, <3>4 DEF CallType
    <3> QED BY <1>3, <3>3, <3>5, <3>6 DEF CallType
  <2>3. q.cur.status # "absent"
    BY <1>7 DEF Stoppable, Open
  <2>4. Knows(p)
    BY <1>3, <2>2, <2>3 DEF Knows
  <2>5. Ready(p, "keep")
    BY <1>3, <2>2 DEF Ready, First
  <2>6. Then(i, p, <<"keep", "note">>) /\ UNCHANGED tables
    BY <1>4, <1>7, <2>1 DEF tables
  <2> QED BY <2>2, <2>4, <2>5, <2>6, PairsAreWellFormed, Turns
<1> QED BY <1>1, <1>5, <1>6, <1>7 DEF Cancel

LEMMA NoteStep ==
  ASSUME OneCall, CPInv, NEW i \in Requests, Note(i) PROVE CPInv'
<1>1. PICK q : q = request[i]
  OBVIOUS
<1>2. CallOK(q) /\ Head(q.todo) = "note"
  BY <1>1, InCall DEF Note
<1>3. /\ task' = [task EXCEPT ![q.task] = q.me] /\ Continues(i, q)
      /\ UNCHANGED <<approval, grant, run, work>>
  BY <1>1 DEF Note
<1>4. "note" \notin First /\ ~ \E h \in AccessNames : Follows("note", h)
  BY DEF First, Follows
<1> QED BY <1>2, <1>3, <1>4, SavesWhatItKnows

LEMMA ForceFailStep ==
  ASSUME OneCall, CPInv, NEW i \in Requests, ForceFail(i) PROVE CPInv'
<1>1. PICK q : q = request[i]
  OBVIOUS
<1>2. CallOK(q) /\ Head(q.todo) = "force-fail" /\ Tables /\ "force-fail" \notin First
  BY <1>1, InCall DEF ForceFail, First
<1>3. UNCHANGED <<task, approval, grant, run>>
  BY DEF ForceFail
<1>4. CASE Ends(i) /\ UNCHANGED work
  <2>1. Tables'
    BY <1>2, <1>3, <1>4 DEF Tables, TypeOK, Consent, Exists
  <2> QED BY <1>4, <2>1, EndsWell
<1>5. CASE /\ Stoppable(q.cur) /\ SyncsNow(i, q, q.cur.work)
           /\ work' = [work EXCEPT ![q.cur.work] = [work[q.cur.work] EXCEPT !.status = "failed"]]
  BY <1>2, <1>3, <1>5, StopsAndSyncs
<1> QED BY <1>1, <1>4, <1>5 DEF ForceFail

LEMMA RetryStep ==
  ASSUME OneCall, CPInv, NEW i \in Requests, Retry(i) PROVE CPInv'
<1>1. PICK q : q = request[i]
  OBVIOUS
<1>2. CallOK(q) /\ Head(q.todo) = "retry" /\ Tables
  BY <1>1, InCall DEF Retry
<1>3. /\ q \in CallType /\ q.task \in Tasks /\ Ready(q, "retry") /\ Knows(q)
      /\ q.me \in TaskType /\ q.item \in WorkType /\ q.cur \in RunType
  BY <1>2 DEF CallOK, CallType
<1>4. UNCHANGED tables
  BY DEF Retry
<1>5. CASE Ends(i)
  <2>1. Tables'
    BY <1>2, <1>4 DEF Tables, TypeOK, Consent, Exists, tables
  <2> QED BY <1>5, <2>1, EndsWell
<1>6. CASE /\ Retryable(q.cur)
           /\ Then(i, [q EXCEPT !.item.collect = work[q.cur.work].collect,
                                !.me.previous = q.me.previous \union {q.me.run}],
                   <<"enqueue", "save_run", "save_task">>)
  <2>1. PICK p : p = [q EXCEPT !.item.collect = work[q.cur.work].collect,
                               !.me.previous = q.me.previous \union {q.me.run}]
    OBVIOUS
  <2>2. q.cur.status # "absent" /\ q.cur.work \in Runs
    BY <1>3, <1>6 DEF Retryable, RunType
  <2>3. work[q.cur.work].collect \in BOOLEAN
    BY <1>2, <2>2 DEF Tables, TypeOK, WorkType
  <2>4. q.me.run \in Runs /\ Consent(q.task)
    BY <1>3, <2>2 DEF Knows, Ready, First, TaskType
  <2>5. /\ p.item = [q.item EXCEPT !.collect = work[q.cur.work].collect]
        /\ p.me = [q.me EXCEPT !.previous = q.me.previous \union {q.me.run}]
    BY <1>3, <2>1 DEF CallType
  <2>6. p.item \in WorkType /\ p.item.task = q.item.task /\ p.item.status = q.item.status
    BY <1>3, <2>3, <2>5 DEF WorkType
  <2>7. /\ p.me \in TaskType /\ p.me.by = q.me.by /\ p.me.run = q.me.run
        /\ p.me.status = q.me.status
    <3>1. q.me.previous \union {q.me.run} \in SUBSET Runs
      BY <1>3, <2>4 DEF TaskType
    <3> QED BY <1>3, <2>5, <3>1 DEF TaskType
  <2>8. /\ p \in CallType /\ p.todo = q.todo /\ p.task = q.task
        /\ p.cur = q.cur /\ p.seen = q.seen /\ p.job = q.job /\ p.r = q.r
    BY <1>3, <2>1, <2>5, <2>6, <2>7 DEF CallType
  <2>9. Knows(p)
    BY <1>3, <2>6, <2>7, <2>8 DEF Knows
  <2>10. Ready(p, "enqueue")
    BY <1>3, <2>4, <2>7, <2>8 DEF Ready, First
  <2>11. Then(i, p, <<"enqueue", "save_run", "save_task">>)
    BY <1>6, <2>1
  <2> QED BY <1>4, <2>8, <2>9, <2>10, <2>11, EnqueueIsWellFormed, Turns
<1> QED BY <1>1, <1>5, <1>6 DEF Retry

-----------------------------------------------------------------------------
(* sync_worker_run                                                         *)

LEMMA SyncGoesOn ==
  ASSUME NEW s, WellFormed(s), s # <<>>, Head(s) \in SyncAccesses
  PROVE  InSync(s) /\ (Head(s) # "follow" => Tail(s) # <<>>)
<1>1. s \in Seq(AccessNames) /\ Len(s) \in Nat /\ Len(s) >= 1 /\ Head(s) = s[1]
  BY DEF WellFormed
<1>2. InSync(s)
  BY <1>1 DEF WellFormed, InSync
<1>3. ASSUME Tail(s) = <<>> PROVE Len(s) = 1
  <2>1. Len(Tail(s)) = Len(s) - 1
    BY <1>1
  <2>2. Len(<<>>) = 0
    OBVIOUS
  <2>3. PICK t : t = Tail(s)
    OBVIOUS
  <2>4. t = <<>> /\ Len(t) = Len(s) - 1
    BY <1>3, <2>1, <2>3
  <2>5. Len(t) = 0
    BY <2>2, <2>4
  <2> QED BY <1>1, <2>4, <2>5
<1> QED BY <1>1, <1>2, <1>3 DEF InSync

LEMMA ReadSubjectStep ==
  ASSUME OneCall, CPInv, NEW i \in Requests, ReadSubject(i) PROVE CPInv'
<1>1. PICK q : q = request[i]
  OBVIOUS
<1>2. CallOK(q) /\ Head(q.todo) = "subject" /\ Tables
  BY <1>1, InCall DEF ReadSubject
<1>3. /\ q \in CallType /\ q.task \in Tasks /\ Ready(q, "subject") /\ Knows(q)
      /\ WellFormed(q.todo) /\ q.todo # <<>>
  BY <1>2 DEF CallOK, CallType
<1>4. PICK p : p = [q EXCEPT !.me = task[q.task]]
  OBVIOUS
<1>5. task[q.task] \in TaskType
  BY <1>2, <1>3 DEF Tables, TypeOK
<1>6. /\ p \in CallType /\ p.todo = q.todo /\ p.task = q.task /\ p.me = task[q.task]
      /\ p.item = q.item /\ p.cur = q.cur /\ p.seen = q.seen /\ p.job = q.job /\ p.r = q.r
  BY <1>3, <1>4, <1>5 DEF CallType
<1>7. Knows(p)
  BY <1>2, <1>3, <1>6 DEF Knows, Tables
<1>8. ASSUME NEW h \in AccessNames, Follows("subject", h) PROVE Ready(p, h)
  <2>1. h = "find"
    BY <1>8 DEF Follows
  <2> QED BY <1>3, <1>6, <2>1 DEF Ready, First, Exists
<1>9. UNCHANGED tables /\ Continues(i, p)
  BY <1>1, <1>4 DEF ReadSubject
<1> QED BY <1>2, <1>3, <1>6, <1>7, <1>8, <1>9, Learns

LEMMA FindRunStep ==
  ASSUME OneCall, CPInv, NEW i \in Requests, FindRun(i) PROVE CPInv'
<1>1. PICK q : q = request[i]
  OBVIOUS
<1>2. CallOK(q) /\ Head(q.todo) = "find" /\ Tables
  BY <1>1, InCall DEF FindRun
<1>3. /\ q \in CallType /\ q.task \in Tasks /\ Ready(q, "find") /\ Knows(q)
      /\ WellFormed(q.todo) /\ q.todo # <<>> /\ q.me \in TaskType
  BY <1>2 DEF CallOK, CallType
<1>4. q.job \in Runs
  BY <1>2, <1>3, SyncGoesOn DEF Knows, SyncAccesses
<1>5. ASSUME NEW r \in Runs, Continues(i, [q EXCEPT !.r = r, !.mine = run[r]])
      PROVE  CPInv'
  <2>1. PICK p : p = [q EXCEPT !.r = r, !.mine = run[r]]
    OBVIOUS
  <2>2. run[r] \in RunType
    BY <1>2 DEF Tables, TypeOK
  <2>3. /\ p \in CallType /\ p.todo = q.todo /\ p.task = q.task /\ p.me = q.me
        /\ p.item = q.item /\ p.cur = q.cur /\ p.seen = q.seen /\ p.job = q.job /\ p.r = r
    BY <1>3, <2>1, <2>2 DEF CallType
  <2>4. Knows(p)
    BY <1>3, <2>3 DEF Knows
  <2>5. ASSUME NEW h \in AccessNames, Follows("find", h) PROVE Ready(p, h)
    <3>1. h = "keep_mine"
      BY <2>5 DEF Follows
    <3> QED BY <1>3, <2>3, <3>1 DEF Ready, First, Exists
  <2>6. UNCHANGED tables /\ Continues(i, p)
    BY <1>5, <2>1 DEF FindRun
  <2> QED BY <1>2, <1>3, <2>3, <2>4, <2>5, <2>6, Learns
<1>6. CASE Ends(i)
  <2>1. Tables'
    BY <1>2 DEF FindRun, Tables, TypeOK, Consent, Exists, tables
  <2> QED BY <1>6, <2>1, EndsWell
<1>7. \/ \E r \in Runs : Continues(i, [q EXCEPT !.r = r, !.mine = run[r]])
      \/ Ends(i)
  <2>1. (IF q.me.run = NoRun THEN q.job ELSE q.me.run) \in Runs
    BY <1>3, <1>4 DEF TaskType
  <2> QED BY <1>1, <2>1 DEF FindRun
<1> QED BY <1>5, <1>6, <1>7

LEMMA KeepMineStep ==
  ASSUME OneCall, CPInv, NEW i \in Requests, KeepMine(i) PROVE CPInv'
<1>1. PICK q : q = request[i]
  OBVIOUS
<1>2. CallOK(q) /\ Head(q.todo) = "keep_mine" /\ Tables
  BY <1>1, InCall DEF KeepMine
<1>3. /\ q \in CallType /\ q.task \in Tasks /\ Ready(q, "keep_mine") /\ Knows(q)
      /\ WellFormed(q.todo) /\ q.todo # <<>>
      /\ q.mine \in RunType /\ q.seen \in WorkType
  BY <1>2 DEF CallOK, CallType
<1>4. q.job \in Runs /\ q.seen.status # "absent"
  BY <1>2, <1>3, SyncGoesOn DEF Knows, SyncAccesses
<1>5. RunStatus(q.seen.status) \in RunStates
  BY <1>3, <1>4 DEF RunStatus, RunStates, WorkType, Open
<1>6. PICK mine : mine = [q.mine EXCEPT !.status = RunStatus(q.seen.status), !.work = q.job]
  OBVIOUS
<1>7. mine \in RunType /\ mine.status # "absent"
  BY <1>3, <1>4, <1>5, <1>6 DEF RunType, RunStates
<1>8. PICK p : p = [q EXCEPT !.mine = mine]
  OBVIOUS
<1>9. /\ p \in CallType /\ p.todo = q.todo /\ p.task = q.task /\ p.me = q.me /\ p.mine = mine
      /\ p.item = q.item /\ p.cur = q.cur /\ p.seen = q.seen /\ p.job = q.job /\ p.r = q.r
  BY <1>3, <1>7, <1>8 DEF CallType
<1>10. /\ run' = [run EXCEPT ![q.r] = mine] /\ Continues(i, p)
       /\ UNCHANGED <<task, approval, grant, work>>
  BY <1>1, <1>6, <1>8 DEF KeepMine
<1>11. Tables'
  BY <1>2, <1>7, <1>10, RunSaved
<1>12. Knows(p)'
  BY <1>3, <1>9, <1>10 DEF Knows, Consent
<1>13. ASSUME NEW h \in AccessNames, Follows("keep_mine", h) PROVE Ready(p, h)'
  <2>1. h = "apply"
    BY <1>13 DEF Follows
  <2> QED BY <2>1, <1>3, <1>7, <1>9, <1>10 DEF Ready, First, Exists
<1> QED BY <1>2, <1>3, <1>9, <1>10, <1>11, <1>12, <1>13, GoesOnInOrder

LEMMA ApplyStep ==
  ASSUME OneCall, CPInv, NEW i \in Requests, Apply(i) PROVE CPInv'
<1>1. PICK q : q = request[i]
  OBVIOUS
<1>2. CallOK(q) /\ Head(q.todo) = "apply" /\ Tables /\ "apply" \in SyncAccesses
  BY <1>1, InCall DEF Apply, SyncAccesses
<1>3. /\ q \in CallType /\ q.task \in Tasks /\ Ready(q, "apply") /\ Knows(q)
      /\ WellFormed(q.todo) /\ q.todo # <<>> /\ q.me \in TaskType /\ q.mine \in RunType
  BY <1>2 DEF CallOK, CallType
<1>4. InSync(q.todo) /\ Tail(q.todo) # <<>>
  BY <1>2, <1>3, SyncGoesOn
<1>5. /\ q.r \in Runs /\ q.r # NoRun /\ Consent(q.task) /\ q.mine.status # "absent"
      /\ q.me.by = task[q.task].by
  BY <1>3, <1>4, ControlPlaneAssumption DEF Ready, Knows, First
<1>6. PICK me : me = [q.me EXCEPT !.status = q.mine.status, !.run = q.r]
  OBVIOUS
<1>7. me \in TaskType /\ me.by = q.me.by /\ me.run = q.r /\ me.status # "absent"
  BY <1>3, <1>5, <1>6 DEF RunType, TaskType
<1>8. PICK p : p = [q EXCEPT !.me = me]
  OBVIOUS
<1>9. /\ p \in CallType /\ p.todo = q.todo /\ p.task = q.task /\ p.me = me
      /\ p.item = q.item /\ p.cur = q.cur /\ p.seen = q.seen /\ p.job = q.job /\ p.r = q.r
  BY <1>3, <1>7, <1>8 DEF CallType
<1>10. UNCHANGED <<approval, grant, run, work>>
  BY DEF Apply
<1>11. CASE task' = [task EXCEPT ![q.task] = me] /\ Continues(i, p)
  <2>1. ASSUME task'[q.task] = me, NEW h \in AccessNames, Follows("apply", h) PROVE Ready(p, h)'
    <3>1. h = "review"
      BY <2>1 DEF Follows
    <3> QED BY <3>1, <2>1, <1>3, <1>5, <1>7, <1>9 DEF Ready, First, Exists
  <2>2. task'[q.task] = me =>
          \A h \in AccessNames : Follows(Head(q.todo), h) => Ready(p, h)'
    BY <1>2, <2>1
  <2>3. /\ me.by # NoTask => approval[me.by] = "approved"
        /\ task[q.task].by # NoTask => me.by # NoTask
        /\ task[q.task].run # NoRun => me.run # NoRun
    BY <1>3, <1>5, <1>7 DEF Knows
  <2>4. me.run # NoRun \/ me.run # NoRun =>
          (q.task \in Risky => approval[q.task] = "approved" \/ me.by # NoTask)
    BY <1>5, <1>7 DEF Consent
  <2>5. CallOK(q) /\ me \in TaskType /\ me.status # "absent" /\ Continues(i, p)
    BY <1>2, <1>7, <1>11
  <2> QED BY <1>8, <1>10, <1>11, <2>2, <2>3, <2>4, <2>5, SavesTask
<1>12. CASE UNCHANGED task /\ Then(i, q, <<"run", "show">> \o Tail(q.todo))
  <2>1. PICK t : t = Tail(q.todo)
    OBVIOUS
  <2>2. /\ WellFormed(t) /\ t # <<>> /\ (InSync(t) <=> InSync(q.todo)) /\ Head(t) = "review"
    <3>1. WellFormed(t) /\ (InSync(t) <=> InSync(q.todo)) /\ Follows("apply", Head(t))
      BY <1>2, <1>3, <1>4, <2>1, TailIsWellFormed
    <3> QED BY <1>4, <2>1, <3>1 DEF Follows
  <2>3. {"run", "show"} \subseteq AccessNames \ SyncAccesses
    BY DEF AccessNames, SyncAccesses
  <2>4. Follows("run", "show") /\ Follows("show", "review")
    BY DEF Follows
  <2>5. PICK m : m = <<"show">> \o t
    OBVIOUS
  <2>6. WellFormed(m) /\ m # <<>> /\ Head(m) = "show" /\ (InSync(m) <=> InSync(t))
    BY <2>2, <2>3, <2>4, <2>5, ConsIsWellFormed
  <2>7. /\ WellFormed(<<"run">> \o m) /\ Head(<<"run">> \o m) = "run"
        /\ InSync(<<"run">> \o m) <=> InSync(m)
    BY <2>3, <2>4, <2>6, ConsIsWellFormed
  <2>8. <<"run", "show">> \o t = <<"run">> \o m
    <3>1. t \in Seq(AccessNames)
      BY <2>2 DEF WellFormed
    <3> QED BY <2>3, <2>5, <3>1
  <2>9. Ready(q, "run")
    BY <1>3, <1>5 DEF Ready, First
  <2>10. Then(i, q, <<"run">> \o m) /\ UNCHANGED tables
    BY <1>10, <1>12, <2>1, <2>8 DEF tables
  <2> QED BY <1>3, <1>4, <2>2, <2>6, <2>7, <2>9, <2>10, Turns
<1>13. \/ task' = [task EXCEPT ![q.task] = me] /\ Continues(i, p)
       \/ UNCHANGED task /\ Then(i, q, <<"run", "show">> \o Tail(q.todo))
  BY <1>1, <1>6, <1>8 DEF Apply
<1> QED BY <1>11, <1>12, <1>13

LEMMA ReviewStep ==
  ASSUME OneCall, CPInv, NEW i \in Requests, Review(i) PROVE CPInv'
<1>1. PICK q : q = request[i]
  OBVIOUS
<1>2. CallOK(q) /\ Head(q.todo) = "review" /\ Tables /\ "review" \in SyncAccesses
  BY <1>1, InCall DEF Review, SyncAccesses
<1>3. /\ q \in CallType /\ q.task \in Tasks /\ Ready(q, "review") /\ Knows(q)
      /\ WellFormed(q.todo) /\ q.todo # <<>>
  BY <1>2 DEF CallOK, CallType
<1>4. UNCHANGED tables
  BY DEF Review
<1>5. CASE Continues(i, q)
  <2>1. ASSUME NEW h \in AccessNames, Follows("review", h) PROVE Ready(q, h)
    <3>1. h = "follow"
      BY <2>1 DEF Follows
    <3> QED BY <3>1, <1>3 DEF Ready, First
  <2> QED BY <1>2, <1>3, <1>4, <1>5, <2>1, Learns
<1>6. CASE Then(i, q, <<"review_run", "review_task">> \o Tail(q.todo))
  <2>1. PICK t : t = Tail(q.todo)
    OBVIOUS
  <2>2. InSync(q.todo) /\ t # <<>>
    BY <1>2, <1>3, <2>1, SyncGoesOn
  <2>3. WellFormed(t) /\ InSync(t) /\ Head(t) = "follow"
    <3>1. WellFormed(t) /\ (InSync(t) <=> InSync(q.todo)) /\ Follows("review", Head(t))
      BY <1>2, <1>3, <2>1, <2>2, TailIsWellFormed
    <3> QED BY <2>2, <3>1 DEF Follows
  <2>4. {"review_run", "review_task"} \subseteq AccessNames
    BY DEF AccessNames, SyncAccesses
  <2>5. Follows("review_run", "review_task") /\ Follows("review_task", "follow")
    BY DEF Follows
  <2>6. PICK m : m = <<"review_task">> \o t
    OBVIOUS
  <2>7. WellFormed(m) /\ m # <<>> /\ Head(m) = "review_task" /\ InSync(m)
    BY <2>2, <2>3, <2>4, <2>5, <2>6, ConsIsWellFormed
  <2>8. WellFormed(<<"review_run">> \o m) /\ Head(<<"review_run">> \o m) = "review_run"
    BY <2>4, <2>5, <2>7, ConsIsWellFormed
  <2>9. <<"review_run", "review_task">> \o t = <<"review_run">> \o m
    <3>1. t \in Seq(AccessNames)
      BY <2>3 DEF WellFormed
    <3> QED BY <2>4, <2>6, <3>1
  <2>10. Ready(q, "review_run")
    BY <1>3 DEF Ready, First
  <2>11. Then(i, q, <<"review_run">> \o m)
    BY <1>6, <2>1, <2>9
  <2> QED BY <1>3, <1>4, <2>2, <2>8, <2>10, <2>11, Turns
<1> QED BY <1>1, <1>5, <1>6 DEF Review

LEMMA ReviewRunStep ==
  ASSUME OneCall, CPInv, NEW i \in Requests, ReviewRun(i) PROVE CPInv'
<1>1. PICK q : q = request[i]
  OBVIOUS
<1>2. CallOK(q) /\ Head(q.todo) = "review_run" /\ Tables
  BY <1>1, InCall DEF ReviewRun
<1>3. /\ q \in CallType /\ q.task \in Tasks /\ Ready(q, "review_run") /\ Knows(q)
      /\ WellFormed(q.todo) /\ q.todo # <<>> /\ q.mine \in RunType
  BY <1>2 DEF CallOK, CallType
<1>4. /\ run' = [run EXCEPT ![q.r] = q.mine] /\ Continues(i, q)
      /\ UNCHANGED <<task, approval, grant, work>>
  BY <1>1 DEF ReviewRun
<1>5. Tables'
  BY <1>2, <1>3, <1>4, RunSaved
<1>6. Knows(q)'
  BY <1>3, <1>4 DEF Knows, Consent
<1>7. ASSUME NEW h \in AccessNames, Follows("review_run", h) PROVE Ready(q, h)'
  <2>1. h = "review_task"
    BY <1>7 DEF Follows
  <2> QED BY <2>1, <1>3, <1>4 DEF Ready, First, Exists
<1> QED BY <1>2, <1>3, <1>4, <1>5, <1>6, <1>7, GoesOnInOrder

LEMMA ReviewTaskStep ==
  ASSUME OneCall, CPInv, NEW i \in Requests, ReviewTask(i) PROVE CPInv'
<1>1. PICK q : q = request[i]
  OBVIOUS
<1>2. CallOK(q) /\ Head(q.todo) = "review_task"
  BY <1>1, InCall DEF ReviewTask
<1>3. Ready(q, "review_task")
  BY <1>2 DEF CallOK
<1>4. /\ task' = [task EXCEPT ![q.task] = q.me] /\ Continues(i, q)
      /\ UNCHANGED <<approval, grant, run, work>>
  BY <1>1 DEF ReviewTask
<1>5. ASSUME task'[q.task] = q.me, NEW h \in AccessNames, Follows("review_task", h)
      PROVE  Ready(q, h)'
  <2>1. h = "follow"
    BY <1>5 DEF Follows
  <2> QED BY <2>1, <1>3, <1>5 DEF Ready, First, Exists
<1>6. "review_task" \notin First
  BY DEF First
<1> QED BY <1>2, <1>4, <1>5, <1>6, SavesWhatItKnows

LEMMA FollowUpStep ==
  ASSUME OneCall, CPInv, NEW i \in Requests, FollowUp(i) PROVE CPInv'
<1>1. PICK q : q = request[i]
  OBVIOUS
<1>2. CallOK(q) /\ Head(q.todo) = "follow" /\ Tables /\ "follow" \in SyncAccesses
  BY <1>1, InCall DEF FollowUp, SyncAccesses
<1>3. /\ q \in CallType /\ q.task \in Tasks /\ Ready(q, "follow") /\ Knows(q)
      /\ WellFormed(q.todo) /\ q.todo # <<>>
      /\ q.me \in TaskType /\ q.item \in WorkType
  BY <1>2 DEF CallOK, CallType
<1>4. UNCHANGED tables
  BY DEF FollowUp
<1>5. q.r \in Runs /\ q.job \in Runs /\ Consent(q.task)
  BY <1>2, <1>3, SyncGoesOn DEF Ready, Knows
<1>6. CASE Continues(i, q)
  <2>1. \A h \in AccessNames : ~Follows("follow", h)
    BY DEF Follows
  <2> QED BY <1>2, <1>3, <1>4, <1>6, <2>1, Learns
<1>7. PICK item : item = [q.item EXCEPT !.collect = FALSE, !.follows = q.job]
  OBVIOUS
<1>8. item \in WorkType /\ item.task = q.item.task /\ item.status = q.item.status
  BY <1>3, <1>5, <1>7 DEF WorkType
<1>9. PICK me : me = [q.me EXCEPT !.previous = q.me.previous \union {q.r}, !.followed = TRUE]
  OBVIOUS
<1>10. me \in TaskType /\ me.by = q.me.by /\ me.run = q.me.run /\ me.status = q.me.status
  <2>1. q.me.previous \union {q.r} \in SUBSET Runs
    BY <1>3, <1>5 DEF TaskType
  <2> QED BY <1>3, <1>9, <2>1 DEF TaskType
<1>11. PICK p : p = [q EXCEPT !.item = item, !.me = me]
  OBVIOUS
<1>12. /\ p \in CallType /\ p.todo = q.todo /\ p.task = q.task /\ p.me = me /\ p.item = item
       /\ p.cur = q.cur /\ p.seen = q.seen /\ p.job = q.job /\ p.r = q.r
  BY <1>3, <1>8, <1>10, <1>11 DEF CallType
<1>13. CASE Then(i, p, <<"enqueue", "save_run", "save_task">>)
  <2>1. Knows(p)
    BY <1>3, <1>8, <1>10, <1>12 DEF Knows
  <2>2. Ready(p, "enqueue")
    BY <1>3, <1>5, <1>10, <1>12 DEF Ready, First
  <2> QED BY <1>4, <1>12, <1>13, <2>1, <2>2, EnqueueIsWellFormed, Turns
<1>14. Continues(i, q) \/ Then(i, p, <<"enqueue", "save_run", "save_task">>)
  <2>1. Continues(i, q) \/ Then(i, WithFollowUp(q), <<"enqueue", "save_run", "save_task">>)
    BY <1>1 DEF FollowUp
  <2>2. p = WithFollowUp(q)
    BY <1>7, <1>9, <1>11 DEF WithFollowUp
  <2> QED BY <2>1, <2>2
<1> QED BY <1>6, <1>13, <1>14

-----------------------------------------------------------------------------
(* The rest of the world                                                   *)

LEMMA CallsUndisturbed ==
  ASSUME CPInv, Tables', UNCHANGED <<task, approval, request>>
  PROVE  CPInv'
<1>1. ASSUME NEW i \in Requests PROVE (request[i] = Idle \/ CallOK(request[i]))'
  BY DEF CPInv, CallOK, Knows, Ready, Consent, Exists
<1> QED BY <1>1 DEF CPInv

\* A worker run that exists gets another status.
LEMMA WorkMoves ==
  ASSUME Tables, NEW w \in Runs, work[w].status # "absent",
         NEW status \in {"queued", "running", "completed", "failed", "cancelled"},
         work' = [work EXCEPT ![w] = [work[w] EXCEPT !.status = status]],
         UNCHANGED <<task, approval, grant, run>>
  PROVE  Tables' /\ work'[w].status = status
<1>1. work[w] \in WorkType /\ work \in [Runs -> WorkType]
  BY DEF Tables, TypeOK
<1>2. PICK v : v = [work[w] EXCEPT !.status = status]
  OBVIOUS
<1>3. v \in WorkType /\ v.task = work[w].task /\ v.status = status
  BY <1>1, <1>2 DEF WorkType, Open
<1>4. v.task \in Tasks /\ Exists(v.task) /\ Consent(v.task)
  BY <1>3 DEF Tables
<1> QED BY <1>1, <1>2, <1>3, <1>4, WorkSaved

LEMMA WorkersStep ==
  ASSUME CPInv, NEW r \in Runs, Start(r) \/ Requeue(r) \/ Recover(r) PROVE CPInv'
<1>1. UNCHANGED <<task, approval, grant, run, request>> /\ work[r].status # "absent"
  BY DEF Start, Requeue, Recover
<1>2. PICK status \in {"queued", "running", "failed"} :
        work' = [work EXCEPT ![r] = [work[r] EXCEPT !.status = status]]
  BY DEF Start, Requeue, Recover
<1>3. Tables'
  BY <1>1, <1>2, WorkMoves DEF CPInv
<1> QED BY <1>1, <1>3, CallsUndisturbed

LEMMA EndGrantStep ==
  ASSUME CPInv, NEW g \in Tasks, EndGrant(g) PROVE CPInv'
<1>1. UNCHANGED <<task, approval, run, work, request>>
  BY DEF EndGrant
<1>2. TypeOK'
  BY DEF EndGrant, CPInv, Tables, TypeOK
<1>3. \A t \in Tasks : grant'[t] # "none" => grant[t] # "none"
  BY DEF EndGrant, CPInv, Tables, TypeOK
<1>4. Tables'
  BY <1>1, <1>2, <1>3 DEF CPInv, Tables, Consent, Exists
<1> QED BY <1>1, <1>4, CallsUndisturbed

LEMMA CrashStep ==
  ASSUME CPInv, Crash PROVE CPInv'
<1>1. Tables'
  BY DEF Crash, CPInv, Tables, TypeOK, Consent, Exists, tables
<1>2. request' = [i \in Requests |-> Idle]
  BY DEF Crash
<1> QED BY <1>1, <1>2 DEF CPInv

\* A call knows nothing when it begins.
LEMMA CallsAreCalls ==
  ASSUME NEW kind \in AllKinds, NEW t \in Tasks
  PROVE  /\ Call(kind, t) \in CallType
         /\ Call(kind, t).todo = Accesses(kind) /\ Call(kind, t).task = t
         /\ Call(kind, t).me = NewTask /\ NewTask.run = NoRun /\ NewTask.by = NoTask
         /\ Call(kind, t).cur.status = "absent"
         /\ Call(kind, t).item.task = t /\ Call(kind, t).item.status = "queued"
<1>1. PICK c : c = Call(kind, t)
  OBVIOUS
<1>2. Accesses(kind) \in Seq(AccessNames)
  BY AccessesAreWellFormed DEF WellFormed
<1>3. NewTask \in TaskType /\ NoRunRecord \in RunType /\ NoWork \in WorkType
  BY DEF NewTask, TaskType, NoRunRecord, RunType, NoWork, WorkType
<1>4. PICK item : item = [NoWork EXCEPT !.status = "queued", !.task = t, !.collect = t \in Collects]
  OBVIOUS
<1>5. (t \in Collects) \in BOOLEAN
  OBVIOUS
<1>6. item \in WorkType /\ item.task = t /\ item.status = "queued"
  <2>1. item = [status |-> "queued", task |-> t, collect |-> t \in Collects, follows |-> NoRun]
    BY <1>4 DEF NoWork
  <2> QED BY <1>5, <2>1 DEF WorkType, Open
<1>7. c = [todo |-> Accesses(kind), kind |-> kind, task |-> t, me |-> NewTask,
           cur |-> NoRunRecord, r |-> NoRun, mine |-> NoRunRecord, job |-> NoRun,
           seen |-> NoWork, item |-> item]
  BY <1>1, <1>4 DEF Call
<1>8. c \in CallType /\ c.item = item /\ c.cur = NoRunRecord /\ c.me = NewTask
      /\ c.todo = Accesses(kind) /\ c.task = t
  BY <1>2, <1>3, <1>6, <1>7 DEF CallType
<1> QED BY <1>1, <1>6, <1>8 DEF NewTask, NoRunRecord

LEMMA ReportStep ==
  ASSUME OneCall, CPInv, NEW i \in Requests, NEW r \in Runs, NEW status \in Outcomes,
         Report(i, r, status)
  PROVE  CPInv'
<1>1. PICK t : t = work[r].task
  OBVIOUS
<1>2. work[r].status # "absent" /\ Tables /\ status \in {"completed", "failed", "cancelled"}
  BY ControlPlaneAssumption DEF Report, Open, CPInv
<1>3. t \in Tasks /\ Exists(t) /\ Consent(t)
  BY <1>1, <1>2 DEF Tables
<1>4. PICK q : q = Call("sync", t)
  OBVIOUS
<1>5. /\ q \in CallType /\ q.task = t /\ q.me.by = NoTask /\ q.cur.status = "absent"
      /\ q.item.task = t /\ q.item.status = "queued"
  <2>1. "sync" \in AllKinds
    BY DEF AllKinds
  <2> QED BY <1>3, <1>4, <2>1, CallsAreCalls
<1>6. /\ work' = [work EXCEPT ![r] = [work[r] EXCEPT !.status = status]]
      /\ SyncsNow(i, q, r) /\ UNCHANGED <<task, approval, grant, run>>
  BY <1>1, <1>4 DEF Report
<1>7. Tables' /\ work'[r].status = status
  BY <1>2, <1>6, WorkMoves
<1>8. (Exists(q.task))' /\ (Consent(q.task))'
  BY <1>3, <1>5, <1>6 DEF Exists, Consent
<1> QED BY <1>2, <1>5, <1>6, <1>7, <1>8, SyncsNowWell

LEMMA ResyncStep ==
  ASSUME OneCall, CPInv, NEW i \in Requests, NEW r \in Runs, Resync(i, r) PROVE CPInv'
<1>1. PICK t : t = work[r].task
  OBVIOUS
<1>2. work[r].status # "absent" /\ Tables
  BY DEF Resync, CPInv
<1>3. t \in Tasks /\ Exists(t) /\ Consent(t)
  BY <1>1, <1>2 DEF Tables
<1>4. PICK q : q = Call("sync", t)
  OBVIOUS
<1>5. /\ q \in CallType /\ q.task = t /\ q.me.by = NoTask /\ q.cur.status = "absent"
      /\ q.item.task = t /\ q.item.status = "queued" /\ q.todo = Sync
  <2>1. "sync" \in AllKinds /\ Accesses("sync") = Sync
    BY DEF AllKinds, Accesses
  <2> QED BY <1>3, <1>4, <2>1, CallsAreCalls
<1>6. UNCHANGED tables /\ Goes(i, [q EXCEPT !.job = r, !.seen = work[r]])
  BY <1>1, <1>4 DEF Resync
<1>7. Tables' /\ work' = work
  BY <1>2, <1>6 DEF Tables, TypeOK, Consent, Exists, tables
<1>8. SyncsNow(i, q, r)
  <2>1. [q EXCEPT !.todo = Sync] = q
    BY <1>5 DEF CallType
  <2> QED BY <1>6, <1>7, <2>1 DEF SyncsNow
<1>9. (Exists(q.task))' /\ (Consent(q.task))' /\ work'[r].status # "absent"
  BY <1>2, <1>3, <1>5, <1>6 DEF Exists, Consent, tables
<1> QED BY <1>5, <1>7, <1>8, <1>9, SyncsNowWell

LEMMA BeginStep ==
  ASSUME OneCall, CPInv, NEW i \in Requests, NEW kind \in AllKinds, NEW t \in Tasks,
         Begin(i, kind, t)
  PROVE  CPInv'
<1>1. PICK q : q = Call(kind, t)
  OBVIOUS
<1>2. /\ q \in CallType /\ q.task = t /\ q.me = NewTask /\ NewTask.by = NoTask
      /\ NewTask.run = NoRun /\ q.cur.status = "absent" /\ q.todo = Accesses(kind)
      /\ q.item.task = t /\ q.item.status = "queued"
  BY <1>1, CallsAreCalls
<1>3. kind # "sync" /\ (kind = "create" <=> task[t].status = "absent") /\ UNCHANGED tables
  BY DEF Begin
<1>4. Tables /\ Tables'
  BY <1>3 DEF CPInv, Tables, TypeOK, Consent, Exists, tables
<1>5. PICK h : h = Head(q.todo)
  OBVIOUS
<1>6. /\ WellFormed(q.todo) /\ q.todo # <<>> /\ ~InSync(q.todo) /\ h \in First
      /\ h = "new" <=> kind = "create"
  BY <1>2, <1>3, <1>5, AccessesAreWellFormed
<1>7. Knows(q)
  BY <1>2, <1>6 DEF Knows
<1>8. Ready(q, h)
  <2>1. CASE h = "new"
    BY <1>2, <1>3, <1>4, <1>6, <2>1 DEF Ready, Tables, First
  <2>2. CASE h # "new"
    BY <1>2, <1>3, <1>6, <2>2 DEF Ready, First, Exists
  <2> QED BY <2>1, <2>2
<1>9. CallOK(q)'
  <2>1. Knows(q)' /\ Ready(q, h)'
    BY <1>3, <1>7, <1>8 DEF Knows, Ready, Consent, Exists, tables
  <2> QED BY <1>2, <1>5, <1>6, <2>1 DEF CallOK
<1> QED BY <1>1, <1>4, <1>9, Onward DEF Begin, Goes

-----------------------------------------------------------------------------
(* The theorems.                                                           *)

LEMMA AccessStep ==
  ASSUME OneCall, CPInv, NEW i \in Requests, Access(i) PROVE CPInv'
BY SaveNewStep, GateStep, PolicyStep, AskStep, AwaitStep, DecideStep, SettleStep, RefuseStep,
   CreateGrantStep, MarkStep, EnqueueStep, SaveRunStep, SaveTaskStep, AnswerStep,
   SaveAnsweredStep, ReadTaskStep, ReadRunStep, KeepRunStep, ShowTaskStep, CancelStep,
   NoteStep, ForceFailStep, RetryStep, ReadSubjectStep, FindRunStep, KeepMineStep, ApplyStep,
   ReviewStep, ReviewRunStep, ReviewTaskStep, FollowUpStep DEF Access

LEMMA CPInvHoldsAtFirst == Init => CPInv
<1> SUFFICES ASSUME Init PROVE CPInv
  OBVIOUS
<1>1. NewTask \in TaskType /\ NoRunRecord \in RunType /\ NoWork \in WorkType
  BY DEF NewTask, TaskType, NoRunRecord, RunType, NoWork, WorkType
<1>2. TypeOK
  BY <1>1 DEF Init, TypeOK
<1>3. /\ NewTask.status = "absent" /\ NewTask.run = NoRun /\ NewTask.by = NoTask
      /\ NoWork.status = "absent"
  BY DEF NewTask, NoWork
<1>4. Tables
  BY <1>2, <1>3 DEF Init, Tables
<1> QED BY <1>4 DEF Init, CPInv

LEMMA CPInvIsKept == OneCall /\ CPInv /\ [Next]_vars => CPInv'
<1> SUFFICES ASSUME OneCall, CPInv, [Next]_vars PROVE CPInv'
  OBVIOUS
<1>1. CASE UNCHANGED vars
  <2>1. Tables' /\ UNCHANGED <<task, approval, request>>
    BY <1>1 DEF vars, CPInv, Tables, TypeOK, Consent, Exists
  <2> QED BY <2>1, CallsUndisturbed
<1>2. CASE Next
  <2>1. ASSUME NEW i \in Requests, Access(i) PROVE CPInv'
    BY <2>1, AccessStep
  <2>2. ASSUME NEW i \in Requests, NEW kind \in AllKinds, NEW t \in Tasks, Begin(i, kind, t)
        PROVE  CPInv'
    BY <2>2, BeginStep
  <2>3. ASSUME NEW i \in Requests, NEW r \in Runs,
               Resync(i, r) \/ \E status \in Outcomes : Report(i, r, status)
        PROVE  CPInv'
    BY <2>3, ResyncStep, ReportStep
  <2>4. ASSUME NEW r \in Runs, Start(r) \/ Requeue(r) \/ Recover(r) PROVE CPInv'
    BY <2>4, WorkersStep
  <2>5. ASSUME NEW g \in Tasks, EndGrant(g) PROVE CPInv'
    BY <2>5, EndGrantStep
  <2>6. ASSUME Crash PROVE CPInv'
    BY <2>6, CrashStep
  <2> QED BY <1>2, <2>1, <2>2, <2>3, <2>4, <2>5, <2>6 DEF Next
<1> QED BY <1>1, <1>2

LEMMA CPInvHolds == ASSUME OneCall PROVE Spec => []CPInv
<1>1. Init => CPInv
  BY CPInvHoldsAtFirst
<1>2. CPInv /\ [Next]_vars => CPInv'
  BY CPInvIsKept
<1> QED BY <1>1, <1>2, PTL DEF Spec

\* As long as calls do not overlap, no worker run exists for a risky task
\* without its approval or a grant that an approval gave: for any number of
\* tasks, runs and kills.
THEOREM ConsentBeforeWorkHolds == ASSUME OneCall PROVE Spec => []ConsentBeforeWork
<1>1. CPInv => ConsentBeforeWork
  BY DEF CPInv, Tables, Consent, ConsentBeforeWork
<1> QED BY <1>1, CPInvHolds, PTL

\* The five tables stay well formed, whatever is projected, synced or retried.
THEOREM TablesTypeCorrect == ASSUME OneCall PROVE Spec => []TypeOK
<1>1. CPInv => TypeOK
  BY DEF CPInv, Tables
<1> QED BY <1>1, CPInvHolds, PTL

=============================================================================
