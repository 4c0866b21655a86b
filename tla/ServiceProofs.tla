--------------------------- MODULE ServiceProofs ---------------------------
(***************************************************************************)
(* What the services that keep records promise of them: the quota ledger,  *)
(* the session timeline, the schedules of workers and the two tables of    *)
(* the scheduler.  They share nothing; each section stands by itself.      *)
(***************************************************************************)
EXTENDS MeteredCalls, SessionEvents, WorkerSchedule, SchedulerRaces,
        FiniteSetTheorems, SequenceTheorems, TLAPS

-----------------------------------------------------------------------------
(* The quota ledger.  An entry is in the hands of the one call that saved  *)
(* it, and the stage of that call says what the entry is: reserved and not *)
(* paid until the call has succeeded, reserved and paid until it commits.  *)

EntryType == [units : Units, current : BOOLEAN,
              status : {"reserved", "committed", "released", "rejected"}]
PeerLeaseType == [status : {"active", "over"}, used : 0 .. MaxTasks, units : 0 .. Limit]
MeteredType == [kind : {"none", "tool", "task"},
                stage : {"idle", "check", "reserve", "act", "commit", "release", "count"},
                units : Units \union {0}, entry : Nat, granted : BOOLEAN,
                read : {<<>>} \union {<<l>> : l \in PeerLeaseType}]

MeteredTypes ==
    /\ ledger \in Seq(EntryType)
    /\ peerLease \in PeerLeaseType
    /\ metered \in [Servers -> MeteredType]
    /\ paid \subseteq 1 .. Len(ledger)

\* A task goes on only with the lease it has read, which had room for it, and
\* a call reserves only what costs something.
WellRead ==
    \A t \in Servers :
        /\ metered[t].stage \in {"check", "reserve"} => metered[t].entry = 0
        /\ metered[t].stage = "check" => metered[t].kind = "task"
        /\ metered[t].stage \in {"check", "reserve"} => metered[t].units \in Units
        /\ metered[t].stage # "idle" => metered[t].kind # "none"
        /\ metered[t].kind = "task" =>
             metered[t].read # <<>> /\ metered[t].read[1].used < MaxTasks

\* What the stage of a call says of the entry it holds.
Holding ==
    \A t \in Servers :
        /\ metered[t].entry <= Len(ledger)
        /\ metered[t].stage \in {"commit", "release"} => metered[t].entry # 0
        /\ metered[t].entry # 0 =>
             /\ metered[t].stage \in {"act", "release"} =>
                  ledger[metered[t].entry].status = "reserved" /\ metered[t].entry \notin paid
             /\ metered[t].stage = "commit" =>
                  ledger[metered[t].entry].status = "reserved" /\ metered[t].entry \in paid

OneHolder ==
    \A t, u \in Servers : metered[t].entry # 0 /\ metered[t].entry = metered[u].entry => t = u

QuotaInv == MeteredTypes /\ WellRead /\ Holding /\ OneHolder /\ PaidIsDelivered

LEMMA QuotaInitially == MeteredInit => QuotaInv
<1> SUFFICES ASSUME MeteredInit PROVE QuotaInv
  OBVIOUS
<1>1. NotMetered \in MeteredType /\ NotMetered.stage = "idle" /\ NotMetered.entry = 0
      /\ NotMetered.kind = "none"
  BY DEF NotMetered, MeteredType
<1>2. peerLease \in PeerLeaseType
  BY MeteredAssumption DEF MeteredInit, PeerLeaseType
<1>3. ledger \in Seq(EntryType) /\ Len(ledger) = 0 /\ paid = {}
  BY DEF MeteredInit
<1>4. metered = [t \in Servers |-> NotMetered]
  BY DEF MeteredInit
<1>5. MeteredTypes
  BY <1>1, <1>2, <1>3, <1>4 DEF MeteredTypes
<1>6. WellRead /\ Holding /\ OneHolder
  BY <1>1, <1>3, <1>4 DEF WellRead, Holding, OneHolder
<1>7. PaidIsDelivered
  BY <1>3 DEF PaidIsDelivered
<1> QED BY <1>5, <1>6, <1>7 DEF QuotaInv

\* What a call may become: it holds the entry it held or none, and does not
\* change the entry's standing.
Becomes(t, x) ==
    /\ x \in MeteredType
    /\ x.stage \in {"check", "reserve"} => x.entry = 0
    /\ x.stage = "check" => x.kind = "task"
    /\ x.stage \in {"check", "reserve"} => x.units \in Units
    /\ x.stage # "idle" => x.kind # "none"
    /\ x.kind = "task" => x.read # <<>> /\ x.read[1].used < MaxTasks
    /\ x.stage \in {"commit", "release"} => x.entry # 0
    /\ x.entry # 0 =>
         /\ x.entry = metered[t].entry
         /\ \/ x.stage \in {"act", "release"} /\ metered[t].stage = "act"
            \/ x.stage = "count"

LEMMA CallMoves ==
  ASSUME QuotaInv, NEW t \in Servers, NEW x, Becomes(t, x),
         metered' = [metered EXCEPT ![t] = x],
         UNCHANGED <<ledger, paid>>, peerLease' \in PeerLeaseType
  PROVE  QuotaInv'
<1>0. x \in MeteredType
  BY DEF Becomes
<1>1. MeteredTypes'
  BY <1>0 DEF QuotaInv, MeteredTypes
<1>2. metered'[t] = x /\ \A u \in Servers \ {t} : metered'[u] = metered[u]
  BY DEF QuotaInv, MeteredTypes
<1>3. WellRead'
  BY <1>2 DEF QuotaInv, WellRead, Becomes
<1>4. x.entry \in Nat /\ Len(ledger) \in Nat
  BY <1>0 DEF QuotaInv, MeteredTypes, MeteredType
<1>5. Holding'
  BY <1>2, <1>4 DEF QuotaInv, Holding, Becomes
<1>6. OneHolder'
  BY <1>2 DEF QuotaInv, OneHolder, Becomes
<1>7. PaidIsDelivered'
  BY DEF QuotaInv, PaidIsDelivered
<1> QED BY <1>1, <1>3, <1>5, <1>6, <1>7 DEF QuotaInv

LEMMA NotMeteredType ==
    /\ NotMetered \in MeteredType
    /\ NotMetered.stage = "idle" /\ NotMetered.entry = 0 /\ NotMetered.kind = "none"
  BY DEF NotMetered, MeteredType

LEMMA CallEnds ==
  ASSUME QuotaInv, NEW t \in Servers, MeteredEnds(t),
         UNCHANGED <<ledger, paid>>, peerLease' \in PeerLeaseType
  PROVE  QuotaInv'
<1>1. Becomes(t, NotMetered)
  BY NotMeteredType DEF Becomes
<1> QED BY <1>1, CallMoves DEF MeteredEnds

\* A call is compared with the quota.
LEMMA CallChecked ==
  ASSUME QuotaInv, NEW t \in Servers, NEW units \in Units, NEW kind \in {"tool", "task"},
         NEW read \in {<<>>} \union {<<l>> : l \in PeerLeaseType},
         kind = "task" => read # <<>> /\ read[1].used < MaxTasks,
         Check(t, kind, units, read), UNCHANGED <<ledger, peerLease, paid>>
  PROVE  QuotaInv'
<1> DEFINE stage == IF units = 0 THEN "act" ELSE "reserve"
           granted == units <= Limit - Usage
           x == [NotMetered EXCEPT !.kind = kind, !.units = units, !.read = read,
                                   !.stage = stage, !.granted = granted]
<1>1. metered' = [metered EXCEPT ![t] = x]
  BY DEF Check
<1>s. stage \in {"check", "act", "reserve"} /\ stage # "check" /\ granted \in BOOLEAN
  OBVIOUS
<1>x. x = [NotMetered EXCEPT !.kind = kind, !.units = units, !.read = read,
                             !.stage = stage, !.granted = granted]
  OBVIOUS
<1>u. units \in Units \union {0}
  OBVIOUS
<1> HIDE DEF x, stage, granted
<1>2. /\ x \in MeteredType
      /\ x.kind = kind /\ x.units = units /\ x.read = read /\ x.stage = stage
      /\ x.entry = NotMetered.entry
  BY <1>s, <1>x, <1>u, NotMeteredType DEF MeteredType
<1>n. x.entry = 0 /\ x.stage \in {"act", "reserve"}
  BY <1>2, <1>s, NotMeteredType
<1>3. Becomes(t, x)
  BY <1>2, <1>n DEF Becomes
<1>4. peerLease' \in PeerLeaseType
  BY DEF QuotaInv, MeteredTypes
<1> QED BY <1>1, <1>3, <1>4, CallMoves

LEMMA InvCallTool ==
  ASSUME QuotaInv, NEW t \in Servers, NEW units \in Units, CallTool(t, units) PROVE QuotaInv'
<1>1. Check(t, "tool", units, <<>>) /\ UNCHANGED <<ledger, peerLease, paid>>
  BY DEF CallTool
<1> QED BY <1>1, CallChecked

LEMMA InvReadLease ==
  ASSUME QuotaInv, NEW t \in Servers, NEW units \in Units, ReadLease(t, units) PROVE QuotaInv'
<1> DEFINE x == [NotMetered EXCEPT !.kind = "task", !.stage = "check", !.units = units,
                                   !.read = <<peerLease>>]
<1>1. metered' = [metered EXCEPT ![t] = x] /\ UNCHANGED <<ledger, peerLease, paid>>
      /\ peerLease.used < MaxTasks
  BY DEF ReadLease
<1>2. peerLease \in PeerLeaseType
  BY DEF QuotaInv, MeteredTypes
<1>3. /\ x \in MeteredType
      /\ x.kind = "task" /\ x.stage = "check" /\ x.units = units
      /\ x.read = <<peerLease>> /\ x.entry = NotMetered.entry
  BY <1>2, NotMeteredType DEF MeteredType
<1>4. Becomes(t, x)
  BY <1>1, <1>3, NotMeteredType DEF Becomes
<1> HIDE DEF x
<1> QED BY <1>1, <1>2, <1>4, CallMoves

LEMMA InvCheckTask == ASSUME QuotaInv, NEW t \in Servers, CheckTask(t) PROVE QuotaInv'
<1>1. metered[t] \in MeteredType /\ metered[t].stage = "check"
  BY DEF QuotaInv, MeteredTypes, CheckTask
<1>2. Check(t, "task", metered[t].units, metered[t].read) /\ UNCHANGED <<ledger, peerLease, paid>>
  BY DEF CheckTask
<1>3. metered[t].units \in Units /\ metered[t].read # <<>> /\ metered[t].read[1].used < MaxTasks
  BY <1>1 DEF QuotaInv, WellRead
<1>4. metered[t].read \in {<<>>} \union {<<l>> : l \in PeerLeaseType}
  BY <1>1 DEF MeteredType
<1> QED BY <1>2, <1>3, <1>4, CallChecked

\* A new entry is in the hands of the call that saved it, or refused.
LEMMA InvSaveEntry == ASSUME QuotaInv, NEW t \in Servers, SaveEntry(t) PROVE QuotaInv'
<1> DEFINE c == metered[t]
           n == Len(ledger) + 1
           x == IF c.granted THEN [c EXCEPT !.stage = "act", !.entry = n] ELSE NotMetered
<1>1. PICK e :
        /\ e = [units |-> c.units, current |-> TRUE,
                status |-> IF c.granted THEN "reserved" ELSE "rejected"]
        /\ ledger' = Append(ledger, e) /\ metered' = [metered EXCEPT ![t] = x]
        /\ UNCHANGED <<peerLease, paid>>
  BY DEF SaveEntry
<1>2. c \in MeteredType /\ c.stage = "reserve"
  BY DEF QuotaInv, MeteredTypes, SaveEntry
<1>3. c.units \in Units
  BY <1>2 DEF QuotaInv, WellRead
<1>4. e \in EntryType
  BY <1>1, <1>3 DEF EntryType
<1>5. ledger \in Seq(EntryType) /\ Len(ledger) \in Nat
  BY DEF QuotaInv, MeteredTypes
<1>6. /\ ledger' \in Seq(EntryType) /\ Len(ledger') = n
      /\ \A i \in 1 .. Len(ledger) : ledger'[i] = ledger[i]
      /\ ledger'[n] = e
  BY <1>1, <1>4, <1>5
<1>7. /\ x \in MeteredType
      /\ x # NotMetered => /\ x.stage = "act" /\ x.entry = n /\ x.kind = c.kind
                           /\ x.read = c.read /\ e.status = "reserved"
  <2>1. CASE c.granted
    <3>1. e.status = "reserved"
      BY <1>1, <2>1
    <3>2. x = [c EXCEPT !.stage = "act", !.entry = n]
      BY <2>1
    <3>3. c \in MeteredType /\ n \in Nat
      BY <1>2, <1>5
    <3> HIDE DEF c, n, x
    <3> QED BY <3>1, <3>2, <3>3 DEF MeteredType
  <2>2. CASE ~c.granted
    BY <2>2, NotMeteredType
  <2> QED BY <2>1, <2>2
<1>8. metered'[t] = x /\ \A u \in Servers \ {t} : metered'[u] = metered[u]
  BY <1>1 DEF QuotaInv, MeteredTypes
<1> HIDE DEF x
<1>9. MeteredTypes'
  BY <1>1, <1>5, <1>6, <1>7 DEF QuotaInv, MeteredTypes
<1>10. WellRead'
  BY <1>2, <1>7, <1>8, NotMeteredType DEF QuotaInv, WellRead
<1>11. \A u \in Servers : metered[u].entry \in Nat /\ metered[u].entry < n
  BY <1>5 DEF QuotaInv, MeteredTypes, MeteredType, Holding
<1>12. n \notin paid /\ n \in Nat
  BY <1>5 DEF QuotaInv, MeteredTypes
<1>13. Holding'
  <2>1. ASSUME NEW u \in Servers \ {t}, metered[u].entry # 0
        PROVE  ledger'[metered[u].entry] = ledger[metered[u].entry]
    BY <1>5, <1>6, <1>11, <2>1
  <2> QED BY <1>1, <1>5, <1>6, <1>7, <1>8, <1>11, <1>12, <2>1, NotMeteredType DEF QuotaInv, Holding
<1>14. OneHolder'
  BY <1>7, <1>8, <1>11, <1>12, NotMeteredType DEF QuotaInv, OneHolder
<1>15. PaidIsDelivered'
  BY <1>1, <1>4, <1>5, <1>6, <1>7, <1>12 DEF QuotaInv, PaidIsDelivered
<1> QED BY <1>9, <1>10, <1>13, <1>14, <1>15 DEF QuotaInv

\* One entry of the ledger changes.
LEMMA EntryChanges ==
  ASSUME QuotaInv, NEW i \in 1 .. Len(ledger), NEW e \in EntryType,
         ledger' = [ledger EXCEPT ![i] = e]
  PROVE  /\ ledger' \in Seq(EntryType) /\ Len(ledger') = Len(ledger)
         /\ ledger'[i] = e
         /\ \A j \in 1 .. Len(ledger) \ {i} : ledger'[j] = ledger[j]
<1>1. ledger \in Seq(EntryType)
  BY DEF QuotaInv, MeteredTypes
<1> QED BY <1>1, ExceptSeq

LEMMA InvSucceed == ASSUME QuotaInv, NEW t \in Servers, Succeed(t) PROVE QuotaInv'
<1> DEFINE k == metered[t].entry
           stage == IF k = 0 THEN "count" ELSE "commit"
<1>1. /\ metered' = [metered EXCEPT ![t].stage = stage]
      /\ paid' = paid \union ({k} \ {0}) /\ UNCHANGED <<ledger, peerLease>>
      /\ metered[t].stage = "act"
  BY DEF Succeed, MeteredGoes
<1>2. metered[t] \in MeteredType /\ k \in 0 .. Len(ledger) /\ Len(ledger) \in Nat
      /\ metered[t].kind # "none"
  BY <1>1 DEF QuotaInv, MeteredTypes, MeteredType, Holding, WellRead
<1>3. k # 0 => ledger[k].status = "reserved" /\ k \notin paid
  BY <1>1 DEF QuotaInv, Holding
<1>4. /\ metered'[t].stage = stage /\ metered'[t].entry = k /\ metered'[t].kind = metered[t].kind
      /\ metered'[t].read = metered[t].read
      /\ metered'[t] \in MeteredType /\ metered' \in [Servers -> MeteredType]
      /\ \A u \in Servers \ {t} : metered'[u] = metered[u]
  BY <1>1, <1>2 DEF QuotaInv, MeteredTypes, MeteredType
<1>5. MeteredTypes'
  BY <1>1, <1>2, <1>4 DEF QuotaInv, MeteredTypes
<1>6. WellRead'
  BY <1>2, <1>4 DEF QuotaInv, WellRead
<1>7. OneHolder'
  BY <1>4 DEF QuotaInv, OneHolder
<1>8. Holding'
  <2>1. \A u \in Servers \ {t} : metered[u].entry # 0 => metered[u].entry # k
    BY DEF QuotaInv, OneHolder
  <2> QED BY <1>1, <1>2, <1>3, <1>4, <2>1 DEF QuotaInv, Holding
<1>9. PaidIsDelivered'
  BY <1>1, <1>3 DEF QuotaInv, PaidIsDelivered
<1> QED BY <1>5, <1>6, <1>7, <1>8, <1>9 DEF QuotaInv

LEMMA QuotaCallGoes ==
  ASSUME QuotaInv, NEW t \in Servers, NEW stage \in {"commit", "release", "count"},
         NEW x, x = [metered[t] EXCEPT !.stage = stage]
  PROVE  /\ x \in MeteredType /\ x.stage = stage
         /\ x.entry = metered[t].entry /\ x.kind = metered[t].kind /\ x.read = metered[t].read
<1>1. metered[t] \in MeteredType
  BY DEF QuotaInv, MeteredTypes
<1> QED BY <1>1 DEF MeteredType

LEMMA InvRefuse == ASSUME QuotaInv, NEW t \in Servers, Refuse(t) PROVE QuotaInv'
<1>1. UNCHANGED <<ledger, peerLease, paid>> /\ metered[t].stage = "act"
  BY DEF Refuse
<1>2. peerLease' \in PeerLeaseType
  BY <1>1 DEF QuotaInv, MeteredTypes
<1>3. CASE metered[t].entry = 0
  BY <1>1, <1>2, <1>3, CallEnds DEF Refuse
<1>4. CASE metered[t].entry # 0
  <2> DEFINE x == [metered[t] EXCEPT !.stage = "release"]
  <2>1. metered' = [metered EXCEPT ![t] = x]
    BY <1>4 DEF Refuse, MeteredGoes
  <2>2. /\ x \in MeteredType /\ x.stage = "release"
        /\ x.entry = metered[t].entry /\ x.kind = metered[t].kind /\ x.read = metered[t].read
    BY QuotaCallGoes
  <2>3. Becomes(t, x)
    BY <1>1, <1>4, <2>2 DEF Becomes, QuotaInv, WellRead
  <2> HIDE DEF x
  <2> QED BY <1>1, <1>2, <2>1, <2>3, CallMoves
<1> QED BY <1>3, <1>4

\* A call settles the entry it holds, as the stage it is in says.
LEMMA EntrySettled ==
  ASSUME QuotaInv, NEW t \in Servers, NEW status \in {"committed", "released"},
         NEW x, Becomes(t, x), x.stage \in {"idle", "count"},
         metered' = [metered EXCEPT ![t] = x],
         Transition(t, status), UNCHANGED <<peerLease, paid>>,
         \/ status = "committed" /\ metered[t].stage = "commit"
         \/ status = "released" /\ metered[t].stage = "release"
  PROVE  QuotaInv'
<1> DEFINE k == metered[t].entry
           e == [ledger[k] EXCEPT !.status = status]
<1>1. k \in 1 .. Len(ledger) /\ Len(ledger) \in Nat /\ ledger[k].status = "reserved"
      /\ (status = "committed" <=> k \in paid)
  BY DEF QuotaInv, MeteredTypes, MeteredType, Holding
<1>2. ledger[k] \in EntryType
  BY <1>1 DEF QuotaInv, MeteredTypes
<1>3. e \in EntryType /\ e.status = status
  BY <1>2 DEF EntryType
<1>4. ledger' = [ledger EXCEPT ![k] = e]
  BY DEF Transition
<1> HIDE DEF e
<1>5. /\ ledger' \in Seq(EntryType) /\ Len(ledger') = Len(ledger) /\ ledger'[k] = e
      /\ \A j \in 1 .. Len(ledger) \ {k} : ledger'[j] = ledger[j]
  BY <1>1, <1>3, <1>4, EntryChanges
<1>6. x \in MeteredType
  BY DEF Becomes
<1>7. metered'[t] = x /\ \A u \in Servers \ {t} : metered'[u] = metered[u]
  BY DEF QuotaInv, MeteredTypes
<1>8. MeteredTypes'
  BY <1>5, <1>6 DEF QuotaInv, MeteredTypes
<1>9. WellRead'
  BY <1>7 DEF QuotaInv, WellRead, Becomes
<1>10. OneHolder'
  BY <1>7 DEF QuotaInv, OneHolder, Becomes
<1>11. Holding'
  <2>1. ASSUME NEW u \in Servers \ {t}, metered[u].entry # 0
        PROVE  ledger'[metered[u].entry] = ledger[metered[u].entry]
    <3>1. metered[u].entry \in 1 .. Len(ledger) \ {k}
      BY <1>1, <2>1 DEF QuotaInv, MeteredTypes, MeteredType, Holding, OneHolder
    <3> QED BY <1>5, <3>1
  <2>2. x.entry <= Len(ledger) /\ x.stage \notin {"act", "commit", "release"}
    BY <1>1 DEF Becomes, QuotaInv, Holding
  <2> QED BY <1>5, <1>7, <2>1, <2>2 DEF QuotaInv, Holding
<1>12. PaidIsDelivered'
  BY <1>1, <1>3, <1>5 DEF QuotaInv, PaidIsDelivered
<1> QED BY <1>8, <1>9, <1>10, <1>11, <1>12 DEF QuotaInv

LEMMA InvCommitEntry == ASSUME QuotaInv, NEW t \in Servers, CommitEntry(t) PROVE QuotaInv'
<1> DEFINE x == [metered[t] EXCEPT !.stage = "count"]
<1>1. /\ metered' = [metered EXCEPT ![t] = x]
      /\ Transition(t, "committed") /\ UNCHANGED <<peerLease, paid>> /\ metered[t].stage = "commit"
  BY DEF CommitEntry, MeteredGoes
<1>2. /\ x \in MeteredType /\ x.stage = "count"
      /\ x.entry = metered[t].entry /\ x.kind = metered[t].kind /\ x.read = metered[t].read
  BY QuotaCallGoes
<1>3. Becomes(t, x)
  BY <1>1, <1>2 DEF Becomes, QuotaInv, WellRead
<1> HIDE DEF x
<1> QED BY <1>1, <1>2, <1>3, EntrySettled

LEMMA InvReleaseEntry == ASSUME QuotaInv, NEW t \in Servers, ReleaseEntry(t) PROVE QuotaInv'
<1>1. Becomes(t, NotMetered)
  BY NotMeteredType DEF Becomes
<1> QED BY <1>1, NotMeteredType, EntrySettled DEF ReleaseEntry, MeteredEnds

LEMMA InvCountTask == ASSUME QuotaInv, NEW t \in Servers, CountTask(t) PROVE QuotaInv'
<1>1. MeteredEnds(t) /\ UNCHANGED <<ledger, paid>> /\ metered[t].stage = "count"
  BY DEF CountTask
<1>2. metered[t] \in MeteredType /\ peerLease \in PeerLeaseType
  BY DEF QuotaInv, MeteredTypes
<1>3. CASE metered[t].kind = "tool"
  BY <1>1, <1>2, <1>3, CallEnds DEF CountTask
<1>4. CASE metered[t].kind # "tool"
  <2>1. metered[t].kind = "task"
    BY <1>1, <1>2, <1>4 DEF MeteredType, QuotaInv, WellRead
  <2>2. PICK l \in PeerLeaseType : metered[t].read = <<l>> /\ l.used < MaxTasks
    BY <1>2, <2>1 DEF MeteredType, QuotaInv, WellRead
  <2> DEFINE counted == [l EXCEPT !.used = @ + 1]
             units == IF metered[t].units > counted.units THEN 0 ELSE counted.units - metered[t].units
  <2>3. counted \in PeerLeaseType
    BY <2>2, MeteredAssumption DEF PeerLeaseType
  <2>4. peerLease' = [counted EXCEPT !.units = units]
    BY <1>4, <2>2 DEF CountTask
  <2> HIDE DEF counted
  <2>5. units \in 0 .. Limit
    <3>1. metered[t].units \in Units \union {0}
      BY <1>2 DEF MeteredType
    <3>2. counted.units \in 0 .. Limit /\ Limit \in Nat
      BY <2>3, MeteredAssumption DEF PeerLeaseType
    <3>3. metered[t].units \in Nat
      <4>1. \A u \in Units : u \in Nat
        BY MeteredAssumption
      <4>2. CASE metered[t].units \in Units
        BY <4>1, <4>2, Zenon
      <4>3. CASE metered[t].units = 0
        BY <4>3
      <4> QED BY <3>1, <4>2, <4>3
    <3>4. \A u \in Nat, m \in 0 .. Limit : (IF u > m THEN 0 ELSE m - u) \in 0 .. Limit
      BY <3>2
    <3> QED BY <3>2, <3>3, <3>4
  <2> HIDE DEF units
  <2>6. peerLease' \in PeerLeaseType
    BY <2>3, <2>4, <2>5 DEF PeerLeaseType
  <2> QED BY <1>1, <2>6, CallEnds
<1> QED BY <1>3, <1>4

LEMMA InvEndLease == ASSUME QuotaInv, EndLease PROVE QuotaInv'
<1>1. peerLease' \in PeerLeaseType
  BY DEF EndLease, QuotaInv, MeteredTypes, PeerLeaseType
<1> QED BY <1>1 DEF EndLease, QuotaInv, MeteredTypes, WellRead, Holding, OneHolder, PaidIsDelivered

LEMMA InvAge == ASSUME QuotaInv, NEW i, Age(i) PROVE QuotaInv'
<1> DEFINE e == [ledger[i] EXCEPT !.current = FALSE]
<1>1. i \in 1 .. Len(ledger) /\ ledger' = [ledger EXCEPT ![i] = e] /\ UNCHANGED <<peerLease, metered, paid>>
  BY DEF Age, Counted, QuotaInv, MeteredTypes
<1>2. ledger[i] \in EntryType
  BY <1>1 DEF QuotaInv, MeteredTypes
<1>3. e \in EntryType /\ e.status = ledger[i].status
  BY <1>2 DEF EntryType
<1> HIDE DEF e
<1>4. /\ ledger' \in Seq(EntryType) /\ Len(ledger') = Len(ledger) /\ Len(ledger) \in Nat
      /\ \A j \in 1 .. Len(ledger) : ledger'[j].status = ledger[j].status
  BY <1>1, <1>3, EntryChanges DEF QuotaInv, MeteredTypes
<1>5. MeteredTypes' /\ WellRead' /\ OneHolder'
  BY <1>1, <1>4 DEF QuotaInv, MeteredTypes, WellRead, OneHolder
<1>6. Holding'
  BY <1>1, <1>4 DEF QuotaInv, MeteredTypes, MeteredType, Holding
<1>7. PaidIsDelivered'
  BY <1>1, <1>4 DEF QuotaInv, PaidIsDelivered
<1> QED BY <1>5, <1>6, <1>7 DEF QuotaInv

LEMMA QuotaStep == QuotaInv /\ [MeteredNext]_meteredVars => QuotaInv'
<1> SUFFICES ASSUME QuotaInv, [MeteredNext]_meteredVars PROVE QuotaInv'
  OBVIOUS
<1>1. ASSUME NEW t \in Servers, KillServer(t) PROVE QuotaInv'
  BY <1>1, CallEnds DEF KillServer, QuotaInv, MeteredTypes
<1>2. CASE UNCHANGED meteredVars
  BY <1>2 DEF meteredVars, QuotaInv, MeteredTypes, WellRead, Holding, OneHolder, PaidIsDelivered
<1> QED BY <1>1, <1>2, InvCallTool, InvReadLease, InvCheckTask, InvSaveEntry, InvSucceed, InvRefuse,
           InvCommitEntry, InvReleaseEntry, InvCountTask, InvEndLease, InvAge DEF MeteredNext

\* The ledger, the lease and the calls have their types in every reachable
\* state: usage_quota.py and federation.py never save another record.
THEOREM MeteredTypeCorrect == MeteredSpec => []MeteredTypeOK
<1>1. QuotaInv => MeteredTypeOK
  <2> SUFFICES ASSUME QuotaInv PROVE MeteredTypeOK
    OBVIOUS
  <2>1. MeteredTypes /\ Holding
    BY DEF QuotaInv
  <2>2. \A i \in DOMAIN ledger : ledger[i] \in EntryType
    BY <2>1 DEF MeteredTypes
  <2>3. ASSUME NEW t \in Servers
        PROVE  /\ metered[t].stage \in {"idle", "check", "reserve", "act", "commit", "release", "count"}
               /\ metered[t].entry \in 0 .. Len(ledger)
    BY <2>1 DEF MeteredTypes, MeteredType, Holding
  <2> QED BY <2>1, <2>2, <2>3 DEF MeteredTypeOK, MeteredTypes, EntryType, PeerLeaseType
<1> QED BY <1>1, QuotaInitially, QuotaStep, PTL DEF MeteredSpec

\* PaidIsDelivered, for any number of servers, limits and prices: whichever
\* call fails, is blocked or killed, what UsageQuotaService charges was
\* delivered and what was delivered is never released.
THEOREM ChargesAreDelivered == MeteredSpec => []PaidIsDelivered
<1>1. QuotaInv => PaidIsDelivered
  BY DEF QuotaInv
<1> QED BY <1>1, QuotaInitially, QuotaStep, PTL DEF MeteredSpec

\* The bound on what calls exceed the quota by: an invariant of what is charged
\* and of the calls that have been granted units and have not reserved them yet.
Granted == {t \in Servers : metered[t].stage = "reserve" /\ metered[t].granted}
Dearest == CHOOSE u \in Units : \A v \in Units : v <= u

\* What the bound needs to mean something: finitely many servers, and a highest
\* price.
HasBound ==
    IsFiniteSet(Servers) /\ Servers # {} /\ \E u \in Units : \A v \in Units : v <= u

\* Whatever is charged beyond the limit is owed to the calls that have saved
\* since the last of the granted ones compared.
Exceeds(units, others) == units > Limit + others * Dearest
OverrunInv ==
    /\ QuotaInv
    /\ IsFiniteSet(Charged)
    /\ ~Exceeds(Usage, Cardinality(Servers) - 1)
    /\ Granted # {} =>
         \E t \in Granted : ~Exceeds(Usage + metered[t].units, Cardinality(Servers \ Granted))

LEMMA DearestIs == HasBound => Dearest \in Nat /\ \A u \in Units : u \in Nat /\ u <= Dearest
BY MeteredAssumption DEF HasBound, Dearest

\* How many calls have not been granted anything, or have saved it.
LEMMA OthersCount ==
  ASSUME HasBound, NEW G \in SUBSET Servers
  PROVE  /\ Cardinality(Servers) \in Nat /\ Cardinality(Servers \ G) \in Nat
         /\ Cardinality(Servers) >= 1
         /\ G # {} => Cardinality(Servers \ G) <= Cardinality(Servers) - 1
         /\ \A t \in G : Cardinality(Servers \ (G \ {t})) = Cardinality(Servers \ G) + 1
         /\ \A H \in SUBSET G : Cardinality(Servers \ G) <= Cardinality(Servers \ H)
<1>1. IsFiniteSet(Servers) /\ IsFiniteSet(Servers \ G)
  BY FS_Subset DEF HasBound
<1>2. Cardinality(Servers) \in Nat /\ Cardinality(Servers \ G) \in Nat
  BY <1>1, FS_CardinalityType
<1>3. \A H \in SUBSET G : Cardinality(Servers \ G) <= Cardinality(Servers \ H)
  <2> SUFFICES ASSUME NEW H \in SUBSET G
               PROVE  Cardinality(Servers \ G) <= Cardinality(Servers \ H)
    OBVIOUS
  <2>1. IsFiniteSet(Servers \ H) /\ Servers \ G \in SUBSET (Servers \ H)
    BY <1>1, FS_Subset
  <2> QED BY <2>1, FS_Subset
<1>4. ASSUME NEW t \in G PROVE Cardinality(Servers \ (G \ {t})) = Cardinality(Servers \ G) + 1
  <2>1. Servers \ (G \ {t}) = (Servers \ G) \union {t} /\ t \notin Servers \ G
    OBVIOUS
  <2> QED BY <1>1, <2>1, FS_AddElement
<1>5. G # {} => Cardinality(Servers \ G) <= Cardinality(Servers) - 1
  <2> SUFFICES ASSUME NEW t \in G PROVE Cardinality(Servers \ G) <= Cardinality(Servers) - 1
    OBVIOUS
  <2>1. Cardinality(Servers \ {t}) = Cardinality(Servers) - 1
    BY <1>1, FS_RemoveElement
  <2>2. IsFiniteSet(Servers \ {t}) /\ Servers \ G \in SUBSET (Servers \ {t})
    BY <1>1, FS_Subset
  <2>3. Cardinality(Servers \ G) <= Cardinality(Servers \ {t})
    BY <2>2, FS_Subset
  <2> QED BY <2>1, <2>3
<1>6. Cardinality(Servers) >= 1
  BY <1>1, <1>2, FS_EmptySet DEF HasBound
<1> QED BY <1>2, <1>3, <1>4, <1>5, <1>6

LEMMA FewServers == HasBound => Cardinality(Servers) - 1 \in Nat
<1>1. {} \in SUBSET Servers
  OBVIOUS
<1>2. HasBound => Cardinality(Servers) \in Nat /\ Cardinality(Servers) >= 1
  BY <1>1, OthersCount
<1> QED BY <1>2

\* A call more that may have saved allows one price more.
LEMMA OneMore ==
  ASSUME HasBound, NEW u \in Int, NEW m \in Nat
  PROVE  /\ \A n \in Nat : n >= m /\ ~Exceeds(u, m) => ~Exceeds(u, n)
         /\ \A v \in Int : v <= u /\ ~Exceeds(u, m) => ~Exceeds(v, m)
         /\ \A v \in Units : ~Exceeds(u, m) => ~Exceeds(u + v, m + 1)
         /\ u <= Limit => ~Exceeds(u, m)
<1>1. Dearest \in Nat /\ Limit \in Nat /\ \A v \in Units : v \in Nat /\ v <= Dearest
  BY DearestIs, MeteredAssumption
<1>2. m * Dearest \in Nat
  BY <1>1
<1>3. (m + 1) * Dearest = m * Dearest + Dearest
  BY <1>1
<1>4. ASSUME NEW n \in Nat, n >= m PROVE m * Dearest <= n * Dearest /\ n * Dearest \in Nat
  <2>1. PICK k \in Nat : n = m + k
    BY <1>4
  <2>2. n * Dearest = m * Dearest + k * Dearest /\ k * Dearest \in Nat
    BY <1>1, <2>1
  <2> QED BY <1>2, <2>2
<1>5. \A n \in Nat : n >= m /\ ~Exceeds(u, m) => ~Exceeds(u, n)
  BY <1>1, <1>2, <1>4 DEF Exceeds
<1>6. \A v \in Int : v <= u /\ ~Exceeds(u, m) => ~Exceeds(v, m)
  BY <1>1, <1>2 DEF Exceeds
<1>7. \A v \in Units : ~Exceeds(u, m) => ~Exceeds(u + v, m + 1)
  BY <1>1, <1>2, <1>3 DEF Exceeds
<1>8. u <= Limit => ~Exceeds(u, m)
  BY <1>1, <1>2 DEF Exceeds
<1> QED BY <1>5, <1>6, <1>7, <1>8

LEMMA GrantedTyped ==
  ASSUME QuotaInv
  PROVE  Granted \in SUBSET Servers /\ \A t \in Granted : metered[t].units \in Units /\ metered[t].units \in Nat
BY MeteredAssumption DEF QuotaInv, WellRead, Granted

LEMMA UsageTyped == IsFiniteSet(Charged) => Usage \in Nat
BY FS_CardinalityType DEF Usage

\* Entries that are settled or leave the period charge no more than before.
LEMMA ChargesShrink ==
  ASSUME IsFiniteSet(Charged), Charged' \subseteq Charged
  PROVE  IsFiniteSet(Charged') /\ Usage' <= Usage
<1>1. Charged' \in SUBSET Charged
  OBVIOUS
<1> QED BY <1>1, FS_Subset DEF Usage

\* A step that charges and grants nothing: at most it ends a granted call.
LEMMA OverrunOf ==
  ASSUME HasBound, OverrunInv, QuotaInv', Charged' \subseteq Charged,
         Granted' \subseteq Granted, \A t \in Granted' : metered'[t] = metered[t]
  PROVE  OverrunInv'
<1>1. IsFiniteSet(Charged') /\ Usage' <= Usage /\ Usage \in Nat /\ Usage' \in Nat
  <2>1. IsFiniteSet(Charged') /\ Usage' <= Usage
    BY ChargesShrink DEF OverrunInv
  <2> QED BY <2>1, UsageTyped, FS_CardinalityType DEF OverrunInv, Usage
<1>2. ~Exceeds(Usage', Cardinality(Servers) - 1)
  <2>1. Cardinality(Servers) - 1 \in Nat
    BY FewServers
  <2> QED BY <1>1, <2>1, OneMore DEF OverrunInv
<1>3. ASSUME Granted' # {}
      PROVE  \E t \in Granted' :
               ~Exceeds(Usage' + metered'[t].units, Cardinality(Servers \ Granted'))
  <2>1. PICK t \in Granted : ~Exceeds(Usage + metered[t].units, Cardinality(Servers \ Granted))
    BY <1>3 DEF OverrunInv
  <2>2. /\ Granted \in SUBSET Servers /\ Granted' \in SUBSET Granted
        /\ \A s \in Granted : metered[s].units \in Units /\ metered[s].units \in Nat
    BY GrantedTyped DEF OverrunInv
  <2> DEFINE m == Cardinality(Servers \ Granted)
             n == Cardinality(Servers \ Granted')
  <2>3. m \in Nat /\ n \in Nat /\ m <= n
    BY <2>2, OthersCount
  <2>4. CASE t \in Granted'
    <3>1. metered'[t].units = metered[t].units /\ metered[t].units \in Nat
      BY <2>2, <2>4
    <3>2. ~Exceeds(Usage' + metered[t].units, m)
      BY <1>1, <2>1, <2>3, <3>1, OneMore
    <3>3. ~Exceeds(Usage' + metered[t].units, n)
      BY <1>1, <2>3, <3>1, <3>2, OneMore
    <3> QED BY <2>4, <3>1, <3>3
  <2>5. CASE t \notin Granted'
    <3>1. PICK s \in Granted' : TRUE
      BY <1>3
    <3>2. metered'[s].units = metered[s].units /\ metered[s].units \in Units
          /\ metered[s].units \in Nat /\ metered[t].units \in Nat
      BY <2>2, <3>1
    <3>3. m + 1 <= n
      <4>1. Cardinality(Servers \ (Granted \ {t})) = m + 1
        BY <2>2, OthersCount
      <4>2. Granted \ {t} \in SUBSET Servers /\ Granted' \in SUBSET (Granted \ {t})
        BY <2>2, <2>5
      <4>3. Cardinality(Servers \ (Granted \ {t})) <= n
        BY <4>2, OthersCount
      <4> QED BY <4>1, <4>3
    <3>4. ~Exceeds(Usage', m)
      BY <1>1, <2>1, <2>3, <3>2, OneMore
    <3>5. ~Exceeds(Usage' + metered[s].units, m + 1)
      BY <1>1, <2>3, <3>2, <3>4, OneMore
    <3>6. ~Exceeds(Usage' + metered[s].units, n)
      BY <1>1, <2>3, <3>2, <3>3, <3>5, OneMore
    <3> QED BY <3>1, <3>2, <3>6
  <2> QED BY <2>4, <2>5
<1> QED BY <1>1, <1>2, <1>3 DEF OverrunInv

\* A call finds that there is room for it.
LEMMA OverrunOfGrant ==
  ASSUME HasBound, OverrunInv, QuotaInv', Charged' = Charged, NEW t \in Servers,
         Granted' = Granted \union {t}, metered'[t].units <= Limit - Usage
  PROVE  OverrunInv'
<1>1. IsFiniteSet(Charged') /\ Usage' = Usage /\ Usage \in Nat
  BY UsageTyped DEF OverrunInv, Usage
<1>2. ~Exceeds(Usage', Cardinality(Servers) - 1)
  BY <1>1 DEF OverrunInv, Exceeds
<1> DEFINE n == Cardinality(Servers \ Granted')
           u == metered'[t].units
<1>3. n \in Nat
  <2>1. Granted' \in SUBSET Servers
    BY DEF Granted
  <2> QED BY <2>1, OthersCount
<1>4. u \in Nat
  <2>1. \A s \in Granted' : metered'[s].units \in Nat
    BY MeteredAssumption DEF QuotaInv, WellRead, Granted
  <2> QED BY <2>1
<1>5. ~Exceeds(Usage' + u, n)
  <2>1. Usage' + u \in Int /\ Usage' + u <= Limit
    BY <1>1, <1>4, MeteredAssumption
  <2> HIDE DEF u, n
  <2> QED BY <1>3, <2>1, OneMore
<1> QED BY <1>1, <1>2, <1>5 DEF OverrunInv

\* A granted call saves what it may use.
LEMMA OverrunOfSave ==
  ASSUME HasBound, OverrunInv, QuotaInv', NEW t \in Granted, Granted' = Granted \ {t},
         \A s \in Granted' : metered'[s] = metered[s],
         IsFiniteSet(Charged'), Usage' = Usage + metered[t].units
  PROVE  OverrunInv'
<1> DEFINE u == metered[t].units
           m == Cardinality(Servers \ Granted)
           n == Cardinality(Servers \ Granted')
<1>1. /\ Granted \in SUBSET Servers
      /\ \A s \in Granted : metered[s].units \in Units /\ metered[s].units \in Nat
  BY GrantedTyped DEF OverrunInv
<1>2. Usage \in Nat /\ u \in Nat /\ u \in Units /\ Usage' = Usage + u
  BY <1>1, UsageTyped DEF OverrunInv
<1>3. m \in Nat /\ n = m + 1 /\ m <= Cardinality(Servers) - 1 /\ Cardinality(Servers) - 1 \in Nat
  BY <1>1, OthersCount, FewServers
<1>4. PICK s \in Granted : ~Exceeds(Usage + metered[s].units, m)
  BY DEF OverrunInv
\* The last of the granted calls saves, or another one stays granted.
<1>5. CASE s = t
  <2>1. ~Exceeds(Usage', m)
    BY <1>2, <1>4, <1>5
  <2>2. ~Exceeds(Usage', Cardinality(Servers) - 1)
    BY <1>2, <1>3, <2>1, OneMore
  <2>3. ASSUME NEW r \in Granted' PROVE ~Exceeds(Usage' + metered'[r].units, n)
    <3>1. metered'[r].units = metered[r].units /\ metered[r].units \in Units
      BY <1>1, <2>3
    <3> QED BY <1>2, <1>3, <2>1, <3>1, OneMore
  <2> QED BY <2>2, <2>3 DEF OverrunInv
<1>6. CASE s # t
  <2> DEFINE v == metered[s].units
  <2>1. v \in Nat /\ v \in Units /\ metered'[s].units = v /\ s \in Granted'
    BY <1>1, <1>6
  <2>2. ~Exceeds((Usage + v) + u, m + 1)
    BY <1>2, <1>3, <1>4, <2>1, OneMore
  <2>3. (Usage + v) + u = Usage' + v
    BY <1>2, <2>1
  <2>4. ~Exceeds(Usage' + v, n)
    BY <1>3, <2>2, <2>3
  <2>5. ~Exceeds(Usage', Cardinality(Servers) - 1)
    <3>1. m + 1 <= Cardinality(Servers) - 1
      <4>1. Granted' # {} /\ Granted' \in SUBSET Servers
        BY <1>1, <2>1
      <4> QED BY <1>3, <4>1, OthersCount
    <3>2. ~Exceeds(Usage', n)
      BY <1>2, <1>3, <2>1, <2>4, OneMore
    <3> QED BY <1>2, <1>3, <3>1, <3>2, OneMore
  <2> QED BY <2>1, <2>4, <2>5 DEF OverrunInv
<1> QED BY <1>5, <1>6

\* A call that a step leaves outside "reserve" is not granted after it.
LEMMA GrantedElsewhere ==
  ASSUME QuotaInv, NEW t \in Servers, NEW x, metered' = [metered EXCEPT ![t] = x],
         x.stage # "reserve"
  PROVE  Granted' = Granted \ {t} /\ \A s \in Granted' : metered'[s] = metered[s]
<1>1. metered'[t] = x /\ \A s \in Servers \ {t} : metered'[s] = metered[s]
  BY DEF QuotaInv, MeteredTypes
<1> QED BY <1>1 DEF Granted

LEMMA SameLedger == UNCHANGED ledger => Charged' = Charged
BY DEF Charged, Counted

\* Steps of a call that do not touch the ledger, and grant nothing.
LEMMA OverrunOfCall ==
  ASSUME HasBound, OverrunInv, QuotaInv', NEW t \in Servers, NEW x,
         metered' = [metered EXCEPT ![t] = x], x.stage # "reserve", Charged' \subseteq Charged
  PROVE  OverrunInv'
<1>1. QuotaInv
  BY DEF OverrunInv
<1>2. Granted' = Granted \ {t} /\ \A s \in Granted' : metered'[s] = metered[s]
  BY <1>1, GrantedElsewhere
<1>3. Granted' \subseteq Granted
  BY <1>2
<1> QED BY <1>2, <1>3, OverrunOf

LEMMA OverrunOfCheck ==
  ASSUME HasBound, OverrunInv, QuotaInv', NEW t \in Servers, NEW kind, NEW units, NEW read,
         metered[t].stage \in {"idle", "check"}, Check(t, kind, units, read), UNCHANGED ledger
  PROVE  OverrunInv'
<1> DEFINE x == [NotMetered EXCEPT !.kind = kind, !.units = units, !.read = read,
                   !.stage = IF units = 0 THEN "act" ELSE "reserve",
                   !.granted = units <= Limit - Usage]
<1>1. QuotaInv /\ Charged' = Charged
  BY SameLedger DEF OverrunInv
<1>2. metered' = [metered EXCEPT ![t] = x]
  BY DEF Check
<1>3. /\ x.units = units /\ x.stage = (IF units = 0 THEN "act" ELSE "reserve")
      /\ x.granted = (units <= Limit - Usage)
  BY DEF NotMetered
<1> HIDE DEF x
<1>4. metered'[t] = x /\ \A s \in Servers \ {t} : metered'[s] = metered[s]
  BY <1>1, <1>2 DEF QuotaInv, MeteredTypes
<1>5. CASE x.stage = "reserve" /\ x.granted
  <2>1. Granted' = Granted \union {t}
    BY <1>4, <1>5 DEF Granted
  <2>2. metered'[t].units <= Limit - Usage
    BY <1>3, <1>4, <1>5
  <2> QED BY <1>1, <2>1, <2>2, OverrunOfGrant
<1>6. CASE ~(x.stage = "reserve" /\ x.granted)
  <2>1. Granted' = Granted
    BY <1>4, <1>6 DEF Granted
  <2>2. \A s \in Granted' : metered'[s] = metered[s]
    BY <1>4, <2>1 DEF Granted
  <2> QED BY <1>1, <2>1, <2>2, OverrunOf
<1> QED BY <1>5, <1>6

\* What a new entry adds to the charges.
LEMMA EntryCharges ==
  ASSUME QuotaInv, NEW e \in EntryType, ledger' = Append(ledger, e),
         NEW n, n = Len(ledger) + 1
  PROVE  /\ e.current /\ e.status = "reserved" => Charged' = Charged \union ({n} \X (1 .. e.units))
         /\ e.status = "rejected" => Charged' = Charged
         /\ \A x \in Charged : x \notin {n} \X (1 .. e.units)
<1>1. /\ ledger \in Seq(EntryType) /\ Len(ledger) \in Nat
      /\ DOMAIN ledger = 1 .. Len(ledger)
  BY DEF QuotaInv, MeteredTypes
<1>2. /\ DOMAIN ledger' = DOMAIN ledger \union {n} /\ n \notin DOMAIN ledger
      /\ ledger'[n] = e /\ \A i \in DOMAIN ledger : ledger'[i] = ledger[i]
  BY <1>1
<1> DEFINE open == Counted({"committed", "reserved"})
<1>3. e.current /\ e.status = "reserved" => open' = open \union {n}
  BY <1>2 DEF Counted
<1>4. e.status = "rejected" => open' = open
  BY <1>2 DEF Counted
<1>5. open \subseteq DOMAIN ledger
  BY DEF Counted
<1>6. /\ Charged = UNION {{i} \X (1 .. ledger[i].units) : i \in open}
      /\ Charged' = UNION {{i} \X (1 .. ledger'[i].units) : i \in open'}
  BY DEF Charged
<1> HIDE DEF open
<1>7. e.current /\ e.status = "reserved" => Charged' = Charged \union ({n} \X (1 .. e.units))
  BY <1>2, <1>3, <1>5, <1>6
<1>8. e.status = "rejected" => Charged' = Charged
  BY <1>2, <1>4, <1>5, <1>6
<1>9. \A x \in Charged : x \notin {n} \X (1 .. e.units)
  BY <1>2, <1>5, <1>6
<1> QED BY <1>7, <1>8, <1>9

LEMMA OverrunOfSaveEntry ==
  ASSUME HasBound, OverrunInv, QuotaInv', NEW t \in Servers, SaveEntry(t)
  PROVE  OverrunInv'
<1> DEFINE c == metered[t]
           n == Len(ledger) + 1
           x == IF c.granted THEN [c EXCEPT !.stage = "act", !.entry = n] ELSE NotMetered
<1>1. PICK e :
        /\ e = [units |-> c.units, current |-> TRUE,
                status |-> IF c.granted THEN "reserved" ELSE "rejected"]
        /\ ledger' = Append(ledger, e) /\ metered' = [metered EXCEPT ![t] = x]
  BY DEF SaveEntry
<1>2. QuotaInv /\ c \in MeteredType /\ c.stage = "reserve"
  BY DEF OverrunInv, QuotaInv, MeteredTypes, SaveEntry
<1>3. c.units \in Units /\ c.units \in Nat
  BY <1>2, MeteredAssumption DEF QuotaInv, WellRead
<1>4. e \in EntryType
  BY <1>1, <1>3 DEF EntryType
<1>5. /\ e.current /\ e.status = "reserved" => Charged' = Charged \union ({n} \X (1 .. e.units))
      /\ e.status = "rejected" => Charged' = Charged
      /\ \A y \in Charged : y \notin {n} \X (1 .. e.units)
  BY <1>1, <1>2, <1>4, EntryCharges
<1>6. x.stage # "reserve"
  <2>1. CASE c.granted
    <3>1. x = [c EXCEPT !.stage = "act", !.entry = n]
      BY <2>1
    <3> HIDE DEF c, n, x
    <3> QED BY <1>2, <3>1 DEF MeteredType
  <2>2. CASE ~c.granted
    BY <2>2, NotMeteredType
  <2> QED BY <2>1, <2>2
<1>7. Granted' = Granted \ {t} /\ \A s \in Granted' : metered'[s] = metered[s]
  <2> HIDE DEF x
  <2> QED BY <1>1, <1>2, <1>6, GrantedElsewhere
<1>8. CASE c.granted
  <2>1. e.current /\ e.status = "reserved" /\ e.units = c.units
    BY <1>1, <1>8
  <2> DEFINE new == {n} \X (1 .. c.units)
  <2>2. Charged' = Charged \union new /\ Charged \cap new = {}
    BY <1>5, <2>1
  <2>3. IsFiniteSet(new) /\ Cardinality(new) = c.units
    <3>1. IsFiniteSet({n}) /\ Cardinality({n}) = 1
      BY FS_Singleton
    <3>u. \A u \in Nat : IsFiniteSet(1 .. u) /\ Cardinality(1 .. u) = u
      <4> SUFFICES ASSUME NEW u \in Nat
                   PROVE  IsFiniteSet(1 .. u) /\ Cardinality(1 .. u) = u
        OBVIOUS
      <4>1. IsFiniteSet(1 .. u) /\ Cardinality(1 .. u) = IF 1 > u THEN 0 ELSE u - 1 + 1
        BY FS_Interval
      <4> QED BY <4>1
    <3> HIDE DEF c, n
    <3>2. IsFiniteSet(1 .. c.units) /\ Cardinality(1 .. c.units) = c.units
      BY <1>3, <3>u
    <3>3. /\ IsFiniteSet({n} \X (1 .. c.units))
          /\ Cardinality({n} \X (1 .. c.units)) = Cardinality({n}) * Cardinality(1 .. c.units)
      <4> DEFINE S == {n}
                 T == 1 .. c.units
      <4>1. IsFiniteSet(S) /\ IsFiniteSet(T)
        BY <3>1, <3>2
      <4> HIDE DEF S, T
      <4>2. IsFiniteSet(S \X T) /\ Cardinality(S \X T) = Cardinality(S) * Cardinality(T)
        BY <4>1, FS_Product
      <4> QED BY <4>2 DEF S, T
    <3>4. Cardinality({n}) * Cardinality(1 .. c.units) = c.units
      BY <1>3, <3>1, <3>2
    <3> QED BY <3>3, <3>4
  <2> HIDE DEF new
  <2>4. IsFiniteSet(Charged) /\ Cardinality(Charged) \in Nat
    BY FS_CardinalityType DEF OverrunInv
  <2>5. IsFiniteSet(Charged') /\ Cardinality(Charged') = Cardinality(Charged) + c.units
    <3>1. IsFiniteSet(Charged \union new)
          /\ Cardinality(Charged \union new) = Cardinality(Charged) + Cardinality(new) - Cardinality({})
      BY <2>2, <2>3, <2>4, FS_Union
    <3>2. Cardinality({}) = 0
      BY FS_EmptySet
    <3> QED BY <1>3, <2>2, <2>3, <2>4, <3>1, <3>2
  <2>6. t \in Granted
    BY <1>2, <1>8 DEF Granted
  <2>7. Usage' = Usage + metered[t].units
    BY <2>5 DEF Usage
  <2> QED BY <1>7, <2>5, <2>6, <2>7, OverrunOfSave
<1>9. CASE ~c.granted
  <2>1. Charged' = Charged
    BY <1>1, <1>5, <1>9
  <2>2. Charged' \subseteq Charged /\ Granted' \subseteq Granted
    BY <1>7, <2>1
  <2> QED BY <1>7, <2>2, OverrunOf
<1> QED BY <1>8, <1>9

\* An entry that is settled or leaves the period is charged at most as before.
LEMMA EntryUncharged ==
  ASSUME QuotaInv, NEW k \in 1 .. Len(ledger), NEW e \in EntryType,
         ledger' = [ledger EXCEPT ![k] = e], e.units = ledger[k].units,
         e.current /\ e.status \in {"committed", "reserved"} =>
           ledger[k].current /\ ledger[k].status \in {"committed", "reserved"}
  PROVE  Charged' \subseteq Charged
<1>1. DOMAIN ledger' = DOMAIN ledger
  BY DEF QuotaInv, MeteredTypes
<1>2. ledger'[k] = e /\ \A j \in 1 .. Len(ledger) \ {k} : ledger'[j] = ledger[j]
  BY EntryChanges
<1>3. DOMAIN ledger = 1 .. Len(ledger)
  BY DEF QuotaInv, MeteredTypes
<1> DEFINE open == Counted({"committed", "reserved"})
<1>4. \A j \in open' : j \in open /\ ledger'[j].units = ledger[j].units
  BY <1>1, <1>2, <1>3 DEF Counted
<1>5. /\ Charged = UNION {{i} \X (1 .. ledger[i].units) : i \in open}
      /\ Charged' = UNION {{i} \X (1 .. ledger'[i].units) : i \in open'}
  BY DEF Charged
<1> HIDE DEF open
<1> QED BY <1>4, <1>5

LEMMA OverrunOfTransition ==
  ASSUME HasBound, OverrunInv, QuotaInv', NEW t \in Servers,
         metered[t].stage \in {"commit", "release"},
         NEW status \in {"committed", "released"}, Transition(t, status),
         NEW x, metered' = [metered EXCEPT ![t] = x], x.stage # "reserve"
  PROVE  OverrunInv'
<1> DEFINE k == metered[t].entry
           e == [ledger[k] EXCEPT !.status = status]
<1>1. QuotaInv /\ k \in 1 .. Len(ledger) /\ ledger[k].status = "reserved"
  BY DEF OverrunInv, QuotaInv, MeteredTypes, MeteredType, Holding
<1>2. ledger[k] \in EntryType
  BY <1>1 DEF QuotaInv, MeteredTypes
<1>3. ledger' = [ledger EXCEPT ![k] = e]
  BY DEF Transition
<1> HIDE DEF k
<1>4. e \in EntryType /\ e.units = ledger[k].units /\ e.current = ledger[k].current
  BY <1>2 DEF EntryType
<1> HIDE DEF e
<1>5. Charged' \subseteq Charged
  BY <1>1, <1>3, <1>4, EntryUncharged
<1> QED BY <1>5, OverrunOfCall

LEMMA OverrunOfAge ==
  ASSUME HasBound, OverrunInv, QuotaInv', NEW k \in DOMAIN ledger, Age(k)
  PROVE  OverrunInv'
<1> DEFINE e == [ledger[k] EXCEPT !.current = FALSE]
<1>1. QuotaInv /\ k \in 1 .. Len(ledger)
  BY DEF OverrunInv, QuotaInv, MeteredTypes
<1>2. ledger[k] \in EntryType
  BY <1>1 DEF QuotaInv, MeteredTypes
<1>3. ledger' = [ledger EXCEPT ![k] = e] /\ UNCHANGED metered
  BY DEF Age
<1>4. e \in EntryType /\ e.units = ledger[k].units /\ e.current = FALSE
  BY <1>2 DEF EntryType
<1> HIDE DEF e
<1>5. Charged' \subseteq Charged
  BY <1>1, <1>3, <1>4, EntryUncharged
<1>6. Granted' \subseteq Granted /\ \A s \in Granted' : metered'[s] = metered[s]
  BY <1>3 DEF Granted
<1> QED BY <1>5, <1>6, OverrunOf

LEMMA OverrunStep ==
  ASSUME HasBound, OverrunInv, [MeteredNext]_meteredVars
  PROVE  OverrunInv'
<1>1. QuotaInv /\ QuotaInv'
  BY QuotaStep DEF OverrunInv
<1>2. ASSUME NEW t \in Servers, NEW units \in Units, CallTool(t, units) \/ ReadLease(t, units)
      PROVE  OverrunInv'
  <2>1. CASE CallTool(t, units)
    BY <1>1, <2>1, OverrunOfCheck DEF CallTool
  <2>2. CASE ReadLease(t, units)
    <3> DEFINE x == [NotMetered EXCEPT !.kind = "task", !.stage = "check", !.units = units,
                                       !.read = <<peerLease>>]
    <3>1. metered' = [metered EXCEPT ![t] = x] /\ UNCHANGED ledger
      BY <2>2 DEF ReadLease
    <3>2. x.stage = "check"
      BY DEF NotMetered
    <3> HIDE DEF x
    <3>3. x.stage # "reserve" /\ Charged' \subseteq Charged
      BY <3>1, <3>2, SameLedger
    <3> QED BY <1>1, <3>1, <3>3, OverrunOfCall
  <2> QED BY <1>2, <2>1, <2>2
<1>3. ASSUME NEW t \in Servers, CheckTask(t) PROVE OverrunInv'
  <2>1. metered[t].stage = "check" /\ UNCHANGED ledger
        /\ Check(t, "task", metered[t].units, metered[t].read)
    BY <1>3 DEF CheckTask
  <2> QED BY <1>1, <2>1, OverrunOfCheck
<1>4. ASSUME NEW t \in Servers, SaveEntry(t) PROVE OverrunInv'
  BY <1>1, <1>4, OverrunOfSaveEntry
\* The call moves on or ends, and the ledger stays.
<1>5. ASSUME NEW t \in Servers, UNCHANGED ledger,
             MeteredEnds(t) \/ \E stage \in {"commit", "count", "release"} : MeteredGoes(t, stage)
      PROVE  OverrunInv'
  <2>1. Charged' \subseteq Charged
    BY <1>5, SameLedger
  <2>2. CASE MeteredEnds(t)
    BY <1>1, <2>1, <2>2, NotMeteredType, OverrunOfCall DEF MeteredEnds
  <2>3. ASSUME NEW stage \in {"commit", "count", "release"}, MeteredGoes(t, stage)
        PROVE  OverrunInv'
    <3> DEFINE x == [metered[t] EXCEPT !.stage = stage]
    <3>1. metered' = [metered EXCEPT ![t] = x]
      BY <2>3 DEF MeteredGoes
    <3>2. x.stage = stage
      BY <1>1, QuotaCallGoes
    <3> HIDE DEF x
    <3> QED BY <1>1, <2>1, <3>1, <3>2, OverrunOfCall
  <2> QED BY <1>5, <2>2, <2>3
<1>6. ASSUME NEW t \in Servers, Succeed(t) \/ Refuse(t) \/ CountTask(t) \/ KillServer(t)
      PROVE  OverrunInv'
  <2>1. UNCHANGED ledger
    BY <1>6 DEF Succeed, Refuse, CountTask, KillServer
  <2>2. MeteredEnds(t) \/ \E stage \in {"commit", "count", "release"} : MeteredGoes(t, stage)
    BY <1>6 DEF Succeed, Refuse, CountTask, KillServer
  <2> QED BY <1>5, <2>1, <2>2
<1>7. ASSUME NEW t \in Servers, CommitEntry(t) PROVE OverrunInv'
  <2> DEFINE x == [metered[t] EXCEPT !.stage = "count"]
  <2>1. /\ metered[t].stage = "commit" /\ Transition(t, "committed")
        /\ metered' = [metered EXCEPT ![t] = x]
    BY <1>7 DEF CommitEntry, MeteredGoes
  <2>2. x.stage = "count"
    BY <1>1, QuotaCallGoes
  <2> HIDE DEF x
  <2> QED BY <1>1, <2>1, <2>2, OverrunOfTransition
<1>8. ASSUME NEW t \in Servers, ReleaseEntry(t) PROVE OverrunInv'
  <2>1. /\ metered[t].stage = "release" /\ Transition(t, "released")
        /\ metered' = [metered EXCEPT ![t] = NotMetered]
    BY <1>8 DEF ReleaseEntry, MeteredEnds
  <2> QED BY <1>1, <2>1, NotMeteredType, OverrunOfTransition
<1>9. CASE EndLease \/ UNCHANGED meteredVars
  <2>1. UNCHANGED <<ledger, metered>>
    BY <1>9 DEF EndLease, meteredVars
  <2>2. Charged' \subseteq Charged /\ Granted' \subseteq Granted
        /\ \A s \in Granted' : metered'[s] = metered[s]
    BY <2>1, SameLedger DEF Granted
  <2> QED BY <1>1, <2>2, OverrunOf
<1>10. ASSUME NEW k \in DOMAIN ledger, Age(k) PROVE OverrunInv'
  BY <1>1, <1>10, OverrunOfAge
<1> QED BY <1>2, <1>3, <1>4, <1>6, <1>7, <1>8, <1>9, <1>10 DEF MeteredNext

LEMMA OverrunInitially == HasBound /\ MeteredInit => OverrunInv
<1> SUFFICES ASSUME HasBound, MeteredInit PROVE OverrunInv
  OBVIOUS
<1>1. QuotaInv
  BY QuotaInitially
<1>2. Charged = {}
  BY DEF MeteredInit, Charged, Counted
<1>3. IsFiniteSet(Charged) /\ Usage = 0
  BY <1>2, FS_EmptySet DEF Usage
<1>4. Granted = {}
  BY DEF MeteredInit, Granted, NotMetered
<1>5. ~Exceeds(Usage, Cardinality(Servers) - 1)
  BY <1>3, FewServers, OneMore, MeteredAssumption
<1> QED BY <1>1, <1>3, <1>4, <1>5 DEF OverrunInv

\* However many calls compare before any of them has saved, what they charge
\* together exceeds the limit of the period by at most the highest price for
\* each call but one.
THEOREM OverrunsAreBounded ==
  ASSUME HasBound
  PROVE  MeteredSpec => []OverrunIsBounded
<1>1. OverrunInv => OverrunIsBounded
  <2> SUFFICES ASSUME OverrunInv
               PROVE  Usage <= Limit + (Cardinality(Servers) - 1) * Dearest
    BY DEF OverrunIsBounded, Dearest
  <2>1. Usage \in Nat /\ Cardinality(Servers) - 1 \in Nat /\ Dearest \in Nat /\ Limit \in Nat
    BY UsageTyped, FewServers, DearestIs, MeteredAssumption DEF OverrunInv
  <2>2. (Cardinality(Servers) - 1) * Dearest \in Nat
    BY <2>1
  <2> QED BY <2>1, <2>2 DEF OverrunInv, Exceeds
<1>2. MeteredInit => OverrunInv
  BY OverrunInitially
<1>3. OverrunInv /\ [MeteredNext]_meteredVars => OverrunInv'
  BY OverrunStep
<1> QED BY <1>1, <1>2, <1>3, PTL DEF MeteredSpec

-----------------------------------------------------------------------------
(* The session timeline.  An append that is past its lookup shares its key *)
(* with nothing that had ended when it began, and one that has its number  *)
(* is listed after the events of its session that were there.  What the    *)
(* numbers are rests on counting: the repository counts at most as many    *)
(* events as there are, the transactional stores exactly as many.          *)

AppendType == [stage : {"idle", "number", "save", "insert", "commit", "done", "failed"},
               number : Nat, builtAt : Nat,
               result : {NoResult} \union {{e} : e \in Appends}]
Sessions == {SessionOf[a] : a \in Appends}
SameKey(a, b) == KeyOf[a] = KeyOf[b] /\ KeyOf[a] # NoKey
Size(s) == Cardinality(OfSession(s))

TimelineTypes ==
    /\ store \in {"repository", "sqlite", "postgres"}
    /\ events \subseteq Appends /\ IsFiniteSet(events)
    /\ append \in [Appends -> AppendType]
    /\ allocated \in [Sessions -> Nat]
    /\ built \in Nat
    /\ earlier \in [Appends -> SUBSET Appends]

\* What an append returns is stored, and is its own event or one with its key.
ResultOf(a) ==
    /\ append[a].stage \in
         CASE store = "repository" -> {"idle", "number", "save", "done", "failed"}
           [] store = "sqlite" -> {"idle", "done", "failed"}
           [] OTHER -> {"idle", "number", "insert", "commit", "done", "failed"}
    /\ append[a].stage = "done" =>
         \E e \in events : append[a].result = {e} /\ (e = a \/ SameKey(a, e))
    /\ a \in events => append[a].stage = "done"
    /\ append[a].builtAt <= built

PastLookup(b) == b \in events \/ append[b].stage \in {"number", "save", "insert", "commit"}
HasNumber(b) == b \in events \/ append[b].stage \in {"save", "insert", "commit"}

\* What had ended when an append began.
EarlierThan(b) ==
    /\ earlier[b] \subseteq Returned
    /\ PastLookup(b) => \A a \in earlier[b] : ~SameKey(a, b)
    /\ HasNumber(b) =>
         \A a \in earlier[b] : \A e \in append[a].result :
             SessionOf[e] = SessionOf[b] => Precedes(e, b)

Histories == \A a \in Appends : ResultOf(a) /\ EarlierThan(a)

\* The numbers of the repository.
CountsFit ==
    store = "repository" =>
        /\ \A e \in events : append[e].number <= Size(SessionOf[e]) /\ append[e].number <= Listed + 1
        /\ \A a \in Appends : append[a].stage = "save" =>
             append[a].number <= Size(SessionOf[a]) + 1 /\ append[a].number <= Listed + 1

\* The numbers of the transactional stores; a transaction of PostgreSQL that
\* has its number locks its session.
Numbers(s) == {append[e].number : e \in OfSession(s)}
Gapless == store # "repository" => \A s \in Sessions : Numbers(s) = 1 .. Size(s)
Locked ==
    store = "postgres" =>
        /\ \A s \in Sessions : allocated[s] = Size(s)
        /\ \A b \in Appends : Transacting(b) => append[b].number = allocated[SessionOf[b]] + 1
        /\ \A b, c \in Appends :
             Transacting(b) /\ Transacting(c) /\ SessionOf[b] = SessionOf[c] => b = c

\* One event per key, and a transaction past its insert is alone with its key.
KeysOnce ==
    store # "repository" =>
        /\ \A e, f \in events : SameKey(e, f) => e = f
        /\ \A a \in Appends : append[a].stage = "commit" =>
             /\ \A e \in events : ~SameKey(e, a)
             /\ \A b \in Appends \ {a} : append[b].stage = "commit" => ~SameKey(a, b)

TimelineInv ==
    TimelineTypes /\ Histories /\ CountsFit /\ Gapless /\ Locked /\ KeysOnce

LEMMA SizeType ==
  ASSUME TimelineTypes, NEW s
  PROVE  Size(s) \in Nat /\ IsFiniteSet(OfSession(s)) /\ (Size(s) = 0 <=> OfSession(s) = {})
<1>1. OfSession(s) \subseteq events /\ IsFiniteSet(events)
  BY DEF OfSession, TimelineTypes
<1>2. IsFiniteSet(OfSession(s))
  BY <1>1, FS_Subset
<1> QED BY <1>2, FS_CardinalityType, FS_EmptySet DEF Size

LEMMA TimelineInitially == EventsInit => TimelineInv
<1> SUFFICES ASSUME EventsInit PROVE TimelineInv
  OBVIOUS
<1>1. NoAppend \in AppendType /\ NoAppend.stage = "idle" /\ NoAppend.builtAt = 0
  BY DEF NoAppend, AppendType
<1>2. append = [a \in Appends |-> NoAppend] /\ events = {} /\ built = 0
  BY DEF EventsInit
<1>3. TimelineTypes
  BY <1>1, <1>2, FS_EmptySet DEF TimelineTypes, EventsInit, Sessions
<1>4. ASSUME NEW a \in Appends PROVE ResultOf(a) /\ EarlierThan(a)
  <2>1. append[a] = NoAppend /\ earlier[a] = {}
    BY <1>2 DEF EventsInit
  <2>2. ResultOf(a)
    BY <1>1, <1>2, <1>3, <2>1 DEF ResultOf, TimelineTypes
  <2>3. EarlierThan(a)
    BY <2>1 DEF EarlierThan
  <2> QED BY <2>2, <2>3
<1>5. Histories
  BY <1>4 DEF Histories
<1>6. \A s : OfSession(s) = {} /\ Size(s) = 0
  BY <1>2, FS_EmptySet DEF OfSession, Size
<1>7. CountsFit
  BY <1>1, <1>2 DEF CountsFit
<1>8. Gapless
  BY <1>6 DEF Gapless, Numbers
<1>9. Locked
  BY <1>1, <1>2, <1>6 DEF Locked, Transacting, EventsInit, Sessions
<1>10. KeysOnce
  BY <1>1, <1>2 DEF KeysOnce
<1> QED BY <1>3, <1>5, <1>7, <1>8, <1>9, <1>10 DEF TimelineInv

\* One append, which has not returned, becomes x; no event but its own is new.
Moves(a, x) ==
    /\ x \in AppendType /\ append' = [append EXCEPT ![a] = x]
    /\ append[a].stage # "done"
    /\ store' = store
    /\ events' \in {events, events \union {a}}
    /\ built' \in {built, built + 1}
    /\ earlier' \in {earlier, [earlier EXCEPT ![a] = Returned]}

LEMMA Moved ==
  ASSUME TimelineInv, NEW a \in Appends, NEW x, Moves(a, x)
  PROVE  /\ a \notin events /\ a \notin Returned /\ append'[a] = x
         /\ \A b \in Appends \ {a} : append'[b] = append[b] /\ earlier'[b] = earlier[b]
         /\ \A e \in events : e \in Appends \ {a} /\ append'[e] = append[e]
<1>1. a \notin events /\ a \notin Returned
  BY DEF Moves, TimelineInv, Histories, ResultOf, Returned
<1>2. append'[a] = x /\ \A b \in Appends \ {a} : append'[b] = append[b]
  BY DEF Moves, TimelineInv, TimelineTypes
<1>3. \A b \in Appends \ {a} : earlier'[b] = earlier[b]
  BY DEF Moves, TimelineInv, TimelineTypes
<1>4. events \subseteq Appends
  BY DEF TimelineInv, TimelineTypes
<1> QED BY <1>1, <1>2, <1>3, <1>4

LEMMA MovedTypes ==
  ASSUME TimelineInv, NEW a \in Appends, NEW x, Moves(a, x), allocated' \in [Sessions -> Nat]
  PROVE  TimelineTypes'
<1>t. TimelineTypes
  BY DEF TimelineInv
<1>1. append' \in [Appends -> AppendType]
  BY <1>t DEF Moves, TimelineTypes
<1>2. built' \in Nat
  BY <1>t DEF Moves, TimelineTypes
<1>3. events' \subseteq Appends /\ IsFiniteSet(events')
  BY <1>t, FS_AddElement DEF Moves, TimelineTypes
<1>4. earlier' \in [Appends -> SUBSET Appends]
  BY <1>t DEF Moves, TimelineTypes, Returned
<1>5. store' \in {"repository", "sqlite", "postgres"}
  BY <1>t DEF Moves, TimelineTypes
<1> QED BY <1>1, <1>2, <1>3, <1>4, <1>5 DEF TimelineTypes, Sessions

\* What the other appends returned and found stays so.
LEMMA OthersKeep ==
  ASSUME TimelineInv, NEW a \in Appends, NEW x, Moves(a, x), NEW b \in Appends \ {a}
  PROVE  ResultOf(b)' /\ EarlierThan(b)'
<1>t. TimelineTypes /\ ResultOf(b) /\ EarlierThan(b)
  BY DEF TimelineInv, Histories
<1>1. append'[b] = append[b] /\ earlier'[b] = earlier[b]
      /\ (b \in events' <=> b \in events) /\ events \subseteq events' /\ store' = store
  BY Moved DEF Moves
<1>2. append[b].builtAt <= built'
  BY <1>t DEF ResultOf, Moves, TimelineTypes, AppendType
<1>3. ResultOf(b)'
  BY <1>t, <1>1, <1>2 DEF ResultOf, SameKey
<1>4. ASSUME NEW c \in earlier[b] PROVE c \in Appends \ {a} /\ append'[c] = append[c] /\ c \in Returned'
  BY <1>t, <1>4, Moved DEF EarlierThan, Returned
<1>5. ASSUME NEW c \in earlier[b], NEW e \in append[c].result
      PROVE  append'[e] = append[e]
  <2>1. c \in Returned /\ c \in Appends
    BY <1>t DEF EarlierThan, Returned
  <2>2. e \in events
    BY <2>1, <1>5 DEF TimelineInv, Histories, ResultOf, Returned
  <2> QED BY <2>2, Moved
<1>6. EarlierThan(b)'
  <2>1. PastLookup(b)' = PastLookup(b) /\ HasNumber(b)' = HasNumber(b)
    BY <1>1 DEF PastLookup, HasNumber
  <2>2. earlier'[b] \subseteq Returned'
    BY <1>1, <1>4
  <2>3. PastLookup(b)' => \A c \in earlier'[b] : ~SameKey(c, b)
    BY <1>t, <1>1, <2>1 DEF EarlierThan
  <2>4. ASSUME HasNumber(b)', NEW c \in earlier'[b], NEW e \in append'[c].result,
               SessionOf[e] = SessionOf[b]
        PROVE  Precedes(e, b)'
    <3>1. c \in earlier[b] /\ e \in append[c].result
      BY <1>1, <1>4, <2>4
    <3>2. Precedes(e, b)
      BY <1>t, <2>1, <2>4, <3>1 DEF EarlierThan
    <3> QED BY <1>1, <1>5, <3>1, <3>2 DEF Precedes
  <2> QED BY <2>2, <2>3, <2>4 DEF EarlierThan, SameKey
<1> QED BY <1>3, <1>6

\* What append a may become while it stores nothing.
Fits(a, x) ==
    /\ x.stage = "save" => x.number <= Size(SessionOf[a]) + 1 /\ x.number <= Listed + 1
    /\ x.stage \in {"insert", "commit"} =>
         /\ x.number = allocated[SessionOf[a]] + 1
         /\ \A b \in Appends \ {a} : Transacting(b) => SessionOf[b] # SessionOf[a]
    /\ x.stage = "commit" =>
         /\ \A e \in events : ~SameKey(e, a)
         /\ \A b \in Appends \ {a} : append[b].stage = "commit" => ~SameKey(a, b)

LEMMA StepWithoutEvent ==
  ASSUME TimelineInv, NEW a \in Appends, NEW x, Moves(a, x), Fits(a, x),
         UNCHANGED <<events, allocated>>, ResultOf(a)', EarlierThan(a)'
  PROVE  TimelineInv'
<1>1. TimelineTypes'
  BY MovedTypes DEF TimelineInv, TimelineTypes
<1>2. Histories'
  BY OthersKeep DEF Histories
<1>m. /\ a \notin events /\ append'[a] = x /\ store' = store
      /\ \A b \in Appends \ {a} : append'[b] = append[b]
      /\ \A e \in events : e \in Appends \ {a} /\ append'[e] = append[e]
  BY Moved DEF Moves
<1>3. ASSUME NEW s PROVE OfSession(s)' = OfSession(s) /\ Size(s)' = Size(s) /\ Numbers(s)' = Numbers(s)
  <2>1. OfSession(s)' = OfSession(s)
    BY DEF OfSession
  <2>2. \A e \in OfSession(s) : append'[e].number = append[e].number
    BY <1>m DEF OfSession
  <2> QED BY <2>1, <2>2 DEF Size, Numbers
<1>4. CountsFit'
  BY <1>m, <1>3 DEF TimelineInv, CountsFit, Fits
<1>5. Gapless'
  BY <1>m, <1>3 DEF TimelineInv, Gapless, Sessions
<1>6. Locked'
  <2> SUFFICES ASSUME store = "postgres" PROVE Locked'
    BY <1>m DEF Locked
  <2>1. \A b \in Appends \ {a} : Transacting(b)' = Transacting(b)
    BY <1>m DEF Transacting
  <2>2. Transacting(a)' => x.stage \in {"insert", "commit"}
    BY <1>m DEF Transacting
  <2> QED BY <1>m, <1>3, <2>1, <2>2 DEF TimelineInv, Locked, Fits, Sessions
<1>7. KeysOnce'
  BY <1>m DEF TimelineInv, KeysOnce, Fits, SameKey
<1> QED BY <1>1, <1>2, <1>4, <1>5, <1>6, <1>7 DEF TimelineInv

\* The session of a new event is one event longer, with the number of that event.
LEMMA SessionGrows ==
  ASSUME TimelineInv, NEW a \in Appends, NEW x, Moves(a, x), events' = events \union {a}
  PROVE  /\ Size(SessionOf[a])' = Size(SessionOf[a]) + 1
         /\ Numbers(SessionOf[a])' = Numbers(SessionOf[a]) \union {x.number}
         /\ \A s : s # SessionOf[a] => Size(s)' = Size(s) /\ Numbers(s)' = Numbers(s)
<1>m. /\ a \notin events /\ append'[a] = x
      /\ \A e \in events : e \in Appends \ {a} /\ append'[e] = append[e]
  BY Moved
<1> DEFINE S == OfSession(SessionOf[a])
<1>1. OfSession(SessionOf[a])' = S \union {a} /\ a \notin S
  BY <1>m DEF OfSession
<1>2. IsFiniteSet(S)
  BY SizeType DEF TimelineInv
<1>3. Size(SessionOf[a])' = Size(SessionOf[a]) + 1
  BY <1>1, <1>2, FS_AddElement DEF Size
<1>4. Numbers(SessionOf[a])' = Numbers(SessionOf[a]) \union {x.number}
  <2>1. \A e \in S : append'[e].number = append[e].number
    BY <1>m DEF OfSession
  <2> HIDE DEF S
  <2>2. Numbers(SessionOf[a])' = {append'[e].number : e \in S \union {a}}
    BY <1>1 DEF Numbers
  <2>3. Numbers(SessionOf[a]) = {append[e].number : e \in S}
    BY DEF Numbers, S
  <2> QED BY <1>m, <2>1, <2>2, <2>3
<1>5. ASSUME NEW s, s # SessionOf[a] PROVE Size(s)' = Size(s) /\ Numbers(s)' = Numbers(s)
  <2>1. OfSession(s)' = OfSession(s)
    BY <1>5 DEF OfSession
  <2>2. \A e \in OfSession(s) : append'[e].number = append[e].number
    BY <1>m DEF OfSession
  <2> QED BY <2>1, <2>2 DEF Size, Numbers
<1> QED BY <1>3, <1>4, <1>5

LEMMA StepWithEvent ==
  ASSUME TimelineInv, NEW a \in Appends, NEW x, Moves(a, x), events' = events \union {a},
         x.stage = "done", ResultOf(a)', EarlierThan(a)',
         allocated' \in [Sessions -> Nat],
         store = "repository" => x.number <= Size(SessionOf[a]) + 1 /\ x.number <= Listed + 1,
         store # "repository" =>
           /\ x.number = Size(SessionOf[a]) + 1
           /\ \A e \in events : ~SameKey(e, a)
           /\ \A b \in Appends \ {a} : append[b].stage = "commit" => ~SameKey(a, b),
         store = "postgres" =>
           /\ allocated' = [allocated EXCEPT ![SessionOf[a]] = x.number]
           /\ \A b \in Appends \ {a} : Transacting(b) => SessionOf[b] # SessionOf[a]
  PROVE  TimelineInv'
<1> DEFINE g == SessionOf[a]
<1>1. TimelineTypes'
  BY MovedTypes
<1>2. Histories'
  BY OthersKeep DEF Histories
<1>m. /\ a \notin events /\ append'[a] = x /\ store' = store
      /\ \A b \in Appends \ {a} : append'[b] = append[b]
      /\ \A e \in events : e \in Appends \ {a} /\ append'[e] = append[e]
  BY Moved DEF Moves
<1>s. \A s : Size(s) \in Nat
  BY SizeType DEF TimelineInv
<1>n. x.number \in Nat /\ \A e \in Appends : append[e].number \in Nat
  BY DEF Moves, TimelineInv, TimelineTypes, AppendType
<1>g. /\ Size(g)' = Size(g) + 1 /\ Numbers(g)' = Numbers(g) \union {x.number}
      /\ \A s : s # g => Size(s)' = Size(s) /\ Numbers(s)' = Numbers(s)
  BY SessionGrows
<1> HIDE DEF g
<1>4. CountsFit'
  <2>1. \A s : Size(s) <= Size(s)'
    BY <1>s, <1>g
  <2> QED BY <1>m, <1>s, <1>n, <1>g, <2>1 DEF TimelineInv, CountsFit, g
<1>5. Gapless'
  <2> SUFFICES ASSUME store # "repository", NEW s \in Sessions PROVE Numbers(s)' = (1 .. Size(s))'
    BY <1>m DEF Gapless, Sessions
  <2>1. Numbers(s) = 1 .. Size(s)
    BY DEF TimelineInv, Gapless
  <2>2. CASE s = g
    <3>1. x.number = Size(g) + 1 /\ Size(g) \in Nat
      BY <1>s DEF g
    <3>2. Numbers(g)' = (1 .. Size(g)) \union {Size(g) + 1} /\ Size(g)' = Size(g) + 1
      BY <1>g, <2>1, <2>2, <3>1
    <3>3. (1 .. Size(g)) \union {Size(g) + 1} = 1 .. (Size(g) + 1)
      BY <3>1
    <3> QED BY <2>2, <3>2, <3>3
  <2>3. CASE s # g
    BY <1>g, <2>1, <2>3
  <2> QED BY <2>2, <2>3
<1>6. Locked'
  <2> SUFFICES ASSUME store = "postgres" PROVE Locked'
    BY <1>m DEF Locked
  <2>1. \A b \in Appends \ {a} : Transacting(b)' = Transacting(b)
    BY <1>m DEF Transacting
  <2>2. ~Transacting(a)'
    BY <1>m DEF Transacting
  <2>3. allocated'[g] = x.number /\ \A s \in Sessions : s # g => allocated'[s] = allocated[s]
    BY DEF TimelineInv, TimelineTypes, Sessions, g
  <2>4. \A s \in Sessions : allocated'[s] = Size(s)'
    BY <1>g, <2>3 DEF TimelineInv, Locked, g
  <2>5. ASSUME NEW b \in Appends, Transacting(b)'
        PROVE  b # a /\ Transacting(b) /\ append'[b].number = allocated'[SessionOf[b]] + 1
    BY <1>m, <2>1, <2>2, <2>3, <2>5 DEF TimelineInv, Locked, Sessions, g
  <2> QED BY <2>4, <2>5 DEF TimelineInv, Locked, Sessions
<1>7. KeysOnce'
  BY <1>m DEF TimelineInv, KeysOnce, SameKey
<1> QED BY <1>1, <1>2, <1>4, <1>5, <1>6, <1>7 DEF TimelineInv

\* What has returned is still there, and what it returned is an event.
LEMMA ReturnedStays ==
  ASSUME TimelineInv, NEW a \in Appends, NEW x, Moves(a, x)
  PROVE  /\ Returned \subseteq Returned' /\ earlier[a] \subseteq Returned
         /\ earlier'[a] \subseteq Returned
         /\ \A c \in Returned : append'[c] = append[c] /\ append[c].result \subseteq events
<1>1. ASSUME NEW c \in Returned
      PROVE  /\ c \in Appends \ {a} /\ append'[c] = append[c] /\ c \in Returned'
             /\ append[c].result \subseteq events
  <2>1. c \in Appends /\ append[c].stage = "done"
    BY DEF Returned
  <2>2. c \in Appends \ {a} /\ append'[c] = append[c]
    BY <2>1, Moved DEF Returned
  <2> QED BY <2>1, <2>2 DEF TimelineInv, Histories, ResultOf, Returned
<1>2. earlier[a] \subseteq Returned
  BY DEF TimelineInv, Histories, EarlierThan
<1>3. earlier'[a] \subseteq Returned
  BY <1>2 DEF Moves, TimelineInv, TimelineTypes
<1> QED BY <1>1, <1>2, <1>3

\* A lookup that finds nothing: nothing that has returned has the key.
LEMMA KeyIsNew ==
  ASSUME TimelineInv, NEW a \in Appends, OfKey(a) = {}
  PROVE  \A c \in Returned : ~SameKey(c, a)
<1> SUFFICES ASSUME NEW c \in Returned, SameKey(c, a) PROVE FALSE
  OBVIOUS
<1>1. PICK e \in events : e = c \/ SameKey(c, e)
  BY DEF TimelineInv, Histories, ResultOf, Returned
<1>2. e \in OfKey(a)
  BY <1>1 DEF OfKey, SameKey
<1> QED BY <1>2

\* An event built now is listed after those of its session that are stored.
LEMMA BuiltLater ==
  ASSUME TimelineInv, NEW a \in Appends, NEW x, Moves(a, x), x.builtAt = built + 1,
         \A e \in OfSession(SessionOf[a]) : append[e].number <= x.number,
         \A c \in earlier'[a] : ~SameKey(c, a)
  PROVE  EarlierThan(a)'
<1>r. /\ earlier'[a] \subseteq Returned'
      /\ \A c \in earlier'[a] : append'[c] = append[c] /\ append[c].result \subseteq events
  BY ReturnedStays
<1>1. ASSUME NEW c \in earlier'[a], NEW e \in append'[c].result, SessionOf[e] = SessionOf[a]
      PROVE  Precedes(e, a)'
  <2>1. e \in events
    BY <1>r, <1>1
  <2>2. append'[e] = append[e] /\ append'[a] = x
    BY <2>1, Moved
  <2>3. append[e].number <= x.number /\ append[e].number \in Nat /\ x.number \in Nat
    BY <1>1, <2>1 DEF OfSession, Moves, AppendType, TimelineInv, TimelineTypes
  <2>4. append[e].builtAt <= built /\ append[e].builtAt \in Nat /\ built \in Nat
    BY <2>1 DEF TimelineInv, TimelineTypes, Histories, ResultOf, AppendType
  <2> QED BY <2>2, <2>3, <2>4 DEF Precedes
<1> QED BY <1>1, <1>r DEF EarlierThan, SameKey

\* An append that keeps its place stays after what it was after.
LEMMA PlaceKept ==
  ASSUME TimelineInv, NEW a \in Appends, NEW x, Moves(a, x), UNCHANGED earlier,
         HasNumber(a), x.number = append[a].number, x.builtAt = append[a].builtAt
  PROVE  EarlierThan(a)'
<1>r. /\ earlier'[a] = earlier[a] /\ earlier'[a] \subseteq Returned'
      /\ \A c \in earlier[a] : append'[c] = append[c] /\ append[c].result \subseteq events
  BY ReturnedStays
<1>1. EarlierThan(a) /\ PastLookup(a)
  BY DEF TimelineInv, Histories, HasNumber, PastLookup
<1>2. ASSUME NEW c \in earlier'[a], NEW e \in append'[c].result, SessionOf[e] = SessionOf[a]
      PROVE  Precedes(e, a)'
  <2>1. e \in events /\ Precedes(e, a)
    BY <1>r, <1>1, <1>2 DEF EarlierThan
  <2>2. append'[e] = append[e] /\ append'[a] = x
    BY <2>1, Moved
  <2> QED BY <2>1, <2>2 DEF Precedes
<1>3. \A c \in earlier'[a] : ~SameKey(c, a)
  BY <1>r, <1>1 DEF EarlierThan
<1> QED BY <1>r, <1>2, <1>3 DEF EarlierThan, SameKey

\* An append that is neither stored nor under way has nothing to keep.
LEMMA NothingToKeep ==
  ASSUME TimelineInv, NEW a \in Appends, NEW x, Moves(a, x), UNCHANGED events,
         x.stage \in {"done", "failed"}
  PROVE  EarlierThan(a)'
<1>1. earlier'[a] \subseteq Returned'
  BY ReturnedStays
<1>2. ~PastLookup(a)' /\ ~HasNumber(a)'
  BY Moved DEF PastLookup, HasNumber
<1> QED BY <1>1, <1>2 DEF EarlierThan

\* The records that AppendGoes and Returns make.
LEMMA GoesTo ==
  ASSUME TimelineInv, NEW a \in Appends, NEW stage \in {"number", "commit", "failed"}, NEW number \in Nat,
         AppendGoes(a, stage, number)
  PROVE  \E x \in AppendType :
           /\ append' = [append EXCEPT ![a] = x]
           /\ x.stage = stage /\ x.number = number /\ x.builtAt = append[a].builtAt
<1> DEFINE x == [append[a] EXCEPT !.stage = stage, !.number = number]
<1>1. append[a] \in AppendType
  BY DEF TimelineInv, TimelineTypes
<1>2. x \in AppendType /\ x.stage = stage /\ x.number = number /\ x.builtAt = append[a].builtAt
  BY <1>1 DEF AppendType
<1>3. append' = [append EXCEPT ![a] = x]
  BY DEF AppendGoes
<1> HIDE DEF x
<1> QED BY <1>2, <1>3

LEMMA ReturnsWith ==
  ASSUME TimelineInv, NEW a \in Appends, NEW e \in Appends, Returns(a, e)
  PROVE  \E x \in AppendType :
           /\ append' = [append EXCEPT ![a] = x]
           /\ x.stage = "done" /\ x.result = {e}
           /\ x.number = append[a].number /\ x.builtAt = append[a].builtAt
<1> DEFINE x == [append[a] EXCEPT !.stage = "done", !.result = {e}]
<1>1. append[a] \in AppendType
  BY DEF TimelineInv, TimelineTypes
<1>2. /\ x \in AppendType /\ x.stage = "done" /\ x.result = {e}
      /\ x.number = append[a].number /\ x.builtAt = append[a].builtAt
  BY <1>1 DEF AppendType
<1>3. append' = [append EXCEPT ![a] = x]
  BY DEF Returns
<1> HIDE DEF x
<1> QED BY <1>2, <1>3

\* A call that finds an event with its key returns that.
LEMMA InvFound ==
  ASSUME TimelineInv, NEW a \in Appends, NEW e \in OfKey(a), Begins(a), Returns(a, e),
         UNCHANGED <<store, events, allocated, built>>
  PROVE  TimelineInv'
<1>1. e \in events /\ e \in Appends /\ SameKey(a, e)
  BY DEF OfKey, SameKey, TimelineInv, TimelineTypes
<1>2. PICK x \in AppendType : append' = [append EXCEPT ![a] = x] /\ x.stage = "done"
         /\ x.result = {e} /\ x.builtAt = append[a].builtAt
  BY <1>1, ReturnsWith
<1>3. Moves(a, x)
  BY <1>2 DEF Moves, Begins
<1>4. EarlierThan(a)'
  BY <1>2, <1>3, NothingToKeep
<1>5. ResultOf(a)'
  BY <1>1, <1>2, <1>3, Moved DEF ResultOf, TimelineInv, Histories, SameKey, TimelineTypes
<1>6. Fits(a, x)
  BY <1>2 DEF Fits
<1> QED BY <1>3, <1>4, <1>5, <1>6, StepWithoutEvent

LEMMA InvLookup == ASSUME TimelineInv, NEW a \in Appends, Lookup(a) PROVE TimelineInv'
<1>1. UNCHANGED <<store, events, allocated, built>> /\ store # "sqlite" /\ Begins(a)
  BY DEF Lookup
<1>2. CASE OfKey(a) # {}
  BY <1>1, <1>2, InvFound DEF Lookup
<1>3. CASE OfKey(a) = {}
  <2>1. AppendGoes(a, "number", 0)
    BY <1>3 DEF Lookup
  <2>2. PICK x \in AppendType : append' = [append EXCEPT ![a] = x] /\ x.stage = "number"
           /\ x.builtAt = append[a].builtAt
    BY <2>1, GoesTo
  <2>3. Moves(a, x)
    BY <1>1, <2>2 DEF Moves, Begins
  <2>4. a \notin events /\ append'[a] = x /\ earlier'[a] \subseteq Returned /\ Returned \subseteq Returned'
    BY <2>3, Moved, ReturnedStays
  <2>5. \A c \in earlier'[a] : ~SameKey(c, a)
    BY <1>3, <2>4, KeyIsNew
  <2>6. EarlierThan(a)'
    BY <1>1, <2>2, <2>4, <2>5 DEF EarlierThan, HasNumber, SameKey
  <2>7. ResultOf(a)'
    BY <1>1, <2>2, <2>4 DEF ResultOf, TimelineInv, Histories, TimelineTypes
  <2>8. Fits(a, x)
    BY <2>2 DEF Fits
  <2> QED BY <1>1, <2>3, <2>6, <2>7, <2>8, StepWithoutEvent
<1> QED BY <1>2, <1>3

LEMMA InvCount == ASSUME TimelineInv, NEW a \in Appends, Count(a) PROVE TimelineInv'
<1> DEFINE n == Size(SessionOf[a])
           x == [stage |-> "save", number |-> Least(n, Listed) + 1, builtAt |-> built + 1,
                 result |-> NoResult]
<1>1. /\ store = "repository" /\ append[a].stage = "number"
      /\ UNCHANGED <<store, events, allocated, earlier>> /\ built' = built + 1
      /\ append' = [append EXCEPT ![a] = x]
  BY DEF Count, Builds, Size
<1>n. n \in Nat /\ built \in Nat
  BY SizeType DEF TimelineInv, TimelineTypes
<1>2. x \in AppendType
  BY <1>n, EventsAssumption DEF AppendType, Least
<1>3. Moves(a, x)
  BY <1>1, <1>2 DEF Moves
<1>4. x.stage = "save" /\ x.builtAt = built + 1 /\ x.number <= n + 1 /\ x.number <= Listed + 1
      /\ x.number \in Nat
      /\ \A k \in Nat : k <= n /\ k <= Listed + 1 => k <= x.number
  BY <1>n, EventsAssumption DEF Least
<1> HIDE DEF x
<1>5. \A e \in OfSession(SessionOf[a]) : append[e].number <= x.number
  BY <1>1, <1>4 DEF OfSession, TimelineInv, CountsFit, TimelineTypes, AppendType
<1>6. \A c \in earlier'[a] : ~SameKey(c, a)
  BY <1>1 DEF TimelineInv, Histories, EarlierThan, PastLookup
<1>7. EarlierThan(a)'
  BY <1>3, <1>4, <1>5, <1>6, BuiltLater
<1>8. ResultOf(a)'
  BY <1>1, <1>3, <1>4, <1>n, Moved DEF ResultOf
<1>9. Fits(a, x)
  BY <1>4 DEF Fits
<1> QED BY <1>1, <1>3, <1>7, <1>8, <1>9, StepWithoutEvent

LEMMA InvSaveEvent == ASSUME TimelineInv, NEW a \in Appends, SaveEvent(a) PROVE TimelineInv'
<1>1. /\ store = "repository" /\ append[a].stage = "save" /\ Returns(a, a)
      /\ events' = events \union {a} /\ UNCHANGED <<store, allocated, built, earlier>>
  BY DEF SaveEvent
<1>2. PICK x \in AppendType :
        /\ append' = [append EXCEPT ![a] = x]
        /\ x.stage = "done" /\ x.result = {a}
        /\ x.number = append[a].number /\ x.builtAt = append[a].builtAt
  BY <1>1, ReturnsWith
<1>3. Moves(a, x)
  BY <1>1, <1>2 DEF Moves
<1>4. HasNumber(a)
  BY <1>1 DEF HasNumber
<1>5. EarlierThan(a)'
  BY <1>1, <1>2, <1>3, <1>4, PlaceKept
<1>6. ResultOf(a)'
  BY <1>1, <1>2, <1>3, Moved DEF ResultOf, TimelineInv, Histories
<1>7. x.number <= Size(SessionOf[a]) + 1 /\ x.number <= Listed + 1
  BY <1>1, <1>2 DEF TimelineInv, CountsFit
<1>8. allocated' \in [Sessions -> Nat]
  BY <1>1 DEF TimelineInv, TimelineTypes
<1> QED BY <1>1, <1>2, <1>3, <1>5, <1>6, <1>7, <1>8, StepWithEvent

\* Numbers without a gap: the highest is how many there are.
LEMMA HighestIsSize ==
  ASSUME TimelineInv, store # "repository", NEW s \in Sessions
  PROVE  Highest(s) = Size(s) /\ \A e \in OfSession(s) : append[e].number <= Size(s)
<1>1. Numbers(s) = 1 .. Size(s) /\ Size(s) \in Nat /\ (Size(s) = 0 <=> OfSession(s) = {})
  BY SizeType DEF TimelineInv, Gapless
<1>2. \A e \in OfSession(s) : append[e].number \in 1 .. Size(s)
  BY <1>1 DEF Numbers
<1>3. CASE OfSession(s) = {}
  BY <1>1, <1>3 DEF Highest
<1>4. CASE OfSession(s) # {}
  <2> DEFINE IsHighest(n) == \A e \in OfSession(s) : append[e].number <= n
  <2>1. Highest(s) = CHOOSE n \in Numbers(s) : IsHighest(n)
    BY <1>4 DEF Highest, Numbers
  <2>2. Size(s) \in Numbers(s) /\ IsHighest(Size(s))
    BY <1>1, <1>2, <1>4
  <2>3. Highest(s) \in Numbers(s) /\ IsHighest(Highest(s))
    BY <2>1, <2>2
  <2>4. PICK e \in OfSession(s) : append[e].number = Size(s)
    BY <2>2 DEF Numbers
  <2>5. Size(s) <= Highest(s) /\ Highest(s) \in 1 .. Size(s)
    BY <1>1, <2>3, <2>4
  <2> QED BY <1>1, <1>2, <2>5
<1> QED BY <1>2, <1>3, <1>4, <1>1

LEMMA InvAppendAtOnce == ASSUME TimelineInv, NEW a \in Appends, AppendAtOnce(a) PROVE TimelineInv'
<1>1. UNCHANGED <<store, allocated>> /\ store = "sqlite" /\ Begins(a)
  BY DEF AppendAtOnce
<1>2. ASSUME NEW e \in OfKey(a), Returns(a, e), UNCHANGED <<events, built>> PROVE TimelineInv'
  BY <1>1, <1>2, InvFound
<1>3. ASSUME OfKey(a) = {}, Builds(a, "done", Highest(SessionOf[a]) + 1), events' = events \union {a}
      PROVE  TimelineInv'
  <2> DEFINE n == Size(SessionOf[a])
             x == [stage |-> "done", number |-> n + 1, builtAt |-> built + 1, result |-> {a}]
  <2>1. /\ n \in Nat /\ built \in Nat /\ Highest(SessionOf[a]) = n
        /\ \A e \in OfSession(SessionOf[a]) : append[e].number <= n /\ append[e].number \in Nat
    BY <1>1, SizeType, HighestIsSize DEF TimelineInv, TimelineTypes, Sessions, OfSession, AppendType
  <2>2. append' = [append EXCEPT ![a] = x] /\ built' = built + 1
    BY <1>3, <2>1 DEF Builds
  <2>3. x \in AppendType
    BY <2>1 DEF AppendType
  <2>4. x.stage = "done" /\ x.number = n + 1 /\ x.builtAt = built + 1 /\ x.result = {a}
    OBVIOUS
  <2> HIDE DEF x
  <2>5. Moves(a, x)
    BY <1>1, <1>3, <2>2, <2>3 DEF Moves, Begins
  <2>6. \A c \in earlier'[a] : ~SameKey(c, a)
    BY <1>3, <2>5, KeyIsNew, ReturnedStays
  <2>7. \A e \in OfSession(SessionOf[a]) : append[e].number <= x.number
    BY <2>1, <2>4
  <2>8. EarlierThan(a)'
    BY <2>4, <2>5, <2>6, <2>7, BuiltLater
  <2>9. ResultOf(a)'
    BY <1>1, <1>3, <2>1, <2>2, <2>4, <2>5, Moved DEF ResultOf
  <2>10. \A e \in events : ~SameKey(e, a)
    BY <1>3 DEF OfKey, SameKey
  <2>11. \A b \in Appends : append[b].stage # "commit"
    BY <1>1 DEF TimelineInv, Histories, ResultOf
  <2>12. allocated' \in [Sessions -> Nat]
    BY <1>1 DEF TimelineInv, TimelineTypes
  <2> QED BY <1>1, <1>3, <2>4, <2>5, <2>8, <2>9, <2>10, <2>11, <2>12, StepWithEvent
<1> QED BY <1>2, <1>3 DEF AppendAtOnce

LEMMA InvAllocate == ASSUME TimelineInv, NEW a \in Appends, Allocate(a) PROVE TimelineInv'
<1> DEFINE n == allocated[SessionOf[a]]
           x == [stage |-> "insert", number |-> n + 1, builtAt |-> built + 1, result |-> NoResult]
<1>1. /\ store = "postgres" /\ append[a].stage = "number"
      /\ \A b \in Appends : Transacting(b) => SessionOf[b] # SessionOf[a]
      /\ UNCHANGED <<store, events, allocated, earlier>> /\ built' = built + 1
      /\ append' = [append EXCEPT ![a] = x]
  BY DEF Allocate, Builds
<1>2. n \in Nat /\ built \in Nat /\ n = Size(SessionOf[a])
  BY <1>1 DEF TimelineInv, TimelineTypes, Locked, Sessions
<1>3. x \in AppendType
  BY <1>2 DEF AppendType
<1>4. x.stage = "insert" /\ x.builtAt = built + 1 /\ x.number = n + 1
  OBVIOUS
<1> HIDE DEF x
<1>5. Moves(a, x)
  BY <1>1, <1>3 DEF Moves
<1>6. \A e \in OfSession(SessionOf[a]) : append[e].number <= x.number
  <2>1. \A e \in OfSession(SessionOf[a]) : append[e].number <= n /\ append[e].number \in Nat
    BY <1>1, <1>2, HighestIsSize DEF OfSession, TimelineInv, TimelineTypes, AppendType, Sessions
  <2> QED BY <1>2, <1>4, <2>1
<1>7. \A c \in earlier'[a] : ~SameKey(c, a)
  BY <1>1 DEF TimelineInv, Histories, EarlierThan, PastLookup
<1>8. EarlierThan(a)'
  BY <1>4, <1>5, <1>6, <1>7, BuiltLater
<1>9. ResultOf(a)'
  BY <1>1, <1>2, <1>4, <1>5, Moved DEF ResultOf
<1>10. Fits(a, x)
  BY <1>1, <1>4 DEF Fits
<1> QED BY <1>1, <1>5, <1>8, <1>9, <1>10, StepWithoutEvent

LEMMA InvInsert == ASSUME TimelineInv, NEW a \in Appends, Insert(a) PROVE TimelineInv'
<1> DEFINE stage == IF OfKey(a) = {} THEN "commit" ELSE "failed"
<1>1. /\ store = "postgres" /\ append[a].stage = "insert"
      /\ \A b \in Appends \ {a} : append[b].stage = "commit" => ~SameKey(a, b)
      /\ UNCHANGED <<store, events, allocated, built, earlier>>
      /\ AppendGoes(a, stage, append[a].number)
  BY DEF Insert, SameKey
<1>2. stage \in {"commit", "failed"} /\ append[a].number \in Nat
  BY DEF TimelineInv, TimelineTypes, AppendType
<1>3. PICK x \in AppendType :
        /\ append' = [append EXCEPT ![a] = x]
        /\ x.stage = stage /\ x.number = append[a].number /\ x.builtAt = append[a].builtAt
  BY <1>1, <1>2, GoesTo
<1>4. Moves(a, x)
  BY <1>1, <1>3 DEF Moves
<1>5. HasNumber(a)
  BY <1>1 DEF HasNumber
<1>6. EarlierThan(a)'
  BY <1>1, <1>3, <1>4, <1>5, PlaceKept
<1>7. ResultOf(a)'
  BY <1>1, <1>2, <1>3, <1>4, Moved DEF ResultOf, TimelineInv, Histories
<1>8. x.number = allocated[SessionOf[a]] + 1
      /\ \A b \in Appends \ {a} : Transacting(b) => SessionOf[b] # SessionOf[a]
  BY <1>1, <1>3 DEF TimelineInv, Locked, Transacting
<1>9. stage = "commit" => \A e \in events : ~SameKey(e, a)
  BY DEF OfKey, SameKey
<1>10. Fits(a, x)
  BY <1>1, <1>2, <1>3, <1>8, <1>9 DEF Fits
<1> QED BY <1>1, <1>4, <1>6, <1>7, <1>10, StepWithoutEvent

LEMMA InvCommitEvent == ASSUME TimelineInv, NEW a \in Appends, CommitEvent(a) PROVE TimelineInv'
<1>1. /\ store = "postgres" /\ append[a].stage = "commit" /\ Returns(a, a)
      /\ events' = events \union {a} /\ UNCHANGED <<store, built, earlier>>
      /\ allocated' = [allocated EXCEPT ![SessionOf[a]] = append[a].number]
  BY DEF CommitEvent
<1>2. PICK x \in AppendType :
        /\ append' = [append EXCEPT ![a] = x]
        /\ x.stage = "done" /\ x.result = {a}
        /\ x.number = append[a].number /\ x.builtAt = append[a].builtAt
  BY <1>1, ReturnsWith
<1>3. Moves(a, x)
  BY <1>1, <1>2 DEF Moves
<1>4. HasNumber(a)
  BY <1>1 DEF HasNumber
<1>5. EarlierThan(a)'
  BY <1>1, <1>2, <1>3, <1>4, PlaceKept
<1>6. ResultOf(a)'
  BY <1>1, <1>2, <1>3, Moved DEF ResultOf, TimelineInv, Histories
<1>7. allocated' \in [Sessions -> Nat]
  BY <1>1 DEF TimelineInv, TimelineTypes, AppendType
<1>8. Transacting(a)
  BY <1>1 DEF Transacting
<1>9. x.number = Size(SessionOf[a]) + 1
      /\ \A b \in Appends \ {a} : Transacting(b) => SessionOf[b] # SessionOf[a]
  BY <1>1, <1>2, <1>8 DEF TimelineInv, Locked, Sessions
<1>10. /\ \A e \in events : ~SameKey(e, a)
       /\ \A b \in Appends \ {a} : append[b].stage = "commit" => ~SameKey(a, b)
  BY <1>1 DEF TimelineInv, KeysOnce
<1> QED BY <1>1, <1>2, <1>3, <1>5, <1>6, <1>7, <1>9, <1>10, StepWithEvent

LEMMA InvFailAppend == ASSUME TimelineInv, NEW a \in Appends, FailAppend(a) PROVE TimelineInv'
<1>1. /\ append[a].stage # "done" /\ AppendGoes(a, "failed", 0)
      /\ UNCHANGED <<store, events, allocated, built, earlier>>
  BY DEF FailAppend
<1>2. PICK x \in AppendType : append' = [append EXCEPT ![a] = x] /\ x.stage = "failed"
         /\ x.builtAt = append[a].builtAt
  BY <1>1, GoesTo
<1>3. Moves(a, x)
  BY <1>1, <1>2 DEF Moves
<1>4. EarlierThan(a)'
  BY <1>1, <1>2, <1>3, NothingToKeep
<1>5. ResultOf(a)'
  BY <1>1, <1>2, <1>3, Moved DEF ResultOf, TimelineInv, Histories, TimelineTypes
<1>6. Fits(a, x)
  BY <1>2 DEF Fits
<1> QED BY <1>1, <1>3, <1>4, <1>5, <1>6, StepWithoutEvent

LEMMA TimelineStep == TimelineInv /\ [EventsNext]_eventVars => TimelineInv'
<1> SUFFICES ASSUME TimelineInv, [EventsNext]_eventVars PROVE TimelineInv'
  OBVIOUS
<1>1. CASE UNCHANGED eventVars
  <2>1. \A s : OfSession(s)' = OfSession(s)
    BY <1>1 DEF eventVars, OfSession
  <2>2. \A s : Size(s)' = Size(s) /\ Numbers(s)' = Numbers(s)
    BY <1>1, <2>1 DEF eventVars, Size, Numbers
  <2>3. \A e, f : Precedes(e, f)' = Precedes(e, f)
    BY <1>1 DEF eventVars, Precedes
  <2>4. TimelineTypes' /\ Histories'
    BY <1>1, <2>3 DEF eventVars, TimelineInv, TimelineTypes, Sessions, Histories, ResultOf, EarlierThan,
       PastLookup, HasNumber, Returned, SameKey
  <2>5. CountsFit' /\ Gapless' /\ Locked' /\ KeysOnce'
    BY <1>1, <2>2 DEF eventVars, TimelineInv, CountsFit, Gapless, Locked, KeysOnce, SameKey, Transacting,
       Sessions
  <2> QED BY <2>4, <2>5 DEF TimelineInv
<1> QED BY <1>1, InvLookup, InvCount, InvSaveEvent, InvAppendAtOnce, InvAllocate, InvInsert,
           InvCommitEvent, InvFailAppend DEF EventsNext

\* TimelineIsOrderly, for any number of appends, sessions and keys and any page
\* of list_events: in all three stores an append finds what had returned before
\* it began, and the two databases number without a gap and store a key once.
THEOREM EveryTimelineIsOrderly == EventsSpec => []TimelineIsOrderly
<1>1. TimelineInv => TimelineIsOrderly
  <2> SUFFICES ASSUME TimelineInv PROVE TimelineIsOrderly
    OBVIOUS
  <2>1. ASSUME NEW b \in Returned, NEW a \in earlier[b]
        PROVE  /\ KeyOf[a] = KeyOf[b] /\ KeyOf[a] # NoKey => b \notin events
               /\ b \in events =>
                    \A e \in append[a].result : SessionOf[e] = SessionOf[b] => Precedes(e, b)
    <3>1. EarlierThan(b)
      BY DEF TimelineInv, Histories, Returned
    <3> QED BY <3>1 DEF EarlierThan, PastLookup, HasNumber, SameKey
  <2>2. ASSUME store # "repository"
        PROVE  /\ \A s \in DOMAIN allocated :
                    {append[e].number : e \in OfSession(s)} = 1 .. Cardinality(OfSession(s))
               /\ \A e, f \in events : KeyOf[e] = KeyOf[f] /\ KeyOf[e] # NoKey => e = f
    <3>1. DOMAIN allocated = Sessions
      BY DEF TimelineInv, TimelineTypes
    <3>2. \A s \in Sessions : Numbers(s) = 1 .. Size(s)
      BY <2>2 DEF TimelineInv, Gapless
    <3>3. \A e, f \in events : SameKey(e, f) => e = f
      BY <2>2 DEF TimelineInv, KeysOnce
    <3> QED BY <3>1, <3>2, <3>3 DEF Numbers, Size, SameKey
  <2> QED BY <2>1, <2>2 DEF TimelineIsOrderly
<1> QED BY <1>1, TimelineInitially, TimelineStep, PTL DEF EventsSpec

\* The appends whose event was built; each builds one, before it has a number.
Builders == {a \in Appends : append[a].builtAt # 0}

NumbersFit ==
    /\ \A a \in Appends :
         /\ append[a].number <= Cardinality(Appends)
         /\ append[a].stage \in {"idle", "number"} => append[a].builtAt = 0
    /\ built <= Cardinality(Builders)

LEMMA BuildersType ==
  ASSUME IsFiniteSet(Appends)
  PROVE  IsFiniteSet(Builders) /\ Cardinality(Builders) \in Nat
         /\ Cardinality(Builders) <= Cardinality(Appends) /\ Cardinality(Appends) \in Nat
<1>1. Builders \subseteq Appends
  BY DEF Builders
<1> HIDE DEF Builders
<1> QED BY <1>1, FS_Subset, FS_CardinalityType

\* A session with an append that is no event yet has fewer events than there
\* are appends.
LEMMA RoomForOne ==
  ASSUME IsFiniteSet(Appends), TimelineInv, NEW a \in Appends \ events
  PROVE  Size(SessionOf[a]) + 1 <= Cardinality(Appends) /\ Size(SessionOf[a]) \in Nat
<1> DEFINE S == OfSession(SessionOf[a])
<1>1. S \subseteq Appends /\ a \notin S /\ IsFiniteSet(S) /\ Size(SessionOf[a]) = Cardinality(S)
  BY SizeType DEF OfSession, TimelineInv, TimelineTypes, Size
<1> HIDE DEF S
<1>2. S \union {a} \subseteq Appends
  BY <1>1
<1>3. Cardinality(S \union {a}) = Cardinality(S) + 1 /\ Cardinality(S) \in Nat
  BY <1>1, FS_AddElement, FS_CardinalityType
<1>4. Cardinality(S \union {a}) <= Cardinality(Appends)
  BY <1>2, FS_Subset
<1> QED BY <1>1, <1>3, <1>4

\* What an append may become without building.
Renumbered(a, x) ==
    /\ x \in AppendType /\ append' = [append EXCEPT ![a] = x]
    /\ x.builtAt = append[a].builtAt /\ x.number \in {0, append[a].number}
    /\ x.stage \in {"idle", "number"} => append[a].stage \in {"idle", "number"}
    /\ built' = built

LEMMA NumbersKept ==
  ASSUME IsFiniteSet(Appends), TimelineInv, NumbersFit, NEW a \in Appends, NEW x, Renumbered(a, x)
  PROVE  NumbersFit'
<1>1. append'[a] = x /\ \A b \in Appends \ {a} : append'[b] = append[b]
  BY DEF Renumbered, TimelineInv, TimelineTypes
<1>2. Builders' = Builders
  BY <1>1 DEF Builders, Renumbered
<1>3. ASSUME NEW b \in Appends
      PROVE  append'[b].number <= Cardinality(Appends)
             /\ (append'[b].stage \in {"idle", "number"} => append'[b].builtAt = 0)
  BY <1>1, <1>3, BuildersType DEF NumbersFit, Renumbered
<1> QED BY <1>2, <1>3 DEF NumbersFit, Renumbered

LEMMA NumbersBuilt ==
  ASSUME IsFiniteSet(Appends), TimelineInv, NumbersFit, NEW a \in Appends, NEW stage, NEW number \in Nat,
         append[a].stage \in {"idle", "number"}, stage \notin {"idle", "number"},
         Builds(a, stage, number), number <= Size(SessionOf[a]) + 1
  PROVE  NumbersFit'
<1>1. /\ built' = built + 1 /\ built \in Nat /\ append'[a].builtAt = built + 1
      /\ append'[a].stage = stage /\ append'[a].number = number
      /\ \A b \in Appends \ {a} : append'[b] = append[b]
  BY DEF Builds, TimelineInv, TimelineTypes
<1>2. a \notin Builders
  BY DEF NumbersFit, Builders
<1>3. Builders' = Builders \union {a}
  BY <1>1 DEF Builders
<1>4. Cardinality(Builders') = Cardinality(Builders) + 1 /\ Cardinality(Builders) \in Nat
  <2> HIDE DEF Builders
  <2> QED BY <1>2, <1>3, BuildersType, FS_AddElement
<1>5. a \notin events
  BY DEF TimelineInv, Histories, ResultOf
<1>6. number <= Cardinality(Appends)
  BY <1>5, RoomForOne, BuildersType
<1> QED BY <1>1, <1>4, <1>6 DEF NumbersFit

LEMMA NumbersStep ==
  ASSUME IsFiniteSet(Appends), TimelineInv, NumbersFit, [EventsNext]_eventVars
  PROVE  NumbersFit'
<1>a. ASSUME NEW a \in Appends
      PROVE  append[a] \in AppendType
  BY DEF TimelineInv, TimelineTypes
<1>r. ASSUME NEW a \in Appends, NEW e \in Appends, Returns(a, e), built' = built
      PROVE  NumbersFit'
  <2> DEFINE x == [append[a] EXCEPT !.stage = "done", !.result = {e}]
  <2>1. x \in AppendType /\ x.builtAt = append[a].builtAt /\ x.number = append[a].number /\ x.stage = "done"
    BY <1>a DEF AppendType
  <2>2. append' = [append EXCEPT ![a] = x]
    BY <1>r DEF Returns
  <2> HIDE DEF x
  <2>3. Renumbered(a, x)
    BY <1>r, <2>1, <2>2 DEF Renumbered
  <2> QED BY <2>3, NumbersKept
<1>g. ASSUME NEW a \in Appends, NEW stage \in {"number", "commit", "failed"},
             NEW number \in {0, append[a].number},
             AppendGoes(a, stage, number), stage = "number" => append[a].stage = "idle", built' = built
      PROVE  NumbersFit'
  <2> DEFINE x == [append[a] EXCEPT !.stage = stage, !.number = number]
  <2>1. x \in AppendType /\ x.builtAt = append[a].builtAt /\ x.number = number /\ x.stage = stage
    <3>1. append[a] \in AppendType
      BY <1>a
    <3>2. number \in Nat
      BY <1>g, <3>1 DEF AppendType
    <3>3. stage \in {"idle", "number", "save", "insert", "commit", "done", "failed"}
      BY <1>g
    <3> QED BY <3>1, <3>2, <3>3 DEF AppendType
  <2>2. append' = [append EXCEPT ![a] = x]
    BY <1>g DEF AppendGoes
  <2> HIDE DEF x
  <2>3. Renumbered(a, x)
    BY <1>g, <2>1, <2>2 DEF Renumbered
  <2> QED BY <2>3, NumbersKept
<1>e. events \subseteq Appends
  BY DEF OfKey, TimelineInv, TimelineTypes
<1>s. ASSUME NEW a \in Appends PROVE Size(SessionOf[a]) \in Nat /\ SessionOf[a] \in Sessions
  BY SizeType DEF TimelineInv, Sessions
<1>1. ASSUME NEW a \in Appends, Lookup(a) PROVE NumbersFit'
  <2>1. append[a].stage = "idle" /\ built' = built
    BY <1>1 DEF Lookup, Begins
  <2>2. CASE AppendGoes(a, "number", 0)
    BY <2>1, <2>2, <1>g
  <2>3. ASSUME NEW e \in OfKey(a), Returns(a, e) PROVE NumbersFit'
    <3>1. e \in Appends
      BY <2>3, <1>e DEF OfKey
    <3> QED BY <2>1, <2>3, <3>1, <1>r
  <2> QED BY <1>1, <2>2, <2>3 DEF Lookup
<1>2. ASSUME NEW a \in Appends, Count(a) PROVE NumbersFit'
  <2> DEFINE n == Least(Cardinality(OfSession(SessionOf[a])), Listed) + 1
  <2>1. n \in Nat /\ n <= Size(SessionOf[a]) + 1
    BY <1>s, EventsAssumption DEF Least, Size
  <2>2. append[a].stage = "number" /\ Builds(a, "save", n)
    BY <1>2 DEF Count
  <2> HIDE DEF n
  <2> QED BY <2>1, <2>2, NumbersBuilt
<1>3. ASSUME NEW a \in Appends, SaveEvent(a) \/ CommitEvent(a) PROVE NumbersFit'
  <2>1. Returns(a, a) /\ built' = built
    BY <1>3 DEF SaveEvent, CommitEvent
  <2> QED BY <2>1, <1>r
<1>4. ASSUME NEW a \in Appends, AppendAtOnce(a) PROVE NumbersFit'
  <2>1. append[a].stage = "idle" /\ store # "repository"
    BY <1>4 DEF AppendAtOnce, Begins
  <2>2. ASSUME NEW e \in OfKey(a), Returns(a, e), built' = built PROVE NumbersFit'
    <3>1. e \in Appends
      BY <2>2, <1>e DEF OfKey
    <3> QED BY <2>2, <3>1, <1>r
  <2>3. ASSUME Builds(a, "done", Highest(SessionOf[a]) + 1) PROVE NumbersFit'
    <3>1. Highest(SessionOf[a]) = Size(SessionOf[a])
      BY <2>1, <1>s, HighestIsSize
    <3>2. Highest(SessionOf[a]) + 1 \in Nat /\ Highest(SessionOf[a]) + 1 <= Size(SessionOf[a]) + 1
      BY <3>1, <1>s
    <3> QED BY <2>1, <2>3, <3>2, NumbersBuilt
  <2> QED BY <1>4, <2>2, <2>3 DEF AppendAtOnce
<1>5. ASSUME NEW a \in Appends, Allocate(a) PROVE NumbersFit'
  <2>1. store = "postgres" /\ append[a].stage = "number" /\ Builds(a, "insert", allocated[SessionOf[a]] + 1)
    BY <1>5 DEF Allocate
  <2>2. allocated[SessionOf[a]] = Size(SessionOf[a])
    BY <2>1, <1>s DEF TimelineInv, Locked
  <2>3. allocated[SessionOf[a]] + 1 \in Nat /\ allocated[SessionOf[a]] + 1 <= Size(SessionOf[a]) + 1
    BY <2>2, <1>s
  <2> QED BY <2>1, <2>3, NumbersBuilt
<1>6. ASSUME NEW a \in Appends, Insert(a) PROVE NumbersFit'
  <2>1. \/ AppendGoes(a, "commit", append[a].number)
        \/ AppendGoes(a, "failed", append[a].number)
    BY <1>6 DEF Insert
  <2>2. built' = built
    BY <1>6 DEF Insert
  <2> QED BY <2>1, <2>2, <1>g
<1>7. ASSUME NEW a \in Appends, FailAppend(a) PROVE NumbersFit'
  <2>1. AppendGoes(a, "failed", 0) /\ built' = built
    BY <1>7 DEF FailAppend
  <2> QED BY <2>1, <1>g
<1>8. CASE UNCHANGED eventVars
  BY <1>8 DEF eventVars, NumbersFit, Builders
<1> QED BY <1>1, <1>2, <1>3, <1>4, <1>5, <1>6, <1>7, <1>8 DEF EventsNext

\* What the appends did is well formed, and no event has a number above the
\* number of appends, as no append builds two events or takes a number that is
\* more than one above those of its session.
THEOREM EventsTypeCorrect ==
  ASSUME IsFiniteSet(Appends)
  PROVE  EventsSpec => []EventsTypeOK
<1>1. EventsInit => NumbersFit
  <2> SUFFICES ASSUME EventsInit PROVE NumbersFit
    OBVIOUS
  <2>1. \A a \in Appends : append[a] = NoAppend
    BY DEF EventsInit
  <2>2. NoAppend.number = 0 /\ NoAppend.builtAt = 0 /\ built = 0
    BY DEF NoAppend, EventsInit
  <2> QED BY <2>1, <2>2, BuildersType DEF NumbersFit
<1>2. TimelineInv /\ NumbersFit => EventsTypeOK
  <2> SUFFICES ASSUME TimelineInv, NumbersFit PROVE EventsTypeOK
    OBVIOUS
  <2>t. TimelineTypes /\ Histories
    BY DEF TimelineInv
  <2>1. built <= Cardinality(Appends)
    <3>1. built <= Cardinality(Builders) /\ built \in Nat
      BY <2>t DEF NumbersFit, TimelineTypes
    <3> QED BY <3>1, BuildersType
  <2>2. ASSUME NEW a \in Appends
        PROVE  append[a] \in [stage : {"idle", "number", "save", "insert", "commit", "done", "failed"},
                              number : 0 .. Cardinality(Appends), builtAt : 0 .. Cardinality(Appends),
                              result : {NoResult} \union {{e} : e \in Appends}]
    <3>1. append[a] \in AppendType /\ append[a].builtAt <= built /\ built \in Nat
      BY <2>t DEF TimelineTypes, Histories, ResultOf
    <3>2. append[a].number \in 0 .. Cardinality(Appends)
      BY <3>1, BuildersType DEF NumbersFit, AppendType
    <3>3. append[a].builtAt \in 0 .. Cardinality(Appends)
      BY <2>1, <3>1, BuildersType DEF AppendType
    <3> QED BY <3>1, <3>2, <3>3 DEF AppendType
  <2>3. append \in [Appends ->
         [stage : {"idle", "number", "save", "insert", "commit", "done", "failed"},
          number : 0 .. Cardinality(Appends), builtAt : 0 .. Cardinality(Appends),
          result : {NoResult} \union {{e} : e \in Appends}]]
    BY <2>t, <2>2 DEF TimelineTypes
  <2> QED BY <2>t, <2>3 DEF EventsTypeOK, TimelineTypes
<1>3. TimelineInv /\ NumbersFit /\ [EventsNext]_eventVars => NumbersFit'
  BY NumbersStep
<1> QED BY <1>1, <1>2, <1>3, TimelineInitially, TimelineStep, PTL DEF EventsSpec

\* The transactional stores as a log: numbers are given out in order, so the
\* event with the next number is a new last entry.

LEMMA LogEntries ==
  ASSUME TimelineInv, store # "repository", NEW s \in Sessions
  PROVE  /\ LogOf(s) \in Seq(Appends) /\ Len(LogOf(s)) = Size(s) /\ Size(s) \in Nat
         /\ \A n \in 1 .. Size(s) : LogOf(s)[n] = TheOne(WithNumber(s, n)) /\ LogOf(s)[n] \in events
<1>1. Size(s) \in Nat /\ Numbers(s) = 1 .. Size(s) /\ events \subseteq Appends
  BY SizeType DEF TimelineInv, TimelineTypes, Gapless
<1>2. ASSUME NEW n \in 1 .. Size(s) PROVE TheOne(WithNumber(s, n)) \in events
  <2>1. PICK e \in OfSession(s) : append[e].number = n
    BY <1>1 DEF Numbers
  <2>2. e \in WithNumber(s, n)
    BY <2>1 DEF WithNumber
  <2>3. TheOne(WithNumber(s, n)) \in WithNumber(s, n)
    BY <2>2 DEF TheOne
  <2> QED BY <2>3 DEF WithNumber, OfSession
<1>3. LogOf(s) = [n \in 1 .. Size(s) |-> TheOne(WithNumber(s, n))]
  BY DEF LogOf, Size
<1> QED BY <1>1, <1>2, <1>3

LEMMA LogStep ==
  TimelineInv /\ Transactional /\ [EventsNext]_eventVars =>
    Transactional' /\ [Log!LogNext]_(Log!logVars)
<1> SUFFICES ASSUME TimelineInv, store # "repository", [EventsNext]_eventVars
             PROVE  /\ store' # "repository"
                    /\ \/ \E s \in Sessions, a \in Appends : Log!Write(s, a)
                       \/ \A s \in Sessions : LogOf(s)' = LogOf(s)
  BY DEF Sessions, Log!LogNext, Log!logVars, Transactional
<1>i. TimelineInv'
  BY TimelineStep
<1>s. store' = store
  BY DEF EventsNext, Lookup, Count, SaveEvent, AppendAtOnce, Allocate, Insert, CommitEvent, FailAppend, eventVars
\* Who stores no event changes no number of one.
<1>k. ASSUME events' = events, \A e \in events : append'[e].number = append[e].number
      PROVE  \A s \in Sessions : LogOf(s)' = LogOf(s)
  <2> SUFFICES ASSUME NEW s \in Sessions PROVE LogOf(s)' = LogOf(s)
    OBVIOUS
  <2>1. OfSession(s)' = OfSession(s)
    BY <1>k DEF OfSession
  <2>2. \A n : WithNumber(s, n)' = WithNumber(s, n)
    BY <1>k, <2>1 DEF WithNumber, OfSession
  <2> QED BY <2>1, <2>2 DEF LogOf
<1>a. ASSUME NEW a \in Appends, append[a].stage # "done",
             \A b \in Appends \ {a} : append'[b] = append[b]
      PROVE  a \notin events /\ \A e \in events : append'[e] = append[e]
  <2>1. a \notin events /\ events \subseteq Appends
    BY <1>a DEF TimelineInv, TimelineTypes, Histories, ResultOf
  <2> QED BY <1>a, <2>1
<1>w. ASSUME NEW a \in Appends, append[a].stage # "done",
             \A b \in Appends \ {a} : append'[b] = append[b],
             events' = events \union {a}, append'[a].number = Size(SessionOf[a]) + 1
      PROVE  \E s \in Sessions, b \in Appends : Log!Write(s, b)
  <2>0. PICK g \in Sessions : g = SessionOf[a]
    BY DEF Sessions
  <2>1. a \notin events /\ \A e \in events : append'[e] = append[e]
    BY <1>a, <1>w
  <2>2. \A s : OfSession(s)' = IF s = g THEN OfSession(s) \union {a} ELSE OfSession(s)
    BY <1>w, <2>0 DEF OfSession
  <2>3. ASSUME NEW s \in Sessions
        PROVE  /\ Len(LogOf(s)) = Size(s) /\ LogOf(s) \in Seq(Appends) /\ Size(s) \in Nat
               /\ \A n \in 1 .. Size(s) : LogOf(s)[n] \in events
    BY LogEntries
  <2>4. ASSUME NEW s \in Sessions, s # g PROVE LogOf(s)' = LogOf(s)
    <3>1. OfSession(s)' = OfSession(s)
      BY <2>2, <2>4
    <3>2. \A n : WithNumber(s, n)' = WithNumber(s, n)
      BY <2>1, <3>1 DEF WithNumber, OfSession
    <3> QED BY <3>1, <3>2 DEF LogOf
  <2>m. PICK m : m = Size(g)
    OBVIOUS
  <2>5. Size(g)' = m + 1 /\ m \in Nat
    <3>1. IsFiniteSet(OfSession(g)) /\ a \notin OfSession(g)
      BY <2>1, SizeType DEF TimelineInv, OfSession
    <3> QED BY <2>2, <2>3, <2>m, <3>1, FS_AddElement DEF Size
  <2>6. ASSUME NEW n \in 1 .. m PROVE WithNumber(g, n)' = WithNumber(g, n)
    <3>1. append'[a].number # n
      BY <1>w, <2>0, <2>3, <2>m
    <3> QED BY <2>1, <2>2, <3>1 DEF WithNumber, OfSession
  <2>k. PICK k : k = m + 1
    OBVIOUS
  <2>7. WithNumber(g, k)' = {a}
    <3>1. ASSUME NEW e \in OfSession(g) PROVE append'[e].number # k
      <4>1. append[e].number \in 1 .. m /\ append'[e] = append[e]
        BY <2>1, <2>m, <3>1 DEF TimelineInv, Gapless, Numbers, OfSession
      <4> QED BY <2>5, <2>k, <4>1
    <3>2. append'[a].number = k
      BY <1>w, <2>0, <2>m, <2>k
    <3>3. OfSession(g)' = OfSession(g) \union {a}
      BY <2>2
    <3>4. WithNumber(g, k)' = {e \in OfSession(g)' : append'[e].number = k}
      BY DEF WithNumber
    <3> QED BY <3>1, <3>2, <3>3, <3>4
  <2>8. LogOf(g)' = Append(LogOf(g), a)
    <3>1. LogOf(g)' = [n \in 1 .. k |-> TheOne(WithNumber(g, n)')]
      BY <2>5, <2>k DEF LogOf, Size
    <3>2. PICK L \in Seq(Appends) : L = LogOf(g)
      BY <2>3
    <3>3. Len(L) = m /\ m \in Nat /\ \A n \in 1 .. m : L[n] = TheOne(WithNumber(g, n))
      BY <2>m, <3>2, LogEntries
    <3>4. TheOne({a}) = a
      BY DEF TheOne
    <3>5. [n \in 1 .. k |-> TheOne(WithNumber(g, n)')] = Append(L, a)
      <4> DEFINE F == [n \in 1 .. k |-> TheOne(WithNumber(g, n)')]
      <4>1. \A n \in 1 .. m : F[n] = L[n]
        BY <2>5, <2>6, <2>k, <3>3
      <4>2. F[k] = a
        <5>1. k \in 1 .. k
          BY <2>5, <2>k
        <5>2. F[k] = TheOne(WithNumber(g, k)')
          BY <5>1
        <5> HIDE DEF F
        <5> QED BY <5>2, <2>7, <3>4
      <4>3. Append(L, a) \in Seq(Appends) /\ Len(Append(L, a)) = k
            /\ Append(L, a)[k] = a /\ \A n \in 1 .. m : Append(L, a)[n] = L[n]
        BY <2>5, <2>k, <3>3, AppendProperties
      <4>4. DOMAIN F = 1 .. k /\ F = [n \in 1 .. k |-> F[n]]
        OBVIOUS
      <4>5. DOMAIN Append(L, a) = 1 .. k /\ Append(L, a) = [n \in 1 .. k |-> Append(L, a)[n]]
        BY <4>3, LenProperties
      <4> HIDE DEF F
      <4>6. \A n \in 1 .. k : F[n] = Append(L, a)[n]
        BY <2>5, <2>k, <4>1, <4>2, <4>3
      <4>7. F = Append(L, a)
        BY <4>4, <4>5, <4>6
      <4> QED BY <4>7 DEF F
    <3> QED BY <3>1, <3>2, <3>5
  <2>9. a \notin Log!Written
    <3>1. ASSUME NEW s \in Sessions, NEW n \in 1 .. Len(LogOf(s)) PROVE LogOf(s)[n] # a
      BY <2>1, <2>3, <3>1
    <3> QED BY <3>1 DEF Log!Written, Sessions
  <2>10. Log!Write(g, a)
    BY <2>0, <2>4, <2>8, <2>9 DEF Log!Write, Sessions
  <2> QED BY <2>10
<1>1. ASSUME NEW a \in Appends, Lookup(a) \/ Insert(a) \/ Allocate(a) \/ FailAppend(a)
      PROVE  \A s \in Sessions : LogOf(s)' = LogOf(s)
  <2>1. append[a].stage # "done" /\ events' = events
    BY <1>1 DEF Lookup, Insert, Allocate, FailAppend, Begins
  <2>2. \A b \in Appends \ {a} : append'[b] = append[b]
    BY <1>1 DEF Lookup, Insert, Allocate, FailAppend, AppendGoes, Returns, Builds, TimelineInv, TimelineTypes
  <2> QED BY <2>1, <2>2, <1>a, <1>k
<1>2. ASSUME NEW a \in Appends, AppendAtOnce(a)
      PROVE  \/ \E s \in Sessions, b \in Appends : Log!Write(s, b)
             \/ \A s \in Sessions : LogOf(s)' = LogOf(s)
  <2>1. append[a].stage # "done"
    BY <1>2 DEF AppendAtOnce, Begins
  <2>2. \A b \in Appends \ {a} : append'[b] = append[b]
    BY <1>2 DEF AppendAtOnce, Returns, Builds, TimelineInv, TimelineTypes
  <2>3. CASE events' = events
    BY <2>1, <2>2, <2>3, <1>a, <1>k
  <2>4. CASE Builds(a, "done", Highest(SessionOf[a]) + 1) /\ events' = events \union {a}
    <3>1. Highest(SessionOf[a]) = Size(SessionOf[a])
      BY HighestIsSize DEF Sessions
    <3>2. append'[a].number = Highest(SessionOf[a]) + 1
      BY <2>4 DEF Builds, TimelineInv, TimelineTypes
    <3> QED BY <2>1, <2>2, <2>4, <3>1, <3>2, <1>w
  <2> QED BY <1>2, <2>3, <2>4 DEF AppendAtOnce
<1>3. ASSUME NEW a \in Appends, CommitEvent(a)
      PROVE  \E s \in Sessions, b \in Appends : Log!Write(s, b)
  <2>1. append[a].stage = "commit" /\ events' = events \union {a} /\ Returns(a, a) /\ store = "postgres"
    BY <1>3 DEF CommitEvent
  <2>2. append[a].number = Size(SessionOf[a]) + 1
    BY <2>1 DEF TimelineInv, Locked, Transacting, Sessions
  <2>3. append'[a].number = append[a].number /\ \A b \in Appends \ {a} : append'[b] = append[b]
    BY <2>1 DEF Returns, TimelineInv, TimelineTypes, AppendType
  <2> QED BY <2>1, <2>2, <2>3, <1>w
<1>4. CASE UNCHANGED eventVars
  BY <1>4, <1>k DEF eventVars
<1>5. ASSUME NEW a \in Appends PROVE ~Count(a) /\ ~SaveEvent(a)
  BY DEF Count, SaveEvent
<1> QED BY <1>s, <1>1, <1>2, <1>3, <1>4, <1>5 DEF EventsNext

\* Whatever overlaps and whoever dies, SQLite and PostgreSQL keep a timeline as
\* a log: what is stored is appended to its session, once.
THEOREM TransactionalStoresAreLogs == EventsSpec => StoresAreLogs
<1>1. EventsInit => Log!LogInit
  <2> SUFFICES ASSUME EventsInit PROVE \A s \in Sessions : LogOf(s) = <<>>
    BY DEF Log!LogInit, Sessions
  <2>1. \A s : OfSession(s) = {} /\ Cardinality(OfSession(s)) = 0
    BY FS_EmptySet DEF OfSession, EventsInit
  <2> QED BY <2>1 DEF LogOf
<1> QED BY <1>1, LogStep, TimelineInitially, TimelineStep, PTL
        DEF EventsSpec, StoresAreLogs, Log!LogSpec

-----------------------------------------------------------------------------
(* The schedules of workers.  Any number of calls keep the types; a call   *)
(* that is alone always holds the schedules as they are stored.            *)

CallKinds == {"create", "pause", "resume", "trigger", "tick", "fire"}

\* What is left of the accesses of a call of each kind.
PlansOf(kind) ==
    CASE kind = "create" -> {<<"create", "sync">>, <<"sync">>}
      [] kind = "pause" -> {<<"read", "pause", "sync">>, <<"pause", "sync">>, <<"sync">>}
      [] kind = "resume" -> {<<"read", "resume", "sync">>, <<"resume", "sync">>, <<"sync">>}
      [] kind = "tick" -> {<<"list", "next">>, <<"next">>,
                           <<"enqueue", "save", "sync", "next">>, <<"save", "sync", "next">>,
                           <<"note", "sync", "next">>, <<"sync", "next">>}
      [] OTHER -> {<<"read", "enqueue", "save", "sync">>, <<"enqueue", "save", "sync">>,
                   <<"save", "sync">>, <<"sync">>}
Plans == UNION {PlansOf(kind) : kind \in CallKinds}

CallType == [todo : Plans, kind : CallKinds, of : Schedules, at : Nat,
             seen : [Schedules -> Record], rest : SUBSET Schedules]

ScheduleTypes ==
    /\ schedule \in [Schedules -> Record]
    /\ jobAt \in [Schedules -> Nat \union {Never}]
    /\ calling \in [Calls -> CallType \union {NotCalling}]
    /\ \A i \in Calls : calling[i] # NotCalling => calling[i].todo \in PlansOf(calling[i].kind)
    /\ up \in BOOLEAN /\ clock \in Nat
    /\ queued \in [Schedules -> Nat]
    /\ repeats \in Nat /\ lost \subseteq Schedules /\ stops \in 0 .. MaxOutages

\* The accesses a call has left once it has made the next one.
LEMMA PlanTails ==
  /\ Head(<<"create", "sync">>) = "create" /\ Tail(<<"create", "sync">>) = <<"sync">>
  /\ Head(<<"sync">>) = "sync" /\ Tail(<<"sync">>) = <<>>
  /\ Head(<<"read", "pause", "sync">>) = "read" /\ Tail(<<"read", "pause", "sync">>) = <<"pause", "sync">>
  /\ Head(<<"pause", "sync">>) = "pause" /\ Tail(<<"pause", "sync">>) = <<"sync">>
  /\ Head(<<"read", "resume", "sync">>) = "read" /\ Tail(<<"read", "resume", "sync">>) = <<"resume", "sync">>
  /\ Head(<<"resume", "sync">>) = "resume" /\ Tail(<<"resume", "sync">>) = <<"sync">>
  /\ Head(<<"list", "next">>) = "list" /\ Tail(<<"list", "next">>) = <<"next">>
  /\ Head(<<"next">>) = "next" /\ Tail(<<"next">>) = <<>>
  /\ Head(<<"enqueue", "save", "sync", "next">>) = "enqueue"
  /\ Tail(<<"enqueue", "save", "sync", "next">>) = <<"save", "sync", "next">>
  /\ Head(<<"save", "sync", "next">>) = "save" /\ Tail(<<"save", "sync", "next">>) = <<"sync", "next">>
  /\ Head(<<"note", "sync", "next">>) = "note"
  /\ Tail(<<"note", "sync", "next">>) = <<"sync", "next">>
  /\ Head(<<"sync", "next">>) = "sync" /\ Tail(<<"sync", "next">>) = <<"next">>
  /\ Head(<<"read", "enqueue", "save", "sync">>) = "read"
  /\ Tail(<<"read", "enqueue", "save", "sync">>) = <<"enqueue", "save", "sync">>
  /\ Head(<<"enqueue", "save", "sync">>) = "enqueue"
  /\ Tail(<<"enqueue", "save", "sync">>) = <<"save", "sync">>
  /\ Head(<<"save", "sync">>) = "save" /\ Tail(<<"save", "sync">>) = <<"sync">>
OBVIOUS

LEMMA CallPlanTypes ==
  /\ \A kind \in CallKinds : PlansOf(kind) \subseteq Plans /\ Steps(kind) \in PlansOf(kind)
  /\ \A todo \in Plans : todo # <<>>
<1>1. \A kind \in CallKinds : PlansOf(kind) \subseteq Plans
  BY DEF Plans
<1>2. \A kind \in CallKinds : Steps(kind) \in PlansOf(kind)
  BY DEF CallKinds, Steps, PlansOf
<1>3. ASSUME NEW kind \in CallKinds, NEW todo \in PlansOf(kind) PROVE todo # <<>>
  <2>1. /\ <<"create", "sync">> # <<>> /\ <<"sync">> # <<>> /\ <<"pause", "sync">> # <<>>
        /\ <<"resume", "sync">> # <<>> /\ <<"list", "next">> # <<>> /\ <<"next">> # <<>>
        /\ <<"sync", "next">> # <<>> /\ <<"save", "sync">> # <<>>
    OBVIOUS
  <2>2. /\ <<"read", "pause", "sync">> # <<>> /\ <<"read", "resume", "sync">> # <<>>
        /\ <<"save", "sync", "next">> # <<>> /\ <<"note", "sync", "next">> # <<>>
        /\ <<"enqueue", "save", "sync">> # <<>> /\ <<"enqueue", "save", "sync", "next">> # <<>>
        /\ <<"read", "enqueue", "save", "sync">> # <<>>
    OBVIOUS
  <2> QED BY <2>1, <2>2 DEF PlansOf
<1> QED BY <1>1, <1>2, <1>3 DEF Plans

\* What comes next in a call of each kind.
LeadsOn(kind, todo) ==
    /\ Tail(todo) = <<>> \/ Tail(todo) \in PlansOf(kind)
    /\ Head(todo) = "create" => kind = "create"
    /\ Head(todo) = "pause" => kind = "pause"
    /\ Head(todo) = "resume" => kind = "resume"
    /\ Head(todo) \in {"list", "next", "note"} => kind = "tick"
    /\ Head(todo) \in {"enqueue", "save"} => kind \in {"trigger", "tick", "fire"}
    /\ Head(todo) = "read" =>
         /\ kind \in {"pause", "resume", "trigger", "fire"}
         /\ Tail(todo) \in PlansOf(kind) /\ Head(Tail(todo)) \in {"pause", "resume", "enqueue"}
    /\ Head(todo) \in {"create", "pause", "resume", "note", "save"} =>
         Tail(todo) \in PlansOf(kind) /\ Head(Tail(todo)) = "sync"
    /\ Head(todo) = "enqueue" => Tail(todo) \in PlansOf(kind) /\ Head(Tail(todo)) = "save"
    /\ Head(todo) = "list" => Tail(todo) \in PlansOf(kind) /\ Head(Tail(todo)) = "next"
    /\ Head(todo) = "next" => Tail(todo) = <<>>
    /\ Head(todo) = "sync" =>
         \/ Tail(todo) = <<>>
         \/ kind = "tick" /\ Tail(todo) \in PlansOf(kind) /\ Head(Tail(todo)) = "next"

LEMMA NextAccess ==
  ASSUME NEW kind \in CallKinds, NEW todo \in PlansOf(kind)
  PROVE  LeadsOn(kind, todo)
<1>1. CASE kind = "create"
  BY <1>1, PlanTails DEF PlansOf, LeadsOn
<1>2. CASE kind = "pause"
  BY <1>2, PlanTails DEF PlansOf, LeadsOn
<1>3. CASE kind = "resume"
  BY <1>3, PlanTails DEF PlansOf, LeadsOn
<1>4. CASE kind = "tick"
  BY <1>4, PlanTails DEF PlansOf, LeadsOn
<1>5. CASE kind \in {"trigger", "fire"}
  BY <1>5, PlanTails DEF PlansOf, LeadsOn
<1> QED BY <1>1, <1>2, <1>3, <1>4, <1>5 DEF CallKinds

LEMMA NotCallingType == NotCalling \notin CallType /\ NotCalling.todo = <<>>
<1>1. NotCalling.todo = <<>>
  BY DEF NotCalling
<1>2. \A q \in CallType : q.todo \in Plans
  BY DEF CallType
<1> QED BY <1>1, <1>2, CallPlanTypes

\* A call in progress, as the actions find it.
LEMMA WorkingCall ==
  ASSUME ScheduleTypes, NEW i \in Calls
  PROVE  /\ calling[i].todo # <<>> <=> calling[i] # NotCalling
         /\ calling[i] # NotCalling =>
              /\ calling[i] \in CallType /\ calling[i].kind \in CallKinds
              /\ calling[i].todo \in PlansOf(calling[i].kind) /\ calling[i].of \in Schedules
              /\ calling[i].seen \in [Schedules -> Record] /\ calling[i].rest \subseteq Schedules
              /\ calling[i].at \in Nat
<1>1. calling[i] \in CallType \union {NotCalling}
  BY DEF ScheduleTypes
<1>2. calling[i] \in CallType => calling[i].todo \in Plans
  BY DEF CallType
<1>3. calling[i].todo # <<>> <=> calling[i] # NotCalling
  BY <1>1, <1>2, NotCallingType, CallPlanTypes
<1>4. calling[i] # NotCalling =>
        /\ calling[i] \in CallType /\ calling[i].kind \in CallKinds /\ calling[i].of \in Schedules
        /\ calling[i].seen \in [Schedules -> Record] /\ calling[i].rest \subseteq Schedules
        /\ calling[i].at \in Nat
  BY <1>1 DEF CallType
<1> QED BY <1>3, <1>4 DEF ScheduleTypes

\* A call becomes y.
Turns(i, y) ==
    /\ y \in CallType \union {NotCalling}
    /\ y # NotCalling => y.todo \in PlansOf(y.kind)
    /\ calling' = [calling EXCEPT ![i] = y]

\* The call q with todo left.
WithLeft(q, todo, y) ==
    /\ y \in CallType /\ y.todo = todo /\ y.kind = q.kind /\ y.of = q.of
    /\ y.at = q.at /\ y.seen = q.seen /\ y.rest = q.rest

LEMMA CallProceeds ==
  ASSUME NEW i \in Calls, NEW q \in CallType, NEW todo \in PlansOf(q.kind), Proceeds(i, q, todo)
  PROVE  \E y : Turns(i, y) /\ WithLeft(q, todo, y)
<1>2. q.kind \in CallKinds
  BY DEF CallType
<1>3. todo \in Plans /\ todo # <<>>
  BY <1>2, CallPlanTypes
<1> DEFINE y == [q EXCEPT !.todo = todo]
<1>4. calling' = [calling EXCEPT ![i] = y]
  BY <1>3 DEF Proceeds
<1>5. WithLeft(q, todo, y)
  BY <1>3 DEF CallType, WithLeft
<1> HIDE DEF y
<1>6. Turns(i, y)
  BY <1>4, <1>5 DEF Turns, WithLeft
<1> QED BY <1>5, <1>6

LEMMA CallReturns ==
  ASSUME NEW i \in Calls, NEW q, Proceeds(i, q, <<>>)
  PROVE  Turns(i, NotCalling)
BY DEF Proceeds, Turns

\* A call that saves its schedule goes on to sync it.
LEMMA CallKeeps ==
  ASSUME ScheduleTypes, NEW i \in Calls, NEW r \in Record, Keep(i, r),
         NEW access \in {"create", "pause", "resume", "note", "save"}, Does(i, access)
  PROVE  \E y :
           /\ y \in CallType /\ Turns(i, y) /\ y.todo \in PlansOf(y.kind) /\ Head(y.todo) = "sync"
           /\ y.kind = calling[i].kind /\ y.of = calling[i].of /\ y.at = calling[i].at
           /\ y.rest = calling[i].rest
           /\ y.seen = [calling[i].seen EXCEPT ![calling[i].of] = r]
           /\ schedule' = [schedule EXCEPT ![calling[i].of] = r]
<1>1. calling[i] # NotCalling /\ Head(calling[i].todo) = access
  BY WorkingCall DEF Does
<1> DEFINE q == [calling[i] EXCEPT !.seen[calling[i].of] = r]
<1>2. CallGoesOn(i, q) /\ schedule' = [schedule EXCEPT ![calling[i].of] = r]
  BY DEF Keep
<1>3. calling[i] \in CallType
  BY <1>1, WorkingCall
<1>4. /\ q \in CallType /\ q.todo = calling[i].todo /\ q.kind = calling[i].kind
      /\ q.of = calling[i].of /\ q.at = calling[i].at /\ q.rest = calling[i].rest
      /\ q.seen = [calling[i].seen EXCEPT ![calling[i].of] = r]
  BY <1>3 DEF CallType
<1> HIDE DEF q
<1> DEFINE left == Tail(q.todo)
<1>5. left \in PlansOf(q.kind) /\ Head(left) = "sync" /\ left # <<>>
  <2>1. /\ q.kind \in CallKinds /\ q.todo \in PlansOf(q.kind)
        /\ Head(q.todo) \in {"create", "pause", "resume", "note", "save"}
    BY <1>1, <1>4, WorkingCall
  <2>2. left \in PlansOf(q.kind) /\ Head(left) = "sync"
    <3>1. LeadsOn(q.kind, q.todo)
      BY <2>1, NextAccess
    <3> QED BY <2>1, <3>1 DEF LeadsOn
  <2> QED BY <2>1, <2>2, CallPlanTypes
<1>6. Proceeds(i, q, left)
  BY <1>2 DEF CallGoesOn
<1> HIDE DEF left
<1>7. PICK y : Turns(i, y) /\ WithLeft(q, left, y)
  BY <1>4, <1>5, <1>6, CallProceeds
<1>8. y \in CallType /\ y.seen = [calling[i].seen EXCEPT ![calling[i].of] = r]
  BY <1>4, <1>7 DEF WithLeft
<1>9. /\ y.todo \in PlansOf(y.kind) /\ Head(y.todo) = "sync" /\ y.kind = calling[i].kind
      /\ y.of = calling[i].of /\ y.at = calling[i].at /\ y.rest = calling[i].rest
  BY <1>4, <1>5, <1>7 DEF WithLeft
<1> QED BY <1>2, <1>7, <1>8, <1>9, Zenon

\* A call that is alone holds the schedules as they are stored, and knows that
\* what it fires is due.
Sound(q) ==
    LET access == Head(q.todo) IN
    /\ up /\ q.seen = schedule
    /\ access = "create" => ~schedule[q.of].known
    /\ q.kind \in {"pause", "resume", "trigger"} => schedule[q.of].known
    /\ q.kind = "fire" /\ access # "sync" => schedule[q.of].next # Never /\ jobAt[q.of] = Never
    /\ q.kind = "tick" =>
         /\ \A s \in q.rest : schedule[s].next # Never
         /\ access \in {"enqueue", "save", "note"} => schedule[q.of].next # Never /\ q.of \notin q.rest
CallSound(i) == calling[i] # NotCalling => Sound(calling[i])

\* The jobs follow the schedules, except the one a call is about to sync or
\* was started by.
Matches(s) == jobAt[s] = IF schedule[s].enabled /\ s \notin lost THEN schedule[s].next ELSE Never
InHand(i, s) ==
    /\ calling[i] # NotCalling /\ calling[i].of = s
    /\ calling[i].kind = "fire" \/ Head(calling[i].todo) = "sync"
JobsFollow(i) == up => \A s \in Schedules : Matches(s) \/ InHand(i, s)

\* Occurrences lie behind their schedule, or are the one it is at.
ServedBefore ==
    /\ \A s \in Schedules : schedule[s].next # Never => schedule[s].known
    /\ served \subseteq Schedules \X Nat
    /\ \A o \in served :
         /\ schedule[o[1]].known
         /\ schedule[o[1]].next # Never => o[2] <= schedule[o[1]].next

\* The schedules whose occurrence was fired by a call that is gone: it will be
\* fired again.  Each is the work of one kill.
Fired(s) == schedule[s].next # Never /\ <<s, schedule[s].next>> \in served
BeingSaved(i, s) ==
    /\ calling[i] # NotCalling /\ calling[i].of = s
    /\ calling[i].kind \in Automatic /\ Head(calling[i].todo) = "save"
Unsaved(i) == {s \in Schedules : Fired(s) /\ ~BeingSaved(i, s)}
RepeatsFew(i) == IsFiniteSet(Unsaved(i)) /\ repeats + Cardinality(Unsaved(i)) <= stops

AloneInv(i) ==
    ScheduleTypes /\ CallSound(i) /\ JobsFollow(i) /\ ServedBefore /\ RepeatsFew(i)

LEMMA RepeatsStayFew ==
  ASSUME ScheduleTypes, NEW i \in Calls, RepeatsFew(i), Unsaved(i)' \subseteq Unsaved(i),
         repeats' = repeats, stops' = stops
  PROVE  RepeatsFew(i)'
<1>1. IsFiniteSet(Unsaved(i)') /\ Cardinality(Unsaved(i)') <= Cardinality(Unsaved(i))
      /\ Cardinality(Unsaved(i)') \in Nat /\ Cardinality(Unsaved(i)) \in Nat
  BY FS_Subset, FS_CardinalityType DEF RepeatsFew
<1>2. repeats \in Nat /\ stops \in Nat
  BY DEF ScheduleTypes
<1> QED BY <1>1, <1>2 DEF RepeatsFew

LEMMA ScheduleTypesInitially == ScheduleInit => ScheduleTypes
<1> SUFFICES ASSUME ScheduleInit PROVE ScheduleTypes
  OBVIOUS
<1>1. NoSchedule \in Record
  BY DEF NoSchedule, Record, Never
<1>2. Never \in Nat \union {Never}
  OBVIOUS
<1>3. 0 \in 0 .. MaxOutages
  BY ScheduleAssumption
<1> QED BY <1>1, <1>2, <1>3 DEF ScheduleInit, ScheduleTypes

LEMMA AloneInitially ==
  ASSUME NEW i \in Calls, ScheduleInit
  PROVE  AloneInv(i)
<1>1. /\ \A s \in Schedules : schedule[s] = NoSchedule /\ jobAt[s] = Never
      /\ calling[i] = NotCalling /\ served = {} /\ repeats = 0 /\ stops = 0
  BY DEF ScheduleInit
<1>2. ~NoSchedule.enabled /\ NoSchedule.next = Never
  BY DEF NoSchedule
<1>3. CallSound(i) /\ JobsFollow(i) /\ ServedBefore
  BY <1>1, <1>2 DEF CallSound, JobsFollow, Matches, ServedBefore
<1>4. Unsaved(i) = {}
  BY <1>1 DEF Unsaved, Fired
<1>5. RepeatsFew(i)
  BY <1>1, <1>4, FS_EmptySet DEF RepeatsFew
<1> QED BY <1>3, <1>5, ScheduleTypesInitially DEF AloneInv

\* A step that changes nothing but a call, which is not saving or syncing.
OnlyCalls(i, y) ==
    /\ Turns(i, y) /\ UNCHANGED <<kept, jobAt, up, clock, lost, stops>>
    /\ calling[i] # NotCalling => Head(calling[i].todo) \notin {"sync", "save"}
    /\ calling[i] # NotCalling /\ calling[i].kind = "fire" =>
         y # NotCalling /\ y.kind = "fire" /\ y.of = calling[i].of

LEMMA CallAlone ==
  ASSUME NEW i \in Calls, AloneInv(i), NEW y, OnlyCalls(i, y), y # NotCalling => Sound(y)'
  PROVE  AloneInv(i)'
<1>t. ScheduleTypes
  BY DEF AloneInv
<1>1. calling'[i] = y
  BY <1>t DEF OnlyCalls, Turns, ScheduleTypes
<1>2. ScheduleTypes'
  BY <1>t DEF OnlyCalls, Turns, ScheduleTypes, kept
<1>3. ServedBefore'
  BY DEF OnlyCalls, AloneInv, ServedBefore, kept
<1>4. JobsFollow(i)'
  <2>1. \A s \in Schedules : Matches(s)' = Matches(s)
    BY DEF OnlyCalls, Matches, kept
  <2>2. \A s \in Schedules : InHand(i, s) => InHand(i, s)'
    BY <1>1 DEF OnlyCalls, InHand
  <2> QED BY <2>1, <2>2 DEF OnlyCalls, AloneInv, JobsFollow
<1>5. RepeatsFew(i)'
  <2>1. \A s \in Schedules : Fired(s)' = Fired(s) /\ ~BeingSaved(i, s)
    BY DEF OnlyCalls, Fired, BeingSaved, kept
  <2>2. Unsaved(i)' \subseteq Unsaved(i)
    BY <2>1 DEF Unsaved
  <2> QED BY <1>t, <2>2, RepeatsStayFew DEF OnlyCalls, AloneInv, kept
<1>6. CallSound(i)'
  BY <1>1 DEF CallSound, Sound
<1> QED BY <1>2, <1>3, <1>4, <1>5, <1>6 DEF AloneInv

\* What the steps that only move a call make of it.
Begun(kind, s, y) ==
    /\ y \in CallType /\ y.todo = Steps(kind) /\ y.kind = kind /\ y.of = s
    /\ y.seen = schedule /\ y.rest = {}

LEMMA CallBegins ==
  ASSUME ScheduleTypes, NEW i \in Calls, NEW kind \in CallKinds, NEW s \in Schedules,
         calling' = [calling EXCEPT ![i] = NewCall(kind, s)]
  PROVE  Turns(i, NewCall(kind, s)) /\ Begun(kind, s, NewCall(kind, s))
<1> DEFINE y == NewCall(kind, s)
<1>1. Steps(kind) \in PlansOf(kind) /\ Steps(kind) \in Plans
  BY CallPlanTypes
<1>2. /\ y \in CallType /\ y.todo = Steps(kind) /\ y.kind = kind /\ y.of = s
      /\ y.seen = schedule /\ y.rest = {}
  BY <1>1 DEF NewCall, CallType, ScheduleTypes
<1>3. Turns(i, y)
  BY <1>1, <1>2 DEF Turns
<1> QED BY <1>2, <1>3 DEF Begun

LEMMA CallReads ==
  ASSUME ScheduleTypes, NEW i \in Calls, ReadSchedule(i)
  PROVE  /\ calling[i] # NotCalling /\ Head(calling[i].todo) = "read"
         /\ calling[i].kind \in {"pause", "resume", "trigger", "fire"}
         /\ \E y : /\ Turns(i, y) /\ y \in CallType /\ y.kind = calling[i].kind /\ y.of = calling[i].of
                   /\ Head(y.todo) \in {"pause", "resume", "enqueue"} /\ y.seen = schedule
                   /\ y.rest = calling[i].rest
<1> DEFINE q == [calling[i] EXCEPT !.seen = schedule]
           left == Tail(q.todo)
<1>1. calling[i] # NotCalling /\ Head(calling[i].todo) = "read" /\ CallGoesOn(i, q)
  BY WorkingCall DEF ReadSchedule, Does
<1>2. /\ calling[i] \in CallType /\ calling[i].kind \in CallKinds
      /\ calling[i].todo \in PlansOf(calling[i].kind)
  BY <1>1, WorkingCall
<1>3. schedule \in [Schedules -> Record]
  BY DEF ScheduleTypes
<1>4. /\ q \in CallType /\ q.todo = calling[i].todo /\ q.kind = calling[i].kind
      /\ q.of = calling[i].of /\ q.seen = schedule /\ q.rest = calling[i].rest
  BY <1>2, <1>3 DEF CallType
<1> HIDE DEF q
<1>5. /\ left \in PlansOf(q.kind) /\ Head(left) \in {"pause", "resume", "enqueue"}
      /\ calling[i].kind \in {"pause", "resume", "trigger", "fire"}
  <2> DEFINE c == calling[i]
  <2>1. /\ Tail(c.todo) \in PlansOf(c.kind) /\ Head(Tail(c.todo)) \in {"pause", "resume", "enqueue"}
        /\ c.kind \in {"pause", "resume", "trigger", "fire"}
    <3>1. c.kind \in CallKinds /\ c.todo \in PlansOf(c.kind) /\ Head(c.todo) = "read"
      BY <1>1, <1>2
    <3> HIDE DEF c
    <3>2. LeadsOn(c.kind, c.todo)
      BY <3>1, NextAccess
    <3> QED BY <3>1, <3>2 DEF LeadsOn
  <2> QED BY <1>4, <2>1
<1>6. Proceeds(i, q, left)
  BY <1>1 DEF CallGoesOn
<1> HIDE DEF left
<1>7. PICK y : Turns(i, y) /\ WithLeft(q, left, y)
  BY <1>4, <1>5, <1>6, CallProceeds
<1> QED BY <1>1, <1>4, <1>5, <1>7 DEF WithLeft

LEMMA CallLists ==
  ASSUME ScheduleTypes, NEW i \in Calls, List(i)
  PROVE  /\ calling[i] # NotCalling /\ Head(calling[i].todo) = "list" /\ calling[i].kind = "tick"
         /\ \E y : /\ Turns(i, y) /\ y \in CallType /\ y.kind = "tick" /\ y.of = calling[i].of
                   /\ Head(y.todo) = "next" /\ y.seen = schedule
                   /\ y.rest = {s \in Schedules : IsDue(schedule[s], calling[i].at)}
<1> DEFINE due == {s \in Schedules : IsDue(schedule[s], calling[i].at)}
           q == [calling[i] EXCEPT !.seen = schedule, !.rest = due]
           left == Tail(q.todo)
<1>1. calling[i] # NotCalling /\ Head(calling[i].todo) = "list" /\ CallGoesOn(i, q)
  BY WorkingCall DEF List, Does
<1>2. /\ calling[i] \in CallType /\ calling[i].kind \in CallKinds
      /\ calling[i].todo \in PlansOf(calling[i].kind)
  BY <1>1, WorkingCall
<1>3. schedule \in [Schedules -> Record] /\ due \subseteq Schedules
  BY DEF ScheduleTypes
<1> HIDE DEF due
<1>4. /\ q \in CallType /\ q.todo = calling[i].todo /\ q.kind = calling[i].kind
      /\ q.of = calling[i].of /\ q.seen = schedule /\ q.rest = due
  BY <1>2, <1>3 DEF CallType
<1> HIDE DEF q
<1>5. left \in PlansOf(q.kind) /\ Head(left) = "next" /\ calling[i].kind = "tick"
  <2> DEFINE c == calling[i]
  <2>1. Tail(c.todo) \in PlansOf(c.kind) /\ Head(Tail(c.todo)) = "next" /\ c.kind = "tick"
    <3>1. c.kind \in CallKinds /\ c.todo \in PlansOf(c.kind) /\ Head(c.todo) = "list"
      BY <1>1, <1>2
    <3> HIDE DEF c
    <3>2. LeadsOn(c.kind, c.todo)
      BY <3>1, NextAccess
    <3> QED BY <3>1, <3>2 DEF LeadsOn
  <2> QED BY <1>4, <2>1
<1>6. Proceeds(i, q, left)
  BY <1>1 DEF CallGoesOn
<1> HIDE DEF left
<1>7. PICK y : Turns(i, y) /\ WithLeft(q, left, y)
  BY <1>4, <1>5, <1>6, CallProceeds
<1> QED BY <1>1, <1>4, <1>5, <1>7 DEF WithLeft, due

\* A tick turns to the next schedule that is due, or ends.
LEMMA CallTurnsToNext ==
  ASSUME ScheduleTypes, NEW i \in Calls, NextDue(i)
  PROVE  /\ calling[i] # NotCalling /\ Head(calling[i].todo) = "next" /\ calling[i].kind = "tick"
         /\ \/ Turns(i, NotCalling)
            \/ \E y : /\ Turns(i, y) /\ y \in CallType /\ y.kind = "tick" /\ Head(y.todo) = "enqueue"
                      /\ y.of \in calling[i].rest /\ y.rest = calling[i].rest \ {y.of}
                      /\ y.seen = calling[i].seen
<1> DEFINE c == calling[i]
<1>1. c # NotCalling /\ Head(c.todo) = "next"
  BY WorkingCall DEF NextDue, Does
<1>2. c \in CallType /\ c.kind \in CallKinds /\ c.todo \in PlansOf(c.kind)
  BY <1>1, WorkingCall
<1>3. c.kind = "tick" /\ Tail(c.todo) = <<>>
  <2>1. LeadsOn(c.kind, c.todo)
    BY <1>2, NextAccess
  <2> QED BY <1>1, <2>1 DEF LeadsOn
<1>4. CASE CallGoesOn(i, c)
  <2>1. Turns(i, NotCalling)
    BY <1>3, <1>4, CallReturns DEF CallGoesOn
  <2> QED BY <1>1, <1>3, <2>1
<1>5. ASSUME NEW s \in c.rest,
             Proceeds(i, [c EXCEPT !.of = s, !.rest = @ \ {s}], <<"enqueue", "save", "sync", "next">>)
      PROVE  \E y : /\ Turns(i, y) /\ y \in CallType /\ y.kind = "tick" /\ Head(y.todo) = "enqueue"
                    /\ y.of \in c.rest /\ y.rest = c.rest \ {y.of} /\ y.seen = c.seen
  <2> DEFINE q == [[c EXCEPT !.of = s] EXCEPT !.rest = @ \ {s}]
             left == <<"enqueue", "save", "sync", "next">>
  <2>1. /\ q \in CallType /\ q.kind = "tick" /\ q.of = s /\ q.rest = c.rest \ {s} /\ q.seen = c.seen
    BY <1>2, <1>3 DEF CallType
  <2>2. Proceeds(i, q, left)
    BY <1>5
  <2> HIDE DEF q
  <2>3. left \in PlansOf(q.kind) /\ Head(left) = "enqueue"
    BY <2>1, PlanTails DEF PlansOf
  <2> HIDE DEF left
  <2>4. PICK y : Turns(i, y) /\ WithLeft(q, left, y)
    BY <2>1, <2>2, <2>3, CallProceeds
  <2> QED BY <2>1, <2>3, <2>4 DEF WithLeft
<1> QED BY <1>1, <1>3, <1>4, <1>5 DEF NextDue

LEMMA InvBegin ==
  ASSUME NEW i \in Calls, AloneInv(i), NEW kind \in CallKinds, NEW s \in Schedules, BeginCall(i, kind, s)
  PROVE  AloneInv(i)'
<1>1. ScheduleTypes /\ calling[i] = NotCalling
  BY WorkingCall DEF AloneInv, BeginCall
<1>2. calling' = [calling EXCEPT ![i] = NewCall(kind, s)]
  BY DEF BeginCall
<1>3. PICK y : Turns(i, y) /\ Begun(kind, s, y)
  <2>1. Turns(i, NewCall(kind, s)) /\ Begun(kind, s, NewCall(kind, s))
    BY <1>1, <1>2, CallBegins
  <2> QED BY <2>1
<1>4. up /\ UNCHANGED <<kept, jobAt, up, clock, lost, stops>>
  BY DEF BeginCall
<1>5. OnlyCalls(i, y)
  BY <1>1, <1>3, <1>4 DEF OnlyCalls
<1>6. kind # "fire" /\ (kind = "create" <=> ~schedule[s].known)
  <2>1. kind # "fire" /\ (kind = "create") # schedule[s].known
    BY DEF BeginCall
  <2>2. schedule[s].known \in BOOLEAN
    BY <1>1 DEF ScheduleTypes, Record
  <2> QED BY <2>1, <2>2
<1>7. Head(Steps(kind)) \notin {"enqueue", "save", "note"} /\ (Head(Steps(kind)) = "create" => kind = "create")
  BY PlanTails DEF Steps
<1>8. Sound(y)'
  BY <1>3, <1>4, <1>6, <1>7 DEF Sound, kept, Begun
<1> QED BY <1>5, <1>8, CallAlone

LEMMA InvRead == ASSUME NEW i \in Calls, AloneInv(i), ReadSchedule(i) PROVE AloneInv(i)'
<1>1. ScheduleTypes
  BY DEF AloneInv
<1>2. /\ calling[i] # NotCalling /\ Head(calling[i].todo) = "read"
      /\ calling[i].kind \in {"pause", "resume", "trigger", "fire"}
  BY <1>1, CallReads
<1>3. PICK y : /\ Turns(i, y) /\ y \in CallType /\ y.kind = calling[i].kind /\ y.of = calling[i].of
               /\ Head(y.todo) \in {"pause", "resume", "enqueue"} /\ y.seen = schedule
               /\ y.rest = calling[i].rest
  BY <1>1, CallReads
<1>4. y # NotCalling
  BY <1>3, NotCallingType
<1>5. OnlyCalls(i, y)
  BY <1>2, <1>3, <1>4 DEF OnlyCalls, ReadSchedule
<1>6. Sound(calling[i])
  BY <1>2 DEF AloneInv, CallSound
<1>7. Sound(y)'
  BY <1>2, <1>3, <1>6 DEF Sound, ReadSchedule, kept
<1> QED BY <1>5, <1>7, CallAlone

LEMMA InvList == ASSUME NEW i \in Calls, AloneInv(i), List(i) PROVE AloneInv(i)'
<1>1. ScheduleTypes
  BY DEF AloneInv
<1>2. calling[i] # NotCalling /\ Head(calling[i].todo) = "list" /\ calling[i].kind = "tick"
  BY <1>1, CallLists
<1>3. PICK y : /\ Turns(i, y) /\ y \in CallType /\ y.kind = "tick" /\ y.of = calling[i].of
               /\ Head(y.todo) = "next" /\ y.seen = schedule
               /\ y.rest = {s \in Schedules : IsDue(schedule[s], calling[i].at)}
  BY <1>1, CallLists
<1>4. OnlyCalls(i, y)
  BY <1>2, <1>3 DEF OnlyCalls, List
<1>5. Sound(calling[i])
  BY <1>2 DEF AloneInv, CallSound
<1>6. \A s \in y.rest : schedule[s].next # Never
  BY <1>3 DEF IsDue
<1>7. Sound(y)'
  BY <1>3, <1>5, <1>6 DEF Sound, List, kept
<1> QED BY <1>4, <1>7, CallAlone

LEMMA InvNextDue == ASSUME NEW i \in Calls, AloneInv(i), NextDue(i) PROVE AloneInv(i)'
<1>1. ScheduleTypes
  BY DEF AloneInv
<1>2. calling[i] # NotCalling /\ Head(calling[i].todo) = "next" /\ calling[i].kind = "tick"
  BY <1>1, CallTurnsToNext
<1>3. Sound(calling[i])
  BY <1>2 DEF AloneInv, CallSound
<1>4. CASE Turns(i, NotCalling)
  <2>1. OnlyCalls(i, NotCalling)
    BY <1>2, <1>4 DEF OnlyCalls, NextDue
  <2> QED BY <2>1, CallAlone
<1>5. CASE ~Turns(i, NotCalling)
  <2>1. PICK y : /\ Turns(i, y) /\ y \in CallType /\ y.kind = "tick" /\ Head(y.todo) = "enqueue"
                 /\ y.of \in calling[i].rest /\ y.rest = calling[i].rest \ {y.of}
                 /\ y.seen = calling[i].seen
    BY <1>1, <1>5, CallTurnsToNext
  <2>2. OnlyCalls(i, y)
    BY <1>2, <2>1 DEF OnlyCalls, NextDue
  <2>3. Sound(y)'
    BY <1>2, <1>3, <2>1 DEF Sound, NextDue, kept
  <2> QED BY <2>2, <2>3, CallAlone
<1> QED BY <1>4, <1>5

\* What a call may save without leaving an occurrence behind that is fired again.
SavesSchedule(i, r) ==
    LET of == calling[i].of IN
    /\ r \in Record /\ r.known /\ Keep(i, r)
    /\ UNCHANGED <<jobAt, up, clock, queued, repeats, lost, stops>>
    /\ of \in calling[i].rest => calling[i].kind # "tick"
    /\ \/ served' = Renewed(of)
       \/ served' = served /\ (r.next = Never \/ \A o \in served : o[1] = of => o[2] < r.next)
       \/ served' = served /\ r.next = schedule[of].next /\ ~BeingSaved(i, of)

LEMMA InvSaves ==
  ASSUME NEW i \in Calls, AloneInv(i), NEW r, SavesSchedule(i, r),
         NEW access \in {"create", "pause", "resume", "note", "save"}, Does(i, access)
  PROVE  AloneInv(i)'
<1> DEFINE of == calling[i].of
<1>1. /\ ScheduleTypes /\ calling[i] # NotCalling /\ Head(calling[i].todo) # "sync"
      /\ calling[i].of \in Schedules
  BY WorkingCall DEF AloneInv, Does
<1>2. Sound(calling[i])
  BY <1>1 DEF AloneInv, CallSound
<1>3. r \in Record /\ r.known /\ Keep(i, r)
  BY DEF SavesSchedule
<1>4. PICK y :
        /\ y \in CallType /\ Turns(i, y) /\ y.todo \in PlansOf(y.kind) /\ Head(y.todo) = "sync"
        /\ y.kind = calling[i].kind /\ y.of = of /\ y.at = calling[i].at
        /\ y.rest = calling[i].rest
        /\ y.seen = [calling[i].seen EXCEPT ![of] = r]
        /\ schedule' = [schedule EXCEPT ![of] = r]
  BY <1>1, <1>3, CallKeeps
<1>5. UNCHANGED <<jobAt, up, clock, queued, repeats, lost, stops>>
  BY DEF SavesSchedule
<1>6. calling'[i] = y /\ y # NotCalling
  BY <1>1, <1>4, NotCallingType DEF Turns, ScheduleTypes
<1>7. /\ schedule' \in [Schedules -> Record] /\ schedule'[of] = r
      /\ \A s \in Schedules : s # of => schedule'[s] = schedule[s]
  BY <1>1, <1>3, <1>4 DEF ScheduleTypes
<1>8. ScheduleTypes'
  BY <1>1, <1>4, <1>5, <1>7 DEF Turns, ScheduleTypes
<1>9. /\ \A o \in served' : o \in served
      /\ \A o \in served : o[1] # of => o \in served'
      /\ r.next # Never => \A o \in served' : o[1] = of => o[2] <= r.next
  <2>1. CASE served' = Renewed(of)
    BY <2>1 DEF Renewed
  <2>2. CASE served' = served /\ (r.next = Never \/ \A o \in served : o[1] = of => o[2] < r.next)
    <3>1. r.next # Never => r.next \in Nat /\ \A o \in served : o[2] \in Nat
      BY <1>3 DEF AloneInv, ServedBefore, Record
    <3> QED BY <2>2, <3>1
  <2>3. CASE served' = served /\ r.next = schedule[of].next
    BY <1>1, <2>3 DEF AloneInv, ServedBefore
  <2> QED BY <2>1, <2>2, <2>3 DEF SavesSchedule
<1>10. CallSound(i)'
  <2>1. of \in y.rest => y.kind # "tick"
    BY <1>4 DEF SavesSchedule
  <2>2. y.seen = schedule' /\ up'
    BY <1>2, <1>4, <1>5 DEF Sound
  <2>3. y.kind \in {"pause", "resume", "trigger"} => schedule'[y.of].known
    BY <1>3, <1>4, <1>7
  <2>4. y.kind = "tick" => \A s \in y.rest : schedule'[s].next # Never
    <3>1. calling[i].rest \subseteq Schedules
      BY <1>1, WorkingCall
    <3> QED BY <1>2, <1>4, <1>7, <2>1, <3>1 DEF Sound
  <2> QED BY <1>4, <1>6, <2>2, <2>3, <2>4 DEF CallSound, Sound
<1>11. JobsFollow(i)'
  <2>1. ASSUME NEW s \in Schedules, s # of, up PROVE Matches(s)'
    <3>1. Matches(s)
      BY <1>1, <2>1 DEF AloneInv, JobsFollow, InHand, Sound
    <3> QED BY <1>5, <1>7, <2>1, <3>1 DEF Matches
  <2>2. ASSUME NEW s \in Schedules, s = of PROVE InHand(i, s)'
    BY <1>4, <1>6, <2>2 DEF InHand
  <2> QED BY <1>5, <2>1, <2>2 DEF JobsFollow
<1>12. ServedBefore'
  BY <1>1, <1>3, <1>7, <1>9 DEF AloneInv, ServedBefore
<1>13. RepeatsFew(i)'
  <2>1. ASSUME NEW s \in Schedules, Fired(s)' PROVE Fired(s) /\ ~BeingSaved(i, s)
    <3>1. CASE s # of
      BY <1>7, <1>9, <2>1, <3>1 DEF Fired, BeingSaved
    <3>2. CASE s = of
      <4>1. r.next # Never /\ <<of, r.next>> \in served'
        BY <1>7, <2>1, <3>2 DEF Fired
      <4>2. served' # Renewed(of)
        BY <4>1 DEF Renewed
      <4>3. ~(\A o \in served : o[1] = of => o[2] < r.next)
        <5>1. r.next \in Nat /\ <<of, r.next>> \in served
          BY <1>3, <1>9, <4>1 DEF Record
        <5> QED BY <5>1
      <4>4. served' = served /\ r.next = schedule[of].next /\ ~BeingSaved(i, of)
        BY <4>1, <4>2, <4>3 DEF SavesSchedule
      <4> QED BY <3>2, <4>1, <4>4 DEF Fired
    <3> QED BY <3>1, <3>2
  <2>2. Unsaved(i)' \subseteq Unsaved(i)
    BY <2>1 DEF Unsaved
  <2> QED BY <1>1, <1>5, <2>2, RepeatsStayFew DEF AloneInv
<1> QED BY <1>8, <1>10, <1>11, <1>12, <1>13 DEF AloneInv

\* A call that works on a schedule, and what it holds.
LEMMA CallHolds ==
  ASSUME NEW i \in Calls, AloneInv(i), NEW access, Does(i, access)
  PROVE  /\ ScheduleTypes /\ calling[i] # NotCalling /\ Head(calling[i].todo) = access
         /\ calling[i].of \in Schedules /\ calling[i].at \in Nat /\ calling[i].kind \in CallKinds
         /\ calling[i].todo \in PlansOf(calling[i].kind)
         /\ calling[i].seen = schedule /\ schedule[calling[i].of] \in Record /\ Sound(calling[i])
<1>1. ScheduleTypes /\ calling[i] # NotCalling /\ Head(calling[i].todo) = access
  BY WorkingCall DEF AloneInv, Does
<1>2. Sound(calling[i]) /\ calling[i].seen = schedule
  BY <1>1 DEF AloneInv, CallSound, Sound
<1>3. /\ calling[i].of \in Schedules /\ calling[i].at \in Nat /\ calling[i].kind \in CallKinds
      /\ calling[i].todo \in PlansOf(calling[i].kind)
  BY <1>1, WorkingCall
<1>4. schedule[calling[i].of] \in Record
  BY <1>1, <1>3 DEF ScheduleTypes
<1> QED BY <1>1, <1>2, <1>3, <1>4

LEMMA InvCreateSchedule == ASSUME NEW i \in Calls, AloneInv(i), CreateSchedule(i) PROVE AloneInv(i)'
<1>1. Does(i, "create") /\ UNCHANGED <<jobAt, up, clock, queued, served, repeats, lost, stops>>
  BY DEF CreateSchedule
<1> DEFINE c == calling[i]
<1>2. /\ Head(c.todo) = "create" /\ c.at \in Nat /\ c.of \in Schedules /\ c.kind \in CallKinds
      /\ c.todo \in PlansOf(c.kind) /\ Sound(c)
  BY <1>1, CallHolds
<1>3. c.kind = "create" /\ ~schedule[c.of].known
  <2>1. c.kind = "create"
    <3>1. c.kind \in CallKinds /\ c.todo \in PlansOf(c.kind) /\ Head(c.todo) = "create"
      BY <1>2
    <3> HIDE DEF c
    <3>2. LeadsOn(c.kind, c.todo)
      BY <3>1, NextAccess
    <3> QED BY <3>1, <3>2 DEF LeadsOn
  <2> QED BY <1>2, <2>1 DEF Sound
<1>4. PICK next \in {c.at} \union Times, on \in BOOLEAN :
        Keep(i, [known |-> TRUE, enabled |-> on, next |-> next, count |-> 0])
  BY DEF CreateSchedule
<1>5. next \in Nat
  BY <1>2, ScheduleAssumption DEF Times
<1>6. [known |-> TRUE, enabled |-> on, next |-> next, count |-> 0] \in Record
  BY <1>5 DEF Record
<1>7. \A o \in served : o[1] # c.of
  BY <1>3 DEF AloneInv, ServedBefore
<1>8. PICK r : /\ r \in Record /\ r.known /\ Keep(i, r)
  BY <1>4, <1>6
<1>9. SavesSchedule(i, r)
  BY <1>1, <1>3, <1>7, <1>8 DEF SavesSchedule
<1> QED BY <1>1, <1>9, InvSaves

LEMMA InvPause == ASSUME NEW i \in Calls, AloneInv(i), Pause(i) PROVE AloneInv(i)'
<1>1. Does(i, "pause") /\ UNCHANGED <<jobAt, up, clock, queued, served, repeats, lost, stops>>
  BY DEF Pause
<1> DEFINE c == calling[i]
<1>2. /\ Head(c.todo) = "pause" /\ c.of \in Schedules /\ c.kind \in CallKinds
      /\ c.todo \in PlansOf(c.kind) /\ c.seen = schedule /\ schedule[c.of] \in Record /\ Sound(c)
  BY <1>1, CallHolds
<1>3. c.kind = "pause" /\ schedule[c.of].known
  <2>1. c.kind = "pause"
    <3>1. c.kind \in CallKinds /\ c.todo \in PlansOf(c.kind) /\ Head(c.todo) = "pause"
      BY <1>2
    <3> HIDE DEF c
    <3>2. LeadsOn(c.kind, c.todo)
      BY <3>1, NextAccess
    <3> QED BY <3>1, <3>2 DEF LeadsOn
  <2> QED BY <1>2, <2>1 DEF Sound
<1> DEFINE r == [schedule[c.of] EXCEPT !.enabled = FALSE]
<1>4. Keep(i, r)
  BY <1>2 DEF Pause
<1>5. r \in Record /\ r.known /\ r.next = schedule[c.of].next
  BY <1>2, <1>3 DEF Record
<1>6. ~BeingSaved(i, c.of)
  BY <1>2 DEF BeingSaved
<1> HIDE DEF r
<1>7. SavesSchedule(i, r)
  BY <1>1, <1>3, <1>4, <1>5, <1>6 DEF SavesSchedule
<1> QED BY <1>1, <1>7, InvSaves

LEMMA InvResume == ASSUME NEW i \in Calls, AloneInv(i), Resume(i) PROVE AloneInv(i)'
<1>1. /\ Does(i, "resume") /\ UNCHANGED <<jobAt, up, clock, queued, repeats, lost, stops>>
      /\ served' = Renewed(calling[i].of)
  BY DEF Resume
<1> DEFINE c == calling[i]
<1>2. /\ Head(c.todo) = "resume" /\ c.at \in Nat /\ c.of \in Schedules /\ c.kind \in CallKinds
      /\ c.todo \in PlansOf(c.kind) /\ c.seen = schedule /\ schedule[c.of] \in Record /\ Sound(c)
  BY <1>1, CallHolds
<1>3. c.kind = "resume" /\ schedule[c.of].known
  <2>1. c.kind = "resume"
    <3>1. c.kind \in CallKinds /\ c.todo \in PlansOf(c.kind) /\ Head(c.todo) = "resume"
      BY <1>2
    <3> HIDE DEF c
    <3>2. LeadsOn(c.kind, c.todo)
      BY <3>1, NextAccess
    <3> QED BY <3>1, <3>2 DEF LeadsOn
  <2> QED BY <1>2, <2>1 DEF Sound
<1> DEFINE was == schedule[c.of]
<1>4. PICK next \in Times \union {IF was.next = Never THEN c.at ELSE was.next} :
        Keep(i, [was EXCEPT !.enabled = TRUE, !.next = next])
  BY <1>2 DEF Resume
<1>5. next \in Nat
  BY <1>2, ScheduleAssumption DEF Times, Record
<1> DEFINE on == [was EXCEPT !.enabled = TRUE]
           r == [on EXCEPT !.next = next]
<1>6. on \in Record /\ on.known
  BY <1>2, <1>3 DEF Record
<1>7. Keep(i, r)
  BY <1>4
<1> HIDE DEF on
<1>8. r \in Record /\ r.known
  BY <1>5, <1>6 DEF Record
<1> HIDE DEF r
<1>9. SavesSchedule(i, r)
  BY <1>1, <1>3, <1>7, <1>8 DEF SavesSchedule
<1> QED BY <1>1, <1>9, InvSaves

LEMMA InvNoteError == ASSUME NEW i \in Calls, AloneInv(i), NoteError(i) PROVE AloneInv(i)'
<1>1. Does(i, "note") /\ UNCHANGED <<jobAt, up, clock, queued, served, repeats, lost, stops>>
  BY DEF NoteError
<1> DEFINE c == calling[i]
<1>2. /\ Head(c.todo) = "note" /\ c.of \in Schedules /\ c.kind \in CallKinds
      /\ c.todo \in PlansOf(c.kind) /\ c.seen = schedule /\ schedule[c.of] \in Record /\ Sound(c)
  BY <1>1, CallHolds
<1>3. c.of \notin c.rest /\ schedule[c.of].known
  <2>1. c.kind = "tick"
    <3>1. c.kind \in CallKinds /\ c.todo \in PlansOf(c.kind) /\ Head(c.todo) = "note"
      BY <1>2
    <3> HIDE DEF c
    <3>2. LeadsOn(c.kind, c.todo)
      BY <3>1, NextAccess
    <3> QED BY <3>1, <3>2 DEF LeadsOn
  <2>2. c.of \notin c.rest /\ schedule[c.of].next # Never
    BY <1>2, <2>1 DEF Sound
  <2> QED BY <1>2, <2>2 DEF AloneInv, ServedBefore
<1> DEFINE r == schedule[c.of]
<1>4. Keep(i, r)
  BY <1>2 DEF NoteError
<1>5. r \in Record /\ r.known /\ r.next = schedule[c.of].next
  BY <1>2, <1>3
<1>6. ~BeingSaved(i, c.of)
  BY <1>2 DEF BeingSaved
<1> HIDE DEF r
<1>7. SavesSchedule(i, r)
  BY <1>1, <1>3, <1>4, <1>5, <1>6 DEF SavesSchedule
<1> QED BY <1>1, <1>7, InvSaves

\* What triggering makes of a schedule.
LEMMA AfterTriggerMovesOn ==
  ASSUME NEW r \in Record, NEW s, NEW q, q.at \in Nat
  PROVE  /\ AfterTrigger(r, s, q) \in Record /\ AfterTrigger(r, s, q).known = r.known
         /\ q.kind \notin Automatic => AfterTrigger(r, s, q).next = r.next
         /\ q.kind \in Automatic /\ r.next # Never =>
              \/ AfterTrigger(r, s, q).next = Never
              \/ AfterTrigger(r, s, q).next > r.next
<1> DEFINE counted == [r EXCEPT !.count = @ + 1]
           off == [counted EXCEPT !.enabled = FALSE]
           at == IF r.next = Never THEN q.at ELSE r.next
<1>1. counted \in Record /\ counted.known = r.known /\ counted.next = r.next
  BY DEF Record
<1>2. at + Interval \in Nat /\ (r.next # Never => at + Interval > r.next)
  BY ScheduleAssumption DEF Record
<1> HIDE DEF counted, at
<1>3. off \in Record /\ off.known = r.known
  BY <1>1 DEF Record
<1> HIDE DEF off
<1>4. [off EXCEPT !.next = Never] \in Record /\ [off EXCEPT !.next = Never].known = r.known
      /\ [off EXCEPT !.next = Never].next = Never
  BY <1>3 DEF Record
<1>5. /\ [counted EXCEPT !.next = at + Interval] \in Record
      /\ [counted EXCEPT !.next = at + Interval].known = r.known
      /\ [counted EXCEPT !.next = at + Interval].next = at + Interval
  BY <1>1, <1>2 DEF Record
<1>6. CASE q.kind \notin Automatic
  <2>1. AfterTrigger(r, s, q) = counted
    BY <1>6 DEF AfterTrigger, counted
  <2> QED BY <1>1, <1>6, <2>1
<1>7. CASE q.kind \in Automatic /\ s \in Once
  <2>1. AfterTrigger(r, s, q) = [off EXCEPT !.next = Never]
    BY <1>7 DEF AfterTrigger, counted, off
  <2> QED BY <1>4, <1>7, <2>1
<1>8. CASE q.kind \in Automatic /\ s \notin Once
  <2>1. AfterTrigger(r, s, q) = [counted EXCEPT !.next = at + Interval]
    BY <1>8 DEF AfterTrigger, counted, at
  <2> QED BY <1>2, <1>5, <1>8, <2>1
<1> QED BY <1>6, <1>7, <1>8

LEMMA InvSaveTriggered == ASSUME NEW i \in Calls, AloneInv(i), SaveTriggered(i) PROVE AloneInv(i)'
<1>1. Does(i, "save") /\ UNCHANGED <<jobAt, up, clock, queued, served, repeats, lost, stops>>
  BY DEF SaveTriggered
<1> DEFINE c == calling[i]
           was == schedule[c.of]
           r == AfterTrigger(was, c.of, c)
<1>2. /\ Head(c.todo) = "save" /\ c.at \in Nat /\ c.of \in Schedules /\ c.kind \in CallKinds
      /\ c.todo \in PlansOf(c.kind) /\ c.seen = schedule /\ was \in Record /\ Sound(c)
  BY <1>1, CallHolds
<1>3. c.kind \in {"trigger", "tick", "fire"}
  <2>1. c.kind \in CallKinds /\ c.todo \in PlansOf(c.kind) /\ Head(c.todo) = "save"
    BY <1>2
  <2> HIDE DEF c
  <2>2. LeadsOn(c.kind, c.todo)
    BY <2>1, NextAccess
  <2> QED BY <2>1, <2>2 DEF LeadsOn
<1>4. Keep(i, r)
  BY <1>2 DEF SaveTriggered
<1>5. /\ r \in Record /\ r.known = was.known
      /\ c.kind \notin Automatic => r.next = was.next
      /\ c.kind \in Automatic /\ was.next # Never => r.next = Never \/ r.next > was.next
  BY <1>2, AfterTriggerMovesOn
<1> HIDE DEF r
<1>6. CASE c.kind = "trigger"
  <2>1. was.known
    BY <1>2, <1>6 DEF Sound
  <2>2. ~BeingSaved(i, c.of) /\ r.next = was.next
    BY <1>5, <1>6 DEF BeingSaved, Automatic
  <2>3. SavesSchedule(i, r)
    BY <1>1, <1>4, <1>5, <1>6, <2>1, <2>2 DEF SavesSchedule
  <2> QED BY <1>1, <2>3, InvSaves
<1>7. CASE c.kind \in Automatic
  <2>1. was.next # Never /\ (c.kind = "tick" => c.of \notin c.rest)
    BY <1>2, <1>7 DEF Sound, Automatic
  <2>2. was.known
    BY <1>2, <2>1 DEF AloneInv, ServedBefore
  <2>3. r.next = Never \/ \A o \in served : o[1] = c.of => o[2] < r.next
    <3>1. r.next = Never \/ r.next > was.next
      BY <1>5, <1>7, <2>1
    <3>2. \A o \in served : o[2] \in Nat /\ (o[1] = c.of => o[2] <= was.next)
      BY <2>1 DEF AloneInv, ServedBefore
    <3>3. was.next \in Nat /\ (r.next # Never => r.next \in Nat)
      BY <1>2, <1>5, <2>1 DEF Record
    <3> QED BY <3>1, <3>2, <3>3
  <2>4. SavesSchedule(i, r)
    BY <1>1, <1>4, <1>5, <2>1, <2>2, <2>3 DEF SavesSchedule
  <2> QED BY <1>1, <2>4, InvSaves
<1> QED BY <1>3, <1>6, <1>7 DEF Automatic

\* A call that goes on with its next access: what is left of it.
LEMMA CallContinues ==
  ASSUME ScheduleTypes, NEW i \in Calls, calling[i] # NotCalling, CallGoesOn(i, calling[i])
  PROVE  \/ Tail(calling[i].todo) = <<>> /\ Turns(i, NotCalling)
         \/ \E y : Turns(i, y) /\ WithLeft(calling[i], Tail(calling[i].todo), y)
<1> DEFINE c == calling[i]
           left == Tail(c.todo)
<1>1. c \in CallType /\ c.kind \in CallKinds /\ c.todo \in PlansOf(c.kind)
  BY WorkingCall
<1>2. Proceeds(i, c, left)
  BY DEF CallGoesOn
<1>3. left = <<>> \/ left \in PlansOf(c.kind)
  <2> HIDE DEF c
  <2>1. LeadsOn(c.kind, c.todo)
    BY <1>1, NextAccess
  <2> QED BY <2>1 DEF LeadsOn
<1> HIDE DEF left
<1>4. CASE left = <<>>
  BY <1>2, <1>4, CallReturns DEF left
<1>5. CASE left \in PlansOf(c.kind)
  BY <1>1, <1>2, <1>5, CallProceeds DEF left
<1> QED BY <1>3, <1>4, <1>5

LEMMA InvEnqueue == ASSUME NEW i \in Calls, AloneInv(i), Enqueue(i) PROVE AloneInv(i)'
<1>1. Does(i, "enqueue") /\ UNCHANGED <<schedule, jobAt, up, clock, lost, stops>>
  BY DEF Enqueue
<1> DEFINE c == calling[i]
           o == <<c.of, schedule[c.of].next>>
<1>2. /\ ScheduleTypes /\ c # NotCalling /\ Head(c.todo) = "enqueue" /\ c.of \in Schedules
      /\ c.kind \in CallKinds /\ c.todo \in PlansOf(c.kind) /\ c.seen = schedule
      /\ schedule[c.of] \in Record /\ Sound(c)
  BY <1>1, CallHolds
<1>3. /\ c.kind \in {"trigger", "tick", "fire"} /\ Tail(c.todo) # <<>>
      /\ Head(Tail(c.todo)) = "save"
  <2>1. /\ c.kind \in {"trigger", "tick", "fire"} /\ Tail(c.todo) \in PlansOf(c.kind)
        /\ Head(Tail(c.todo)) = "save"
    <3>1. c.kind \in CallKinds /\ c.todo \in PlansOf(c.kind) /\ Head(c.todo) = "enqueue"
      BY <1>2
    <3> HIDE DEF c
    <3>2. LeadsOn(c.kind, c.todo)
      BY <3>1, NextAccess
    <3> QED BY <3>1, <3>2 DEF LeadsOn
  <2> QED BY <1>2, <2>1, CallPlanTypes
<1>4. CallGoesOn(i, c)
  BY DEF Enqueue
<1>5. PICK y : Turns(i, y) /\ WithLeft(c, Tail(c.todo), y)
  BY <1>2, <1>3, <1>4, CallContinues
<1>6. /\ y # NotCalling /\ Head(y.todo) = "save" /\ y.kind = c.kind /\ y.of = c.of
      /\ y.seen = schedule /\ y.rest = c.rest /\ calling'[i] = y
  BY <1>2, <1>3, <1>5, NotCallingType DEF WithLeft, Turns, ScheduleTypes
<1>7. /\ queued' = [queued EXCEPT ![c.of] = @ + 1]
      /\ c.kind \in Automatic =>
           /\ served' = served \union {o}
           /\ repeats' = IF o \in served THEN repeats + 1 ELSE repeats
      /\ c.kind \notin Automatic => UNCHANGED <<served, repeats>>
  BY <1>2 DEF Enqueue
<1>8. c.kind \in Automatic => schedule[c.of].next # Never
  BY <1>2 DEF Sound, Automatic
<1>9. ScheduleTypes'
  <2>1. queued' \in [Schedules -> Nat] /\ repeats' \in Nat
    BY <1>2, <1>7 DEF ScheduleTypes
  <2> QED BY <1>1, <1>2, <1>5, <2>1 DEF Turns, ScheduleTypes
<1>10. CallSound(i)'
  BY <1>1, <1>2, <1>3, <1>6 DEF CallSound, Sound
<1>11. JobsFollow(i)'
  <2>1. \A s \in Schedules : Matches(s)' = Matches(s)
    BY <1>1 DEF Matches
  <2>2. \A s \in Schedules : InHand(i, s) => InHand(i, s)'
    BY <1>2, <1>6 DEF InHand
  <2> QED BY <1>1, <2>1, <2>2 DEF AloneInv, JobsFollow
<1>12. ServedBefore'
  <2>1. CASE c.kind \notin Automatic
    BY <1>1, <1>7, <2>1 DEF AloneInv, ServedBefore
  <2>2. CASE c.kind \in Automatic
    <3>1. o \in Schedules \X Nat /\ schedule[c.of].known /\ o[1] = c.of /\ o[2] = schedule[c.of].next
      BY <1>2, <1>8, <2>2 DEF Record, AloneInv, ServedBefore
    <3>2. o[2] <= schedule[c.of].next
      BY <3>1
    <3>3. served' = served \union {o}
      BY <1>7, <2>2
    <3> HIDE DEF o
    <3> QED BY <1>1, <3>1, <3>2, <3>3 DEF AloneInv, ServedBefore
  <2> QED BY <2>1, <2>2
<1>13. RepeatsFew(i)'
  <2>1. CASE c.kind \notin Automatic
    <3>1. \A s \in Schedules : Fired(s)' = Fired(s) /\ ~BeingSaved(i, s)
      BY <1>1, <1>2, <1>7, <2>1 DEF Fired, BeingSaved
    <3>2. Unsaved(i)' \subseteq Unsaved(i)
      BY <3>1 DEF Unsaved
    <3> QED BY <1>1, <1>2, <1>7, <2>1, <3>2, RepeatsStayFew DEF AloneInv
  <2>2. CASE c.kind \in Automatic
    <3>1. ASSUME NEW s \in Schedules, s # c.of, Fired(s)' PROVE Fired(s) /\ ~BeingSaved(i, s)
      BY <1>1, <1>2, <1>7, <2>2, <3>1 DEF Fired, BeingSaved
    <3>2. ASSUME NEW s \in Schedules, s = c.of PROVE BeingSaved(i, s)'
      BY <1>6, <2>2, <3>2 DEF BeingSaved
    <3>3. Unsaved(i)' \subseteq Unsaved(i) \ {c.of}
      BY <3>1, <3>2 DEF Unsaved
    <3>4. CASE o \notin served
      <4>1. repeats' = repeats /\ Unsaved(i)' \subseteq Unsaved(i)
        BY <1>7, <2>2, <3>3, <3>4
      <4> QED BY <1>1, <1>2, <4>1, RepeatsStayFew DEF AloneInv
    <3>5. CASE o \in served
      <4>1. c.of \in Unsaved(i)
        BY <1>2, <1>8, <2>2, <3>5 DEF Unsaved, Fired, BeingSaved
      <4>2. repeats' = repeats + 1
        BY <1>7, <2>2, <3>5
      <4>3. IsFiniteSet(Unsaved(i)) /\ repeats + Cardinality(Unsaved(i)) <= stops
        BY DEF AloneInv, RepeatsFew
      <4> DEFINE rest == Unsaved(i) \ {c.of}
      <4>4. IsFiniteSet(rest) /\ Cardinality(rest) = Cardinality(Unsaved(i)) - 1
        BY <4>1, <4>3, FS_RemoveElement
      <4>5. /\ IsFiniteSet(Unsaved(i)') /\ Cardinality(Unsaved(i)') <= Cardinality(rest)
            /\ Cardinality(Unsaved(i)') \in Nat /\ Cardinality(rest) \in Nat
            /\ Cardinality(Unsaved(i)) \in Nat
        BY <3>3, <4>3, <4>4, FS_Subset, FS_CardinalityType
      <4>6. repeats \in Nat /\ stops \in Nat /\ stops' = stops
        BY <1>1, <1>2 DEF ScheduleTypes
      <4> QED BY <4>2, <4>3, <4>4, <4>5, <4>6 DEF RepeatsFew
    <3> QED BY <3>4, <3>5
  <2> QED BY <2>1, <2>2
<1> QED BY <1>9, <1>10, <1>11, <1>12, <1>13 DEF AloneInv

\* What is left of a call whose schedule the queue refuses.
LEMMA CallRefused ==
  ASSUME ScheduleTypes, NEW i \in Calls, EnqueueFails(i)
  PROVE  IF calling[i].kind = "tick"
           THEN \E y : Turns(i, y) /\ WithLeft(calling[i], <<"note", "sync", "next">>, y)
           ELSE Turns(i, NotCalling)
<1> DEFINE c == calling[i]
           left == <<"note", "sync", "next">>
<1>1. c # NotCalling /\ Proceeds(i, c, IF c.kind = "tick" THEN left ELSE <<>>)
  BY WorkingCall DEF EnqueueFails, Does
<1>2. c \in CallType
  BY <1>1, WorkingCall
<1>3. CASE c.kind = "tick"
  <2>1. left \in PlansOf(c.kind)
    BY <1>3 DEF PlansOf
  <2>2. Proceeds(i, c, left)
    BY <1>1, <1>3
  <2> HIDE DEF left
  <2>3. \E y : Turns(i, y) /\ WithLeft(c, left, y)
    BY <1>2, <2>1, <2>2, CallProceeds
  <2> QED BY <1>3, <2>3 DEF left
<1>4. CASE c.kind # "tick"
  <2>1. Proceeds(i, c, <<>>)
    BY <1>1, <1>4
  <2>2. Turns(i, NotCalling)
    BY <2>1, CallReturns
  <2> QED BY <1>4, <2>2
<1> QED BY <1>3, <1>4

LEMMA InvEnqueueFails == ASSUME NEW i \in Calls, AloneInv(i), EnqueueFails(i) PROVE AloneInv(i)'
<1>1. Does(i, "enqueue") /\ UNCHANGED <<kept, jobAt, up, clock, stops>>
  BY DEF EnqueueFails
<1> DEFINE c == calling[i]
<1>2. /\ ScheduleTypes /\ c # NotCalling /\ Head(c.todo) = "enqueue" /\ c.of \in Schedules
      /\ c.seen = schedule /\ Sound(c)
  BY <1>1, CallHolds
<1>3. lost' = IF c.kind = "fire" THEN lost \union {c.of} ELSE lost
  BY DEF EnqueueFails
<1>4. CASE c.kind = "tick"
  <2>1. PICK y : Turns(i, y) /\ WithLeft(c, <<"note", "sync", "next">>, y)
    BY <1>2, <1>4, CallRefused
  <2>2. y # NotCalling /\ Head(y.todo) = "note"
    BY <2>1, PlanTails, NotCallingType DEF WithLeft
  <2>3. OnlyCalls(i, y)
    BY <1>1, <1>2, <1>3, <1>4, <2>1, <2>2 DEF OnlyCalls
  <2>4. Sound(y)'
    BY <1>1, <1>2, <1>4, <2>1, <2>2 DEF WithLeft, Sound, kept
  <2> QED BY <2>3, <2>4, CallAlone
<1>5. CASE c.kind # "tick"
  <2>1. Turns(i, NotCalling)
    BY <1>2, <1>5, CallRefused
  <2>2. calling'[i] = NotCalling
    BY <1>2, <2>1 DEF Turns, ScheduleTypes
  <2>3. ScheduleTypes'
    BY <1>1, <1>2, <1>3, <2>1 DEF Turns, ScheduleTypes, kept
  <2>4. CallSound(i)'
    BY <2>2 DEF CallSound
  <2>5. JobsFollow(i)'
    <3>1. ASSUME NEW s \in Schedules, up PROVE Matches(s)'
      <4>1. CASE c.kind = "fire" /\ s = c.of
        <5>1. jobAt[s] = Never /\ s \in lost'
          BY <1>2, <1>3, <4>1 DEF Sound
        <5> QED BY <1>1, <5>1 DEF Matches
      <4>2. CASE ~(c.kind = "fire" /\ s = c.of)
        <5>1. Matches(s) /\ (s \in lost' <=> s \in lost)
          BY <1>2, <1>3, <3>1, <4>2 DEF AloneInv, JobsFollow, InHand
        <5> QED BY <1>1, <5>1 DEF Matches, kept
      <4> QED BY <4>1, <4>2
    <3> QED BY <1>1, <3>1 DEF JobsFollow
  <2>6. ServedBefore'
    BY <1>1 DEF AloneInv, ServedBefore, kept
  <2>7. RepeatsFew(i)'
    <3>1. \A s \in Schedules : Fired(s)' = Fired(s) /\ ~BeingSaved(i, s)
      BY <1>1, <1>2 DEF Fired, BeingSaved, kept
    <3>2. Unsaved(i)' \subseteq Unsaved(i)
      BY <3>1 DEF Unsaved
    <3> QED BY <1>1, <1>2, <3>2, RepeatsStayFew DEF AloneInv, kept
  <2> QED BY <2>3, <2>4, <2>5, <2>6, <2>7 DEF AloneInv
<1> QED BY <1>4, <1>5

LEMMA InvSync == ASSUME NEW i \in Calls, AloneInv(i), Sync(i) PROVE AloneInv(i)'
<1>1. Does(i, "sync") /\ UNCHANGED <<kept, up, clock, stops>>
  BY DEF Sync
<1> DEFINE c == calling[i]
<1>2. /\ ScheduleTypes /\ c # NotCalling /\ Head(c.todo) = "sync" /\ c.of \in Schedules
      /\ c.kind \in CallKinds /\ c.todo \in PlansOf(c.kind) /\ c.seen = schedule
      /\ schedule[c.of] \in Record /\ Sound(c)
  BY <1>1, CallHolds
<1>3. /\ jobAt' = [jobAt EXCEPT ![c.of] = JobFor(schedule[c.of])]
      /\ lost' = lost \ {c.of} /\ CallGoesOn(i, c)
  BY <1>2 DEF Sync
<1>4. Tail(c.todo) = <<>> \/ (c.kind = "tick" /\ Head(Tail(c.todo)) = "next")
  <2>1. c.kind \in CallKinds /\ c.todo \in PlansOf(c.kind) /\ Head(c.todo) = "sync"
    BY <1>2
  <2> HIDE DEF c
  <2>2. LeadsOn(c.kind, c.todo)
    BY <2>1, NextAccess
  <2> QED BY <2>1, <2>2 DEF LeadsOn
<1>5. PICK y : /\ Turns(i, y)
               /\ y # NotCalling => WithLeft(c, Tail(c.todo), y) /\ Tail(c.todo) # <<>>
  <2>1. CASE Turns(i, NotCalling)
    BY <2>1
  <2>2. CASE \E z : Turns(i, z) /\ WithLeft(c, Tail(c.todo), z)
    <3>1. PICK z : Turns(i, z) /\ WithLeft(c, Tail(c.todo), z)
      BY <2>2
    <3>2. z.todo # <<>>
      BY <3>1, CallPlanTypes DEF WithLeft, CallType
    <3> QED BY <3>1, <3>2 DEF WithLeft
  <2> QED BY <1>2, <1>3, <2>1, <2>2, CallContinues
<1>6. calling'[i] = y
  BY <1>2, <1>5 DEF Turns, ScheduleTypes
<1>7. /\ jobAt'[c.of] = JobFor(schedule[c.of])
      /\ \A s \in Schedules : s # c.of => jobAt'[s] = jobAt[s]
      /\ jobAt' \in [Schedules -> Nat \union {Never}]
  BY <1>2, <1>3 DEF ScheduleTypes, JobFor, Record
<1>8. ScheduleTypes'
  BY <1>1, <1>2, <1>3, <1>5, <1>7 DEF Turns, ScheduleTypes, kept
<1>9. CallSound(i)'
  BY <1>1, <1>2, <1>4, <1>5, <1>6 DEF CallSound, Sound, WithLeft, kept
<1>10. JobsFollow(i)'
  <2>1. ASSUME NEW s \in Schedules, up PROVE Matches(s)'
    <3>1. CASE s = c.of
      BY <1>1, <1>3, <1>7, <3>1 DEF Matches, JobFor, kept
    <3>2. CASE s # c.of
      <4>1. Matches(s) /\ (s \in lost' <=> s \in lost)
        BY <1>2, <1>3, <2>1, <3>2 DEF AloneInv, JobsFollow, InHand
      <4> QED BY <1>1, <1>7, <3>2, <4>1 DEF Matches, kept
    <3> QED BY <3>1, <3>2
  <2> QED BY <1>1, <2>1 DEF JobsFollow
<1>11. ServedBefore'
  BY <1>1 DEF AloneInv, ServedBefore, kept
<1>12. RepeatsFew(i)'
  <2>1. \A s \in Schedules : Fired(s)' = Fired(s) /\ ~BeingSaved(i, s)
    BY <1>1, <1>2 DEF Fired, BeingSaved, kept
  <2>2. Unsaved(i)' \subseteq Unsaved(i)
    BY <2>1 DEF Unsaved
  <2> QED BY <1>1, <1>2, <2>2, RepeatsStayFew DEF AloneInv, kept
<1> QED BY <1>8, <1>9, <1>10, <1>11, <1>12 DEF AloneInv

LEMMA InvFire ==
  ASSUME NEW i \in Calls, AloneInv(i), NEW s \in Schedules, Fire(i, s)
  PROVE  AloneInv(i)'
<1>1. ScheduleTypes /\ calling[i] = NotCalling
  BY WorkingCall DEF AloneInv, Fire
<1>2. /\ up /\ UNCHANGED <<kept, up, clock, lost, stops>>
      /\ IsOver(s) /\ Drops(s) /\ calling' = [calling EXCEPT ![i] = NewCall("fire", s)]
  BY DEF Fire
<1>3. PICK y : Turns(i, y) /\ Begun("fire", s, y)
  <2>1. "fire" \in CallKinds
    BY DEF CallKinds
  <2>2. Turns(i, NewCall("fire", s)) /\ Begun("fire", s, NewCall("fire", s))
    BY <1>1, <1>2, <2>1, CallBegins
  <2> QED BY <2>2
<1>4. Head(y.todo) = "read" /\ y # NotCalling /\ calling'[i] = y
  BY <1>1, <1>3, PlanTails, NotCallingType DEF Begun, Steps, Turns, ScheduleTypes
<1>5. /\ jobAt'[s] = Never /\ jobAt' \in [Schedules -> Nat \union {Never}]
      /\ \A u \in Schedules : u # s => jobAt'[u] = jobAt[u]
  BY <1>1, <1>2 DEF ScheduleTypes, Drops
<1>6. schedule[s].next # Never
  <2>1. Matches(s)
    BY <1>1, <1>2 DEF AloneInv, JobsFollow, InHand
  <2> QED BY <1>2, <2>1 DEF Matches, IsOver
<1>7. ScheduleTypes'
  BY <1>1, <1>2, <1>3, <1>5 DEF Turns, ScheduleTypes, kept
<1>8. CallSound(i)'
  BY <1>2, <1>3, <1>4, <1>5, <1>6 DEF CallSound, Sound, Begun, kept
<1>9. JobsFollow(i)'
  <2>1. ASSUME NEW u \in Schedules, u # s PROVE Matches(u)'
    <3>1. Matches(u)
      BY <1>1, <1>2 DEF AloneInv, JobsFollow, InHand
    <3> QED BY <1>2, <1>5, <2>1, <3>1 DEF Matches, kept
  <2>2. InHand(i, s)'
    BY <1>3, <1>4 DEF InHand, Begun
  <2> QED BY <2>1, <2>2 DEF JobsFollow
<1>10. ServedBefore'
  BY <1>2 DEF AloneInv, ServedBefore, kept
<1>11. RepeatsFew(i)'
  <2>1. \A u \in Schedules : Fired(u)' = Fired(u) /\ ~BeingSaved(i, u)
    BY <1>1, <1>2 DEF Fired, BeingSaved, kept
  <2>2. Unsaved(i)' \subseteq Unsaved(i)
    BY <2>1 DEF Unsaved
  <2> QED BY <1>1, <1>2, <2>2, RepeatsStayFew DEF AloneInv, kept
<1> QED BY <1>7, <1>8, <1>9, <1>10, <1>11 DEF AloneInv

\* A step of the daemon or of time that leaves what is kept and the call alone.
LEMMA BackgroundAlone ==
  ASSUME NEW i \in Calls, AloneInv(i), UNCHANGED <<kept, calling, stops>>, ScheduleTypes',
         CallSound(i)', JobsFollow(i)'
  PROVE  AloneInv(i)'
<1>1. ServedBefore'
  BY DEF AloneInv, ServedBefore, kept
<1>2. RepeatsFew(i)'
  BY DEF AloneInv, RepeatsFew, Unsaved, Fired, BeingSaved, kept
<1> QED BY <1>1, <1>2 DEF AloneInv

LEMMA InvMisfire ==
  ASSUME NEW i \in Calls, AloneInv(i), NEW s \in Schedules, Misfire(s)
  PROVE  AloneInv(i)'
<1>1. /\ Drops(s) /\ lost' = lost \union {s} /\ UNCHANGED <<kept, calling, up, clock, stops>>
  BY DEF Misfire
<1>2. /\ jobAt'[s] = Never /\ jobAt' \in [Schedules -> Nat \union {Never}]
      /\ \A u \in Schedules : u # s => jobAt'[u] = jobAt[u]
  BY <1>1 DEF AloneInv, ScheduleTypes, Drops
<1>3. ScheduleTypes'
  BY <1>1, <1>2 DEF AloneInv, ScheduleTypes, kept
<1>4. CallSound(i)'
  <2>1. SUFFICES ASSUME calling[i] # NotCalling PROVE Sound(calling[i])'
    BY <1>1 DEF CallSound
  <2>2. Sound(calling[i]) /\ calling[i].of \in Schedules
    BY <2>1, WorkingCall DEF AloneInv, CallSound
  <2>3. jobAt[calling[i].of] = Never => jobAt'[calling[i].of] = Never
    BY <1>2, <2>2
  <2> QED BY <1>1, <2>2, <2>3 DEF Sound, kept
<1>5. JobsFollow(i)'
  <2>1. Matches(s)'
    BY <1>1, <1>2 DEF Matches
  <2>2. ASSUME NEW u \in Schedules, u # s, up PROVE Matches(u)' \/ InHand(i, u)'
    <3>1. Matches(u) \/ InHand(i, u)
      BY <2>2 DEF AloneInv, JobsFollow
    <3>2. Matches(u) => Matches(u)'
      BY <1>1, <1>2, <2>2 DEF Matches, kept
    <3>3. InHand(i, u) => InHand(i, u)'
      BY <1>1 DEF InHand
    <3> QED BY <3>1, <3>2, <3>3
  <2> QED BY <1>1, <2>1, <2>2 DEF JobsFollow
<1> QED BY <1>1, <1>3, <1>4, <1>5, BackgroundAlone

LEMMA InvStart == ASSUME NEW i \in Calls, AloneInv(i), Start PROVE AloneInv(i)'
<1>1. /\ ~up /\ up' = TRUE /\ lost' = {} /\ UNCHANGED <<kept, calling, clock, stops>>
      /\ jobAt' = [s \in Schedules |-> JobFor(schedule[s])]
  BY DEF Start
<1>2. jobAt' \in [Schedules -> Nat \union {Never}]
  BY <1>1 DEF AloneInv, ScheduleTypes, JobFor, Record
<1>3. ScheduleTypes'
  BY <1>1, <1>2 DEF AloneInv, ScheduleTypes, kept
<1>4. CallSound(i)'
  BY <1>1 DEF AloneInv, CallSound, Sound
<1>5. JobsFollow(i)'
  <2>1. ASSUME NEW s \in Schedules PROVE Matches(s)'
    BY <1>1 DEF Matches, JobFor, kept
  <2> QED BY <2>1 DEF JobsFollow
<1> QED BY <1>1, <1>3, <1>4, <1>5, BackgroundAlone

LEMMA InvPass == ASSUME NEW i \in Calls, AloneInv(i), Pass PROVE AloneInv(i)'
<1>1. clock' = clock + 1 /\ UNCHANGED <<kept, jobAt, calling, up, lost, stops>>
  BY DEF Pass
<1>2. ScheduleTypes'
  BY <1>1 DEF AloneInv, ScheduleTypes, kept
<1>3. CallSound(i)'
  BY <1>1 DEF AloneInv, CallSound, Sound, kept
<1>4. JobsFollow(i)'
  BY <1>1 DEF AloneInv, JobsFollow, Matches, InHand, kept
<1> QED BY <1>1, <1>2, <1>3, <1>4, BackgroundAlone

LEMMA InvStopDaemon ==
  ASSUME NEW i \in Calls, AloneInv(i), StopDaemon
  PROVE  AloneInv(i)'
<1>1. /\ up' = FALSE /\ stops' = stops + 1 /\ stops < MaxOutages
      /\ jobAt' = [s \in Schedules |-> Never] /\ calling' = [j \in Calls |-> NotCalling]
      /\ UNCHANGED <<kept, clock, lost>>
  BY DEF StopDaemon
<1>2. ScheduleTypes /\ stops \in Nat /\ repeats \in Nat
  BY ScheduleAssumption DEF AloneInv, ScheduleTypes
<1>3. ScheduleTypes'
  <2>1. stops' \in 0 .. MaxOutages
    BY <1>1, <1>2, ScheduleAssumption DEF ScheduleTypes
  <2> QED BY <1>1, <1>2, <2>1 DEF ScheduleTypes, kept
<1>4. CallSound(i)' /\ JobsFollow(i)'
  BY <1>1 DEF CallSound, JobsFollow
<1>5. ServedBefore'
  BY <1>1 DEF AloneInv, ServedBefore, kept
<1>6. RepeatsFew(i)'
  <2> DEFINE of == calling[i].of
             more == Unsaved(i) \union {of}
  <2>1. \A s \in Schedules : Fired(s)' = Fired(s)
    BY <1>1 DEF Fired, kept
  <2>2. \A s \in Schedules : s # of => ~BeingSaved(i, s)
    BY DEF BeingSaved
  <2>3. Unsaved(i)' \subseteq more
    BY <2>1, <2>2 DEF Unsaved
  <2>4. IsFiniteSet(Unsaved(i)) /\ repeats + Cardinality(Unsaved(i)) <= stops
    BY DEF AloneInv, RepeatsFew
  <2>5. Cardinality(Unsaved(i)) \in Nat
    BY <2>4, FS_CardinalityType
  <2>6. /\ IsFiniteSet(more) /\ Cardinality(more) \in Nat
        /\ Cardinality(more) <= Cardinality(Unsaved(i)) + 1
    <3>1. /\ IsFiniteSet(more)
          /\ Cardinality(more) = IF of \in Unsaved(i) THEN Cardinality(Unsaved(i))
                                 ELSE Cardinality(Unsaved(i)) + 1
      <4> HIDE DEF of
      <4> QED BY <2>4, FS_AddElement
    <3> HIDE DEF more
    <3> QED BY <2>5, <3>1
  <2> HIDE DEF more
  <2>7. /\ IsFiniteSet(Unsaved(i)') /\ Cardinality(Unsaved(i)') <= Cardinality(more)
        /\ Cardinality(Unsaved(i)') \in Nat
    BY <2>3, <2>6, FS_Subset, FS_CardinalityType
  <2>8. repeats' = repeats
    BY <1>1 DEF kept
  <2> QED BY <1>1, <1>2, <2>4, <2>5, <2>6, <2>7, <2>8 DEF RepeatsFew
<1> QED BY <1>3, <1>4, <1>5, <1>6 DEF AloneInv

LEMMA InvProceed == ASSUME NEW i \in Calls, AloneInv(i), Proceed(i) PROVE AloneInv(i)'
<1>1. CASE ReadSchedule(i)
  BY <1>1, InvRead
<1>2. CASE CreateSchedule(i)
  BY <1>2, InvCreateSchedule
<1>3. CASE Pause(i)
  BY <1>3, InvPause
<1>4. CASE Resume(i)
  BY <1>4, InvResume
<1>5. CASE List(i)
  BY <1>5, InvList
<1>6. CASE NextDue(i)
  BY <1>6, InvNextDue
<1>7. CASE Enqueue(i)
  BY <1>7, InvEnqueue
<1>8. CASE EnqueueFails(i)
  BY <1>8, InvEnqueueFails
<1>9. CASE NoteError(i)
  BY <1>9, InvNoteError
<1>10. CASE SaveTriggered(i)
  BY <1>10, InvSaveTriggered
<1>11. CASE Sync(i)
  BY <1>11, InvSync
<1> QED BY <1>1, <1>2, <1>3, <1>4, <1>5, <1>6, <1>7, <1>8, <1>9, <1>10, <1>11 DEF Proceed

\* The hypothesis of what follows: calls come one after the other.
OneCallAtATime == \E i : Calls = {i}

LEMMA AloneStep ==
  ASSUME NEW i \in Calls, Calls = {i}, AloneInv(i), [ScheduleNext]_scheduleVars
  PROVE  AloneInv(i)'
<1>1. CASE \E s \in Schedules, kind \in {"create", "pause", "resume", "trigger", "tick"} :
             BeginCall(i, kind, s)
  <2>1. PICK s \in Schedules, kind \in {"create", "pause", "resume", "trigger", "tick"} :
          BeginCall(i, kind, s)
    BY <1>1
  <2>2. kind \in CallKinds
    BY DEF CallKinds
  <2> QED BY <2>1, <2>2, InvBegin
<1>2. CASE Proceed(i)
  BY <1>2, InvProceed
<1>3. CASE Start
  BY <1>3, InvStart
<1>4. ASSUME NEW s \in Schedules, Misfire(s) PROVE AloneInv(i)'
  BY <1>4, InvMisfire
<1>5. ASSUME NEW s \in Schedules, Fire(i, s) PROVE AloneInv(i)'
  BY <1>5, InvFire
<1>6. CASE StopDaemon
  BY <1>6, InvStopDaemon
<1>7. CASE Pass
  BY <1>7, InvPass
<1>8. CASE UNCHANGED scheduleVars
  <2>1. /\ UNCHANGED <<kept, calling, stops>> /\ UNCHANGED <<jobAt, up, clock, lost>>
    BY <1>8 DEF scheduleVars, kept
  <2>2. ScheduleTypes' /\ CallSound(i)' /\ JobsFollow(i)'
    BY <2>1 DEF AloneInv, ScheduleTypes, CallSound, Sound, JobsFollow, Matches, InHand, kept
  <2> QED BY <2>1, <2>2, BackgroundAlone
<1> QED BY <1>1, <1>2, <1>3, <1>4, <1>5, <1>6, <1>7, <1>8 DEF ScheduleNext, Background

LEMMA AloneIsKept ==
  ASSUME NEW i \in Calls, Calls = {i}
  PROVE  ScheduleSpec => []AloneInv(i)
<1>1. ScheduleInit => AloneInv(i)
  BY AloneInitially
<1>2. AloneInv(i) /\ [ScheduleNext]_scheduleVars => AloneInv(i)'
  BY AloneStep
<1> QED BY <1>1, <1>2, PTL DEF ScheduleSpec

\* As long as calls come one after the other, an occurrence fires once, whether
\* the daemon's job or a tick fires it, whatever is paused, resumed, triggered
\* or refused in between: only a kill between enqueueing the run and saving
\* the schedule fires it again, and each kill only once.
THEOREM OnceUnlessKilled ==
  ASSUME OneCallAtATime
  PROVE  ScheduleSpec => []OccurrencesFireOnce
<1>1. PICK i : Calls = {i}
  BY DEF OneCallAtATime
<1>2. i \in Calls
  BY <1>1
<1>3. ScheduleSpec => []AloneInv(i)
  BY <1>1, <1>2, AloneIsKept
<1>4. AloneInv(i) => OccurrencesFireOnce
  <2> SUFFICES ASSUME AloneInv(i) PROVE OccurrencesFireOnce
    OBVIOUS
  <2>1. Cardinality(Unsaved(i)) \in Nat /\ repeats + Cardinality(Unsaved(i)) <= stops
    BY FS_CardinalityType DEF AloneInv, RepeatsFew
  <2>2. repeats \in Nat /\ stops \in Nat
    BY ScheduleAssumption DEF AloneInv, ScheduleTypes
  <2> QED BY <2>1, <2>2 DEF OccurrencesFireOnce
<1> QED BY <1>3, <1>4, PTL

\* As long as calls come one after the other, the daemon's jobs say what the
\* repository says about every schedule nobody works on: none is left behind,
\* and none is lost except one APScheduler dropped or whose run was refused.
THEOREM JobsAreInStep ==
  ASSUME OneCallAtATime
  PROVE  ScheduleSpec => []JobMatchesSchedule
<1>1. PICK i : Calls = {i}
  BY DEF OneCallAtATime
<1>2. i \in Calls
  BY <1>1
<1>3. ScheduleSpec => []AloneInv(i)
  BY <1>1, <1>2, AloneIsKept
<1>4. AloneInv(i) => JobMatchesSchedule
  <2> SUFFICES ASSUME AloneInv(i), NEW s \in Schedules, up, ~BusyWith(s) PROVE Matches(s)
    BY DEF JobMatchesSchedule, Matches
  <2>1. calling[i] # NotCalling => calling[i].of # s
    BY <1>2, WorkingCall DEF AloneInv, BusyWith
  <2> QED BY <2>1 DEF AloneInv, JobsFollow, InHand
<1> QED BY <1>3, <1>4, PTL

-----------------------------------------------------------------------------
(* The types, for any number of calls *)

\* A call that moves keeps the types if what it writes is well formed.
LEMMA TypesMoved ==
  ASSUME ScheduleTypes, NEW i \in Calls, NEW y, Turns(i, y), UNCHANGED <<up, clock, stops>>,
         schedule' \in [Schedules -> Record], jobAt' \in [Schedules -> Nat \union {Never}],
         queued' \in [Schedules -> Nat], repeats' \in Nat, lost' \subseteq Schedules
  PROVE  ScheduleTypes'
BY DEF Turns, ScheduleTypes

LEMMA CallIsTyped ==
  ASSUME ScheduleTypes, NEW i \in Calls, NEW access, Does(i, access)
  PROVE  /\ calling[i] # NotCalling /\ Head(calling[i].todo) = access /\ calling[i].of \in Schedules
         /\ calling[i].at \in Nat /\ calling[i].kind \in CallKinds
         /\ calling[i].todo \in PlansOf(calling[i].kind)
         /\ calling[i].seen \in [Schedules -> Record]
         /\ calling[i].seen[calling[i].of] \in Record
<1>1. calling[i] # NotCalling /\ Head(calling[i].todo) = access
  BY WorkingCall DEF Does
<1>2. /\ calling[i].of \in Schedules /\ calling[i].at \in Nat /\ calling[i].kind \in CallKinds
      /\ calling[i].todo \in PlansOf(calling[i].kind)
      /\ calling[i].seen \in [Schedules -> Record]
  BY <1>1, WorkingCall
<1> QED BY <1>1, <1>2

LEMMA TypesKeep ==
  ASSUME ScheduleTypes, NEW i \in Calls, NEW r \in Record, Keep(i, r),
         NEW access \in {"create", "pause", "resume", "note", "save"}, Does(i, access),
         UNCHANGED <<jobAt, up, clock, queued, repeats, lost, stops>>
  PROVE  ScheduleTypes'
<1>1. PICK y :
        /\ y \in CallType /\ Turns(i, y) /\ y.todo \in PlansOf(y.kind) /\ Head(y.todo) = "sync"
        /\ y.kind = calling[i].kind /\ y.of = calling[i].of /\ y.at = calling[i].at
        /\ y.rest = calling[i].rest
        /\ y.seen = [calling[i].seen EXCEPT ![calling[i].of] = r]
        /\ schedule' = [schedule EXCEPT ![calling[i].of] = r]
  BY CallKeeps
<1>2. schedule' \in [Schedules -> Record]
  BY <1>1 DEF ScheduleTypes
<1> QED BY <1>1, <1>2 DEF Turns, ScheduleTypes

LEMMA TypesCreateSchedule ==
  ASSUME ScheduleTypes, NEW i \in Calls, CreateSchedule(i)
  PROVE  ScheduleTypes'
<1>1. Does(i, "create") /\ UNCHANGED <<jobAt, up, clock, queued, repeats, lost, stops>>
  BY DEF CreateSchedule
<1>2. PICK next \in {calling[i].at} \union Times, on \in BOOLEAN :
        Keep(i, [known |-> TRUE, enabled |-> on, next |-> next, count |-> 0])
  BY DEF CreateSchedule
<1>3. next \in Nat
  <2>1. calling[i].at \in Nat
    BY <1>1, CallIsTyped
  <2> QED BY <2>1, ScheduleAssumption DEF Times
<1>4. [known |-> TRUE, enabled |-> on, next |-> next, count |-> 0] \in Record
  BY <1>3 DEF Record
<1> QED BY <1>1, <1>2, <1>4, TypesKeep

LEMMA TypesPause == ASSUME ScheduleTypes, NEW i \in Calls, Pause(i) PROVE ScheduleTypes'
<1>1. Does(i, "pause") /\ UNCHANGED <<jobAt, up, clock, queued, repeats, lost, stops>>
  BY DEF Pause
<1> DEFINE was == calling[i].seen[calling[i].of]
           r == [was EXCEPT !.enabled = FALSE]
<1>2. was \in Record
  BY <1>1, CallIsTyped
<1>3. Keep(i, r)
  BY DEF Pause
<1> HIDE DEF was
<1>4. r \in Record
  BY <1>2 DEF Record
<1> HIDE DEF r
<1> QED BY <1>1, <1>3, <1>4, TypesKeep

LEMMA TypesResume == ASSUME ScheduleTypes, NEW i \in Calls, Resume(i) PROVE ScheduleTypes'
<1>1. Does(i, "resume") /\ UNCHANGED <<jobAt, up, clock, queued, repeats, lost, stops>>
  BY DEF Resume
<1> DEFINE was == calling[i].seen[calling[i].of]
<1>2. was \in Record /\ calling[i].at \in Nat
  BY <1>1, CallIsTyped
<1>3. PICK next \in Times \union {IF was.next = Never THEN calling[i].at ELSE was.next} :
        Keep(i, [was EXCEPT !.enabled = TRUE, !.next = next])
  BY DEF Resume
<1>4. next \in Nat
  BY <1>2, ScheduleAssumption DEF Times, Record
<1> DEFINE on == [was EXCEPT !.enabled = TRUE]
           r == [on EXCEPT !.next = next]
<1>5. Keep(i, r)
  BY <1>3
<1> HIDE DEF was
<1>6. on \in Record
  BY <1>2 DEF Record
<1> HIDE DEF on
<1>7. r \in Record
  BY <1>4, <1>6 DEF Record
<1> HIDE DEF r
<1> QED BY <1>1, <1>5, <1>7, TypesKeep

LEMMA TypesNoteError == ASSUME ScheduleTypes, NEW i \in Calls, NoteError(i) PROVE ScheduleTypes'
<1>1. Does(i, "note") /\ UNCHANGED <<jobAt, up, clock, queued, repeats, lost, stops>>
  BY DEF NoteError
<1> DEFINE r == calling[i].seen[calling[i].of]
<1>2. r \in Record
  BY <1>1, CallIsTyped
<1>3. Keep(i, r)
  BY DEF NoteError
<1> HIDE DEF r
<1> QED BY <1>1, <1>2, <1>3, TypesKeep

LEMMA TypesSaveTriggered ==
  ASSUME ScheduleTypes, NEW i \in Calls, SaveTriggered(i)
  PROVE  ScheduleTypes'
<1>1. Does(i, "save") /\ UNCHANGED <<jobAt, up, clock, queued, repeats, lost, stops>>
  BY DEF SaveTriggered
<1> DEFINE c == calling[i]
           r == AfterTrigger(c.seen[c.of], c.of, c)
<1>2. c.seen[c.of] \in Record /\ c.at \in Nat
  BY <1>1, CallIsTyped
<1>3. Keep(i, r)
  BY DEF SaveTriggered
<1>4. r \in Record
  <2> HIDE DEF c
  <2> QED BY <1>2, AfterTriggerMovesOn
<1> HIDE DEF r
<1> QED BY <1>1, <1>3, <1>4, TypesKeep

\* A step in which a call only moves.
LEMMA TypesOfMove ==
  ASSUME ScheduleTypes, NEW i \in Calls, NEW y, Turns(i, y),
         UNCHANGED <<kept, jobAt, up, clock, lost, stops>>
  PROVE  ScheduleTypes'
<1>1. /\ UNCHANGED <<up, clock, stops>> /\ UNCHANGED <<schedule, queued, repeats, jobAt, lost>>
  BY DEF kept
<1> QED BY <1>1, TypesMoved DEF ScheduleTypes

LEMMA TypesRead == ASSUME ScheduleTypes, NEW i \in Calls, ReadSchedule(i) PROVE ScheduleTypes'
<1>1. PICK y : Turns(i, y)
  BY CallReads
<1>2. UNCHANGED <<kept, jobAt, up, clock, lost, stops>>
  BY DEF ReadSchedule
<1> QED BY <1>1, <1>2, TypesOfMove

LEMMA TypesList == ASSUME ScheduleTypes, NEW i \in Calls, List(i) PROVE ScheduleTypes'
<1>1. PICK y : Turns(i, y)
  BY CallLists
<1>2. UNCHANGED <<kept, jobAt, up, clock, lost, stops>>
  BY DEF List
<1> QED BY <1>1, <1>2, TypesOfMove

LEMMA TypesNextDue == ASSUME ScheduleTypes, NEW i \in Calls, NextDue(i) PROVE ScheduleTypes'
<1>1. PICK y : Turns(i, y)
  BY CallTurnsToNext
<1>2. UNCHANGED <<kept, jobAt, up, clock, lost, stops>>
  BY DEF NextDue
<1> QED BY <1>1, <1>2, TypesOfMove

LEMMA TypesBegin ==
  ASSUME ScheduleTypes, NEW i \in Calls, NEW kind \in CallKinds, NEW s \in Schedules, BeginCall(i, kind, s)
  PROVE  ScheduleTypes'
<1>1. /\ calling' = [calling EXCEPT ![i] = NewCall(kind, s)]
      /\ UNCHANGED <<kept, jobAt, up, clock, lost, stops>>
  BY DEF BeginCall
<1>2. Turns(i, NewCall(kind, s))
  BY <1>1, CallBegins
<1>3. PICK y : Turns(i, y)
  BY <1>2
<1> QED BY <1>1, <1>3, TypesOfMove

LEMMA TypesEnqueue == ASSUME ScheduleTypes, NEW i \in Calls, Enqueue(i) PROVE ScheduleTypes'
<1>1. Does(i, "enqueue") /\ CallGoesOn(i, calling[i]) /\ UNCHANGED <<schedule, jobAt, up, clock, lost, stops>>
  BY DEF Enqueue
<1>2. calling[i] # NotCalling /\ calling[i].of \in Schedules
  BY <1>1, CallIsTyped
<1>3. PICK y : Turns(i, y)
  BY <1>1, <1>2, CallContinues
<1>4. queued' \in [Schedules -> Nat]
  <2>1. queued' = [queued EXCEPT ![calling[i].of] = @ + 1]
    BY DEF Enqueue
  <2> QED BY <1>2, <2>1 DEF ScheduleTypes
<1>5. repeats' \in Nat
  <2>1. repeats' = repeats \/ repeats' = repeats + 1
    BY DEF Enqueue
  <2> QED BY <2>1 DEF ScheduleTypes
<1> QED BY <1>1, <1>3, <1>4, <1>5, TypesMoved DEF ScheduleTypes

LEMMA TypesEnqueueFails ==
  ASSUME ScheduleTypes, NEW i \in Calls, EnqueueFails(i)
  PROVE  ScheduleTypes'
<1>1. /\ Does(i, "enqueue") /\ UNCHANGED <<kept, jobAt, up, clock, stops>>
      /\ lost' = IF calling[i].kind = "fire" THEN lost \union {calling[i].of} ELSE lost
  BY DEF EnqueueFails
<1>2. calling[i].of \in Schedules
  BY <1>1, CallIsTyped
<1>3. PICK y : Turns(i, y)
  BY CallRefused
<1> QED BY <1>1, <1>2, <1>3, TypesMoved DEF ScheduleTypes, kept

LEMMA TypesSync == ASSUME ScheduleTypes, NEW i \in Calls, Sync(i) PROVE ScheduleTypes'
<1>1. /\ Does(i, "sync") /\ CallGoesOn(i, calling[i]) /\ UNCHANGED <<kept, up, clock, stops>>
      /\ jobAt' = [jobAt EXCEPT ![calling[i].of] = JobFor(calling[i].seen[calling[i].of])]
      /\ lost' = lost \ {calling[i].of}
  BY DEF Sync
<1>2. /\ calling[i] # NotCalling /\ calling[i].of \in Schedules
      /\ calling[i].seen[calling[i].of] \in Record
  BY <1>1, CallIsTyped
<1>3. PICK y : Turns(i, y)
  BY <1>1, <1>2, CallContinues
<1>4. jobAt' \in [Schedules -> Nat \union {Never}]
  <2>1. JobFor(calling[i].seen[calling[i].of]) \in Nat \union {Never}
    BY <1>2 DEF JobFor, Record
  <2> QED BY <1>1, <2>1 DEF ScheduleTypes
<1> QED BY <1>1, <1>3, <1>4, TypesMoved DEF ScheduleTypes, kept

LEMMA TypesFire ==
  ASSUME ScheduleTypes, NEW i \in Calls, NEW s \in Schedules, Fire(i, s)
  PROVE  ScheduleTypes'
<1>1. /\ Drops(s) /\ calling' = [calling EXCEPT ![i] = NewCall("fire", s)]
      /\ UNCHANGED <<kept, up, clock, lost, stops>>
  BY DEF Fire
<1>2. "fire" \in CallKinds
  BY DEF CallKinds
<1>3. Turns(i, NewCall("fire", s))
  BY <1>1, <1>2, CallBegins
<1>4. PICK y : Turns(i, y)
  BY <1>3
<1>5. jobAt' \in [Schedules -> Nat \union {Never}]
  BY <1>1 DEF Drops, ScheduleTypes
<1> QED BY <1>1, <1>4, <1>5, TypesMoved DEF ScheduleTypes, kept

LEMMA TypesOfDaemon == ASSUME ScheduleTypes, Start \/ StopDaemon \/ Pass PROVE ScheduleTypes'
<1>1. CASE Start
  <2>1. jobAt' \in [Schedules -> Nat \union {Never}]
    BY <1>1 DEF Start, ScheduleTypes, JobFor, Record
  <2> QED BY <1>1, <2>1 DEF Start, ScheduleTypes, kept
<1>2. CASE StopDaemon
  <2>1. stops' \in 0 .. MaxOutages
    BY <1>2, ScheduleAssumption DEF StopDaemon, ScheduleTypes
  <2> QED BY <1>2, <2>1 DEF StopDaemon, ScheduleTypes, kept
<1>3. CASE Pass
  BY <1>3 DEF Pass, ScheduleTypes, kept
<1> QED BY <1>1, <1>2, <1>3

LEMMA TypesOfMisfire ==
  ASSUME ScheduleTypes, NEW s \in Schedules, Misfire(s)
  PROVE  ScheduleTypes'
<1>1. jobAt' \in [Schedules -> Nat \union {Never}]
  BY DEF Misfire, Drops, ScheduleTypes
<1> QED BY <1>1 DEF Misfire, ScheduleTypes, kept

LEMMA TypesStep == ScheduleTypes /\ [ScheduleNext]_scheduleVars => ScheduleTypes'
<1> SUFFICES ASSUME ScheduleTypes, [ScheduleNext]_scheduleVars PROVE ScheduleTypes'
  OBVIOUS
<1>1. ASSUME NEW i \in Calls, NEW s \in Schedules,
             NEW kind \in {"create", "pause", "resume", "trigger", "tick"}, BeginCall(i, kind, s)
      PROVE  ScheduleTypes'
  <2>1. kind \in CallKinds
    BY DEF CallKinds
  <2> QED BY <1>1, <2>1, TypesBegin
<1>2. ASSUME NEW i \in Calls, Proceed(i) PROVE ScheduleTypes'
  BY <1>2, TypesRead, TypesCreateSchedule, TypesPause, TypesResume, TypesList, TypesNextDue,
     TypesEnqueue, TypesEnqueueFails, TypesNoteError, TypesSaveTriggered, TypesSync DEF Proceed
<1>3. ASSUME NEW s \in Schedules, Misfire(s) PROVE ScheduleTypes'
  BY <1>3, TypesOfMisfire
<1>4. ASSUME NEW i \in Calls, NEW s \in Schedules, Fire(i, s) PROVE ScheduleTypes'
  BY <1>4, TypesFire
<1>5. CASE Start \/ StopDaemon \/ Pass
  BY <1>5, TypesOfDaemon
<1>6. CASE UNCHANGED scheduleVars
  BY <1>6 DEF scheduleVars, ScheduleTypes
<1> QED BY <1>1, <1>2, <1>3, <1>4, <1>5, <1>6 DEF ScheduleNext, Background

\* However many calls work on the schedules at once, on copies as old as they
\* are, the schedules, the daemon's jobs and the calls stay well formed.
THEOREM ScheduleTypeCorrect == ScheduleSpec => []ScheduleTypeOK
<1>1. ScheduleTypes => ScheduleTypeOK
  <2> SUFFICES ASSUME ScheduleTypes PROVE ScheduleTypeOK
    OBVIOUS
  <2>1. \A i \in Calls : calling[i].todo # <<>> =>
          /\ calling[i].of \in Schedules /\ calling[i].seen \in [Schedules -> Record]
          /\ calling[i].rest \subseteq Schedules
    BY WorkingCall
  <2> QED BY <2>1 DEF ScheduleTypes, ScheduleTypeOK
<1>2. ScheduleSpec => []ScheduleTypes
  BY ScheduleTypesInitially, TypesStep, PTL DEF ScheduleSpec
<1> QED BY <1>1, <1>2, PTL

-----------------------------------------------------------------------------
(* The scheduler's tables.  A call is described by the accesses it has left, *)
(* and by what it knows of the tables at the next one.                       *)

NoRequest == [todo |-> <<>>]

\* What a call of each kind may have left to do.
PendingAccesses(kind) ==
    CASE kind = "claim" -> {<<"leases", "sweep", "queue", "assign", "grant">>,
                            <<"sweep", "queue", "assign", "grant">>,
                            <<"queue", "assign", "grant">>, <<"assign", "grant">>, <<"grant">>}
      [] kind \in {"start", "finish"} ->
           {<<"item", "leases", "sweep", "relet", "save">>, <<"leases", "sweep", "relet", "save">>,
            <<"sweep", "relet", "save">>, <<"relet", "save">>, <<"save">>}
      [] kind = "recover" -> {<<"list", "check">>, <<"check">>}
      [] kind = "annotate" -> {<<"item", "save">>, <<"save">>}
      [] OTHER -> {<<"item", "release", "save">>, <<"release", "save">>, <<"save">>}

RequestType == [todo : UNION {PendingAccesses(kind) : kind \in AllKinds}, kind : AllKinds,
                by : Workers \union {NoWorker}, run : Items, late : SUBSET Items,
                item : RunType, leases : [Items -> LeaseType]]

RacesTypes ==
    /\ run \in [Items -> RunType]
    /\ lease \in [Items -> LeaseType]
    /\ crashes \in 0 .. MaxCrashes
    /\ request \in [Requests -> RequestType \union {NoRequest}]
    /\ \A i \in Requests : request[i] # NoRequest => request[i].todo \in PendingAccesses(request[i].kind)

\* Where an access leads: which calls make it, and what they do next.
GoesBy(kind, todo) ==
    /\ todo # <<>>
    /\ Len(todo) = 1 => Head(todo) \in {"grant", "save", "check"}
    /\ Head(todo) \in {"grant", "save", "check"} => Len(todo) = 1
    /\ Len(todo) # 1 => Tail(todo) \in PendingAccesses(kind)
    /\ Head(todo) = "leases" =>
         kind \in {"claim", "start", "finish"} /\ Head(Tail(todo)) = "sweep"
    /\ Head(todo) = "sweep" =>
         \/ kind = "claim" /\ Head(Tail(todo)) = "queue"
         \/ kind \in {"start", "finish"} /\ Head(Tail(todo)) = "relet"
    /\ Head(todo) = "queue" => kind = "claim" /\ Head(Tail(todo)) = "assign"
    /\ Head(todo) = "assign" => kind = "claim" /\ Head(Tail(todo)) = "grant"
    /\ Head(todo) = "grant" => kind = "claim"
    /\ Head(todo) = "item" =>
         \/ kind \in {"start", "finish"} /\ Head(Tail(todo)) = "leases"
         \/ kind \in {"requeue", "fail", "cancel"} /\ Head(Tail(todo)) = "release"
         \/ kind = "annotate" /\ Head(Tail(todo)) = "save"
    /\ Head(todo) = "list" => kind = "recover" /\ Head(Tail(todo)) = "check"
    /\ Head(todo) = "check" => kind = "recover"
    /\ Head(todo) = "relet" => kind \in {"start", "finish"} /\ Head(Tail(todo)) = "save"
    /\ Head(todo) = "release" =>
         kind \in {"requeue", "fail", "cancel"} /\ Head(Tail(todo)) = "save"
    /\ Head(todo) = "save" => kind \notin {"claim", "recover"}

LEMMA PendingGoesOn ==
  ASSUME NEW kind \in AllKinds, NEW todo \in PendingAccesses(kind)
  PROVE  GoesBy(kind, todo)
<1>1. CASE kind = "claim"
  <2>1. CASE todo = <<"leases", "sweep", "queue", "assign", "grant">>
    BY <1>1, <2>1 DEF PendingAccesses, GoesBy
  <2>2. CASE todo = <<"sweep", "queue", "assign", "grant">>
    BY <1>1, <2>2 DEF PendingAccesses, GoesBy
  <2>3. CASE todo = <<"queue", "assign", "grant">>
    BY <1>1, <2>3 DEF PendingAccesses, GoesBy
  <2>4. CASE todo = <<"assign", "grant">>
    BY <1>1, <2>4 DEF PendingAccesses, GoesBy
  <2>5. CASE todo = <<"grant">>
    BY <1>1, <2>5 DEF PendingAccesses, GoesBy
  <2> QED BY <1>1, <2>1, <2>2, <2>3, <2>4, <2>5 DEF PendingAccesses
<1>2. CASE kind \in {"start", "finish"}
  <2>1. CASE todo = <<"item", "leases", "sweep", "relet", "save">>
    BY <1>2, <2>1 DEF PendingAccesses, GoesBy
  <2>2. CASE todo = <<"leases", "sweep", "relet", "save">>
    BY <1>2, <2>2 DEF PendingAccesses, GoesBy
  <2>3. CASE todo = <<"sweep", "relet", "save">>
    BY <1>2, <2>3 DEF PendingAccesses, GoesBy
  <2>4. CASE todo = <<"relet", "save">>
    BY <1>2, <2>4 DEF PendingAccesses, GoesBy
  <2>5. CASE todo = <<"save">>
    BY <1>2, <2>5 DEF PendingAccesses, GoesBy
  <2> QED BY <1>2, <2>1, <2>2, <2>3, <2>4, <2>5 DEF PendingAccesses
<1>3. CASE kind = "recover"
  <2>1. CASE todo = <<"list", "check">>
    BY <1>3, <2>1 DEF PendingAccesses, GoesBy
  <2>2. CASE todo = <<"check">>
    BY <1>3, <2>2 DEF PendingAccesses, GoesBy
  <2> QED BY <1>3, <2>1, <2>2 DEF PendingAccesses
<1>4. CASE kind = "annotate"
  <2>1. CASE todo = <<"item", "save">>
    BY <1>4, <2>1 DEF PendingAccesses, GoesBy
  <2>2. CASE todo = <<"save">>
    BY <1>4, <2>2 DEF PendingAccesses, GoesBy
  <2> QED BY <1>4, <2>1, <2>2 DEF PendingAccesses
<1>5. CASE kind \in {"requeue", "fail", "cancel"}
  <2>1. CASE todo = <<"item", "release", "save">>
    BY <1>5, <2>1 DEF PendingAccesses, GoesBy
  <2>2. CASE todo = <<"release", "save">>
    BY <1>5, <2>2 DEF PendingAccesses, GoesBy
  <2>3. CASE todo = <<"save">>
    BY <1>5, <2>3 DEF PendingAccesses, GoesBy
  <2> QED BY <1>5, <2>1, <2>2, <2>3 DEF PendingAccesses
<1> QED BY <1>1, <1>2, <1>3, <1>4, <1>5 DEF AllKinds

LEMMA PlansArePending ==
  ASSUME NEW kind \in AllKinds
  PROVE  /\ Accesses(kind) \in PendingAccesses(kind)
         /\ \/ Head(Accesses(kind)) = "item"
            \/ Head(Accesses(kind)) \in {"leases", "list"} /\ kind \in {"claim", "recover"}
<1>1. CASE kind = "claim"
  BY <1>1 DEF Accesses, PendingAccesses
<1>2. CASE kind \in {"start", "finish"}
  BY <1>2 DEF Accesses, PendingAccesses
<1>3. CASE kind = "recover"
  BY <1>3 DEF Accesses, PendingAccesses
<1>4. CASE kind = "annotate"
  BY <1>4 DEF Accesses, PendingAccesses
<1>5. CASE kind \in {"requeue", "fail", "cancel"}
  BY <1>5 DEF Accesses, PendingAccesses
<1> QED BY <1>1, <1>2, <1>3, <1>4, <1>5 DEF AllKinds

\* A call in progress is one that knows what it is about.
LEMMA RequestAt ==
  ASSUME RacesTypes, NEW i \in Requests, NEW access, Doing(i, access)
  PROVE  /\ request[i] \in RequestType /\ Head(request[i].todo) = access
         /\ request[i].todo \in PendingAccesses(request[i].kind)
         /\ GoesBy(request[i].kind, request[i].todo)
<1>1. request[i] # NoRequest /\ Head(request[i].todo) = access
  BY DEF Doing, NoRequest
<1>2. request[i] \in RequestType /\ request[i].todo \in PendingAccesses(request[i].kind)
  BY <1>1 DEF RacesTypes
<1>3. request[i].kind \in AllKinds
  BY <1>2 DEF RequestType
<1> QED BY <1>1, <1>2, <1>3, PendingGoesOn

\* The call with its next access behind it.
Onward(q) == IF Len(q.todo) = 1 THEN NoRequest ELSE [q EXCEPT !.todo = Tail(@)]

\* What it has become: gone, or as it was with the rest to do.
Passes(q, y) ==
    \/ y = NoRequest /\ Head(q.todo) \in {"grant", "save", "check"}
    \/ /\ y \in RequestType /\ y # NoRequest
       /\ y.todo = Tail(q.todo) /\ y.todo \in PendingAccesses(q.kind)
       /\ y.kind = q.kind /\ y.by = q.by /\ y.run = q.run /\ y.late = q.late
       /\ y.item = q.item /\ y.leases = q.leases
       /\ Head(q.todo) \notin {"grant", "save", "check"}

LEMMA RequestTypeIsNot == \A q \in RequestType : q # NoRequest
<1> SUFFICES ASSUME NEW q \in RequestType PROVE q.todo # <<>>
  BY DEF NoRequest
<1>1. PICK kind \in AllKinds : q.todo \in PendingAccesses(kind)
  BY DEF RequestType
<1>2. GoesBy(kind, q.todo)
  BY <1>1, PendingGoesOn
<1> QED BY <1>2 DEF GoesBy

LEMMA RequestPasses ==
  ASSUME NEW i \in Requests, NEW q \in RequestType, q.todo \in PendingAccesses(q.kind), Continues(i, q)
  PROVE  request' = [request EXCEPT ![i] = Onward(q)] /\ Passes(q, Onward(q))
<1>1. request' = [request EXCEPT ![i] = Onward(q)]
  BY DEF Continues, EndsRequest, RequestGoes, Onward, NoRequest
<1>2. q.kind \in AllKinds
  BY DEF RequestType
<1>3. GoesBy(q.kind, q.todo)
  BY <1>2, PendingGoesOn
<1>4. CASE Len(q.todo) = 1
  <2>1. Onward(q) = NoRequest
    BY <1>4 DEF Onward
  <2>2. Head(q.todo) \in {"grant", "save", "check"}
    BY <1>3, <1>4 DEF GoesBy
  <2> QED BY <1>1, <2>1, <2>2 DEF Passes
<1>5. CASE Len(q.todo) # 1
  <2> DEFINE y == [q EXCEPT !.todo = Tail(@)]
  <2>1. Onward(q) = y
    BY <1>5 DEF Onward
  <2>2. Tail(q.todo) \in PendingAccesses(q.kind) /\ Head(q.todo) \notin {"grant", "save", "check"}
    BY <1>3, <1>5 DEF GoesBy
  <2>3. Tail(q.todo) \in UNION {PendingAccesses(kind) : kind \in AllKinds}
    BY <1>2, <2>2
  <2>4. /\ y \in RequestType /\ y.todo = Tail(q.todo)
        /\ y.kind = q.kind /\ y.by = q.by /\ y.run = q.run /\ y.late = q.late
        /\ y.item = q.item /\ y.leases = q.leases
    BY <2>3 DEF RequestType
  <2> HIDE DEF y
  <2>5. y # NoRequest
    BY <2>4, RequestTypeIsNot
  <2>6. Passes(q, y)
    BY <2>2, <2>4, <2>5 DEF Passes
  <2> QED BY <1>1, <2>1, <2>6
<1> QED BY <1>1, <1>4, <1>5

\* A call that moves to a well-formed state keeps the types if what it writes
\* is well formed.
StepsTo(i, y) ==
    /\ request' = [request EXCEPT ![i] = y]
    /\ \/ y = NoRequest
       \/ y \in RequestType /\ y.todo \in PendingAccesses(y.kind)

LEMMA PassingSteps ==
  ASSUME NEW i \in Requests, NEW q, NEW y, request' = [request EXCEPT ![i] = y], Passes(q, y)
  PROVE  StepsTo(i, y)
<1>1. CASE y = NoRequest
  BY <1>1 DEF StepsTo
<1>2. CASE y # NoRequest
  <2>1. y \in RequestType /\ y.kind = q.kind /\ y.todo \in PendingAccesses(q.kind)
    BY <1>2 DEF Passes
  <2>2. y.todo \in PendingAccesses(y.kind)
    BY <2>1
  <2> QED BY <2>1, <2>2 DEF StepsTo
<1> QED BY <1>1, <1>2

LEMMA TypesAfterStep ==
  ASSUME RacesTypes, NEW i \in Requests, NEW y, StepsTo(i, y), UNCHANGED crashes,
         run' \in [Items -> RunType], lease' \in [Items -> LeaseType]
  PROVE  /\ RacesTypes'
         /\ request'[i] = y /\ \A j \in Requests \ {i} : request'[j] = request[j]
BY DEF StepsTo, RacesTypes

LEMMA NoRequestSteps ==
  ASSUME RacesTypes, NEW i \in Requests, EndsRequest(i), UNCHANGED crashes,
         run' \in [Items -> RunType], lease' \in [Items -> LeaseType]
  PROVE  RacesTypes' /\ request'[i] = NoRequest
<1>1. StepsTo(i, NoRequest)
  BY DEF EndsRequest, RequestGoes, NoRequest, StepsTo
<1> QED BY <1>1, TypesAfterStep

\* The call i goes on as q, and is well formed after it.
GoesOnAs(i, q) == RacesTypes' /\ Passes(q, request'[i])

LEMMA CallPasses ==
  ASSUME RacesTypes, NEW i \in Requests, NEW access, Doing(i, access),
         NEW q \in RequestType, q.todo = request[i].todo, q.kind = request[i].kind,
         Continues(i, q), UNCHANGED crashes,
         run' \in [Items -> RunType], lease' \in [Items -> LeaseType]
  PROVE  GoesOnAs(i, q)
<1>1. q.todo \in PendingAccesses(q.kind)
  BY RequestAt
<1>2. request' = [request EXCEPT ![i] = Onward(q)] /\ Passes(q, Onward(q))
  BY <1>1, RequestPasses
<1>3. StepsTo(i, Onward(q))
  BY <1>2, PassingSteps
<1>4. RacesTypes' /\ request'[i] = Onward(q)
  BY <1>3, TypesAfterStep
<1> QED BY <1>2, <1>4 DEF GoesOnAs

\* A call that has nothing to remember of its access.
LEMMA CallPassesOn ==
  ASSUME RacesTypes, NEW i \in Requests, NEW access, Doing(i, access),
         Continues(i, request[i]), UNCHANGED crashes,
         run' \in [Items -> RunType], lease' \in [Items -> LeaseType]
  PROVE  GoesOnAs(i, request[i])
<1>1. request[i] \in RequestType
  BY RequestAt
<1>2. PICK q : q = request[i]
  OBVIOUS
<1> QED BY <1>1, <1>2, CallPasses

LEMMA TablesTyped == RacesTypes => run \in [Items -> RunType] /\ lease \in [Items -> LeaseType]
BY DEF RacesTypes

\* A new call: nothing read yet.
FreshCall(q) ==
    /\ q.todo \in PendingAccesses(q.kind)
    /\ \/ Head(q.todo) = "item"
       \/ Head(q.todo) \in {"leases", "list"} /\ q.kind \in {"claim", "recover"}

LEMMA RequestBegins ==
  ASSUME RacesTypes, NEW i \in Requests, NEW kind, NEW w \in Workers \union {NoWorker},
         NEW r \in Items, BeginRequest(i, kind, w, r)
  PROVE  RacesTypes' /\ FreshCall(request'[i]) /\ UNCHANGED <<run, lease, crashes>>
<1> DEFINE late == {s \in Items : lease[s].lapsed}
           y == [todo |-> Accesses(kind), kind |-> kind, by |-> w, run |-> r,
                 late |-> late, item |-> NoItem, leases |-> lease]
<1>1. kind \in AllKinds /\ request' = [request EXCEPT ![i] = y] /\ UNCHANGED <<run, lease, crashes>>
  BY RacesAssumption DEF BeginRequest
<1>2. /\ Accesses(kind) \in PendingAccesses(kind)
      /\ \/ Head(Accesses(kind)) = "item"
         \/ Head(Accesses(kind)) \in {"leases", "list"} /\ kind \in {"claim", "recover"}
  BY <1>1, PlansArePending
<1>3. Accesses(kind) \in UNION {PendingAccesses(k) : k \in AllKinds}
  BY <1>1, <1>2
<1>4. NoItem \in RunType /\ lease \in [Items -> LeaseType] /\ late \in SUBSET Items
  BY TablesTyped DEF NoItem, RunType
<1> HIDE DEF late
<1>5. y \in RequestType /\ y.kind = kind /\ y.todo = Accesses(kind)
  BY <1>1, <1>3, <1>4 DEF RequestType
<1> HIDE DEF y
<1>6. y.todo \in PendingAccesses(y.kind)
  BY <1>2, <1>5
<1>7. StepsTo(i, y)
  BY <1>1, <1>5, <1>6 DEF StepsTo
<1>8. RacesTypes' /\ request'[i] = y
  BY <1>1, <1>7, TablesTyped, TypesAfterStep
<1> QED BY <1>1, <1>2, <1>5, <1>6, <1>8 DEF FreshCall

LEMMA LeasesAreRead ==
  ASSUME RacesTypes, NEW i \in Requests, ReadLeases(i)
  PROVE  GoesOnAs(i, [request[i] EXCEPT !.leases = lease])
<1> DEFINE q == [request[i] EXCEPT !.leases = lease]
<1>1. Doing(i, "leases") /\ Continues(i, q) /\ UNCHANGED <<run, lease, crashes>>
  BY DEF ReadLeases
<1>2. request[i] \in RequestType
  BY <1>1, RequestAt
<1>3. q \in RequestType /\ q.todo = request[i].todo /\ q.kind = request[i].kind
  BY <1>2, TablesTyped DEF RequestType
<1> HIDE DEF q
<1>4. GoesOnAs(i, q)
  BY <1>1, <1>3, TablesTyped, CallPasses
<1> QED BY <1>4 DEF q

\* claim takes the run r of the queue.
TakesItem(i, r) == [request[i] EXCEPT !.run = r, !.item = run[r]]

LEMMA QueueIsRead ==
  ASSUME RacesTypes, NEW i \in Requests, ReadQueue(i)
  PROVE  /\ RacesTypes'
         /\ \/ request'[i] = NoRequest
            \/ \E r \in FreeItems(i) : GoesOnAs(i, TakesItem(i, r))
<1>1. Doing(i, "queue") /\ UNCHANGED <<run, lease, crashes>>
  BY DEF ReadQueue
<1>2. EndsRequest(i) \/ \E r \in FreeItems(i) : Continues(i, TakesItem(i, r))
  BY DEF ReadQueue, TakesItem
<1>3. CASE EndsRequest(i)
  BY <1>1, <1>3, TablesTyped, NoRequestSteps
<1>4. CASE \E r \in FreeItems(i) : Continues(i, TakesItem(i, r))
  <2>1. PICK r \in FreeItems(i) : Continues(i, TakesItem(i, r))
    BY <1>4
  <2>2. request[i] \in RequestType /\ run[r] \in RunType /\ r \in Items
    BY <1>1, RequestAt, TablesTyped DEF FreeItems
  <2> DEFINE q == TakesItem(i, r)
  <2>3. q \in RequestType /\ q.todo = request[i].todo /\ q.kind = request[i].kind
    BY <2>2 DEF RequestType, TakesItem
  <2> HIDE DEF q
  <2>4. Continues(i, q)
    BY <2>1 DEF q
  <2>5. GoesOnAs(i, q)
    BY <1>1, <2>3, <2>4, TablesTyped, CallPasses
  <2> QED BY <2>1, <2>5 DEF q, GoesOnAs
<1> QED BY <1>2, <1>3, <1>4

\* A call has read the record of its run.
Sees(i) == [request[i] EXCEPT !.item = run[request[i].run]]

LEMMA ItemIsRead ==
  ASSUME RacesTypes, NEW i \in Requests, ReadItem(i)
  PROVE  /\ RacesTypes'
         /\ \/ request'[i] = NoRequest
            \/ /\ run[request[i].run].status \notin RefusedBy(request[i].kind)
               /\ GoesOnAs(i, Sees(i))
<1>1. Doing(i, "item") /\ UNCHANGED <<run, lease, crashes>>
  BY DEF ReadItem
<1>2. CASE run[request[i].run].status \in RefusedBy(request[i].kind)
  <2>1. EndsRequest(i)
    BY <1>2 DEF ReadItem
  <2> QED BY <1>1, <2>1, TablesTyped, NoRequestSteps
<1>3. CASE run[request[i].run].status \notin RefusedBy(request[i].kind)
  <2> DEFINE q == Sees(i)
  <2>1. Continues(i, q)
    BY <1>3 DEF ReadItem, Sees
  <2>2. request[i] \in RequestType
    BY <1>1, RequestAt
  <2>3. run[request[i].run] \in RunType
    BY <2>2, TablesTyped DEF RequestType
  <2>4. q \in RequestType /\ q.todo = request[i].todo /\ q.kind = request[i].kind
    BY <2>2, <2>3 DEF RequestType, Sees
  <2> HIDE DEF q
  <2>5. GoesOnAs(i, q)
    BY <1>1, <2>1, <2>4, TablesTyped, CallPasses
  <2> QED BY <1>3, <2>5 DEF q, GoesOnAs
<1> QED BY <1>2, <1>3

LEMMA ListIsRead ==
  ASSUME RacesTypes, NEW i \in Requests, ReadList(i)
  PROVE  RacesTypes' /\ (request'[i] = NoRequest \/ GoesOnAs(i, request[i]))
<1>1. Doing(i, "list") /\ UNCHANGED <<run, lease, crashes>>
      /\ (EndsRequest(i) \/ Continues(i, request[i]))
  BY DEF ReadList
<1>2. CASE EndsRequest(i)
  BY <1>1, <1>2, TablesTyped, NoRequestSteps
<1>3. CASE Continues(i, request[i])
  <2>1. GoesOnAs(i, request[i])
    BY <1>1, <1>3, TablesTyped, CallPassesOn
  <2> QED BY <2>1 DEF GoesOnAs
<1> QED BY <1>1, <1>2, <1>3

\* recover goes on as the call it makes.
LEMMA LapsedIsChecked ==
  ASSUME RacesTypes, NEW i \in Requests, CheckLapsed(i)
  PROVE  RacesTypes' /\ (request'[i] = NoRequest \/ FreshCall(request'[i]))
<1>1. Doing(i, "check") /\ UNCHANGED <<run, lease, crashes>>
  BY DEF CheckLapsed
<1>2. \/ EndsRequest(i)
      \/ \E kind \in {"requeue", "fail"} :
           RequestGoes(i, [request[i] EXCEPT !.kind = kind, !.todo = Accesses(kind)])
  BY DEF CheckLapsed
<1>3. CASE EndsRequest(i)
  BY <1>1, <1>3, TablesTyped, NoRequestSteps
<1>4. CASE \E kind \in {"requeue", "fail"} :
             RequestGoes(i, [request[i] EXCEPT !.kind = kind, !.todo = Accesses(kind)])
  <2>1. PICK kind \in {"requeue", "fail"} :
          RequestGoes(i, [request[i] EXCEPT !.kind = kind, !.todo = Accesses(kind)])
    BY <1>4
  <2> DEFINE y == [request[i] EXCEPT !.kind = kind, !.todo = Accesses(kind)]
  <2>2. request[i] \in RequestType
    BY <1>1, RequestAt
  <2>3. kind \in AllKinds
    BY DEF AllKinds
  <2>4. /\ Accesses(kind) \in PendingAccesses(kind)
        /\ Head(Accesses(kind)) = "item"
    BY <2>3, PlansArePending DEF Accesses
  <2>5. Accesses(kind) \in UNION {PendingAccesses(k) : k \in AllKinds}
    BY <2>3, <2>4
  <2>6. y \in RequestType /\ y.kind = kind /\ y.todo = Accesses(kind)
    BY <2>2, <2>3, <2>5 DEF RequestType
  <2>7. request' = [request EXCEPT ![i] = y]
    BY <2>1 DEF RequestGoes
  <2> HIDE DEF y
  <2>8. StepsTo(i, y)
    BY <2>4, <2>6, <2>7 DEF StepsTo
  <2>9. RacesTypes' /\ request'[i] = y
    BY <1>1, <2>8, TablesTyped, TypesAfterStep
  <2> QED BY <2>4, <2>6, <2>9 DEF FreshCall
<1> QED BY <1>2, <1>3, <1>4

LEMMA LeasesAreSwept ==
  ASSUME RacesTypes, NEW i \in Requests, Sweep(i)
  PROVE  GoesOnAs(i, request[i])
<1>1. Doing(i, "sweep") /\ Continues(i, request[i]) /\ UNCHANGED <<run, crashes>>
  BY DEF Sweep
<1>2. request[i].leases \in [Items -> LeaseType]
  BY <1>1, RequestAt DEF RequestType
<1>3. \A r \in Items : lease'[r] \in LeaseType
  <2> SUFFICES ASSUME NEW r \in Items PROVE lease'[r] \in LeaseType
    OBVIOUS
  <2>1. \/ lease'[r] = [request[i].leases[r] EXCEPT !.active = FALSE]
        \/ lease'[r] = lease[r]
    BY DEF Sweep
  <2>2. request[i].leases[r] \in LeaseType /\ lease[r] \in LeaseType
    BY <1>2, TablesTyped
  <2> QED BY <2>1, <2>2 DEF LeaseType
<1>4. lease' \in [Items -> LeaseType]
  BY <1>3 DEF Sweep
<1> QED BY <1>1, <1>4, TablesTyped, CallPassesOn

LEMMA ItemIsAssigned ==
  ASSUME RacesTypes, NEW i \in Requests, Assign(i)
  PROVE  GoesOnAs(i, request[i])
<1> DEFINE q == request[i]
           x == [q.item EXCEPT !.worker = q.by]
<1>1. /\ Doing(i, "assign") /\ Continues(i, request[i]) /\ UNCHANGED <<lease, crashes>>
      /\ run' = [run EXCEPT ![q.run] = x]
  BY DEF Assign
<1>2. q.item \in RunType /\ q.by \in Workers \union {NoWorker}
  BY <1>1, RequestAt DEF RequestType
<1> HIDE DEF q
<1>3. x \in RunType
  BY <1>2 DEF RunType
<1> HIDE DEF x
<1>4. run' \in [Items -> RunType]
  BY <1>1, <1>3, TablesTyped
<1> QED BY <1>1, <1>4, TablesTyped, CallPassesOn

LEMMA LeaseIsGranted ==
  ASSUME RacesTypes, NEW i \in Requests, Grant(i)
  PROVE  GoesOnAs(i, request[i])
<1> DEFINE q == request[i]
           x == [holder |-> q.by, active |-> TRUE, lapsed |-> FALSE]
<1>1. /\ Doing(i, "grant") /\ Continues(i, request[i]) /\ UNCHANGED <<run, crashes>>
      /\ lease' = [lease EXCEPT ![q.run] = x]
  BY DEF Grant
<1>2. q.by \in Workers \union {NoWorker}
  BY <1>1, RequestAt DEF RequestType
<1> HIDE DEF q
<1>3. x \in LeaseType
  BY <1>2 DEF LeaseType
<1> HIDE DEF x
<1>4. lease' \in [Items -> LeaseType]
  BY <1>1, <1>3, TablesTyped
<1> QED BY <1>1, <1>4, TablesTyped, CallPassesOn

\* The lease as report saves it.
Reported(q) == [q.leases[q.run] EXCEPT !.active = q.kind = "start",
                                       !.lapsed = @ /\ q.kind # "start"]

LEMMA ReportedType ==
  ASSUME NEW q \in RequestType
  PROVE  /\ Reported(q) \in LeaseType
         /\ Reported(q).active = (q.kind = "start")
         /\ Reported(q).holder = q.leases[q.run].holder
<1>1. q.leases[q.run] \in LeaseType
  BY DEF RequestType
<1> QED BY <1>1 DEF Reported, LeaseType

LEMMA LeaseIsReported ==
  ASSUME RacesTypes, NEW i \in Requests, Relet(i)
  PROVE  RacesTypes' /\ (request'[i] = NoRequest \/ GoesOnAs(i, request[i]))
<1> DEFINE q == request[i]
<1>1. Doing(i, "relet") /\ UNCHANGED <<run, crashes>>
  BY DEF Relet
<1>2. lease' = lease \/ lease' = [lease EXCEPT ![q.run] = Reported(q)]
  BY DEF Relet, Reported
<1>3. Reported(q) \in LeaseType
  BY <1>1, RequestAt, ReportedType
<1> HIDE DEF q
<1>4. lease' \in [Items -> LeaseType]
  BY <1>2, <1>3, TablesTyped
<1>5. EndsRequest(i) \/ Continues(i, request[i])
  BY DEF Relet
<1>6. CASE EndsRequest(i)
  BY <1>1, <1>4, <1>6, TablesTyped, NoRequestSteps
<1>7. CASE Continues(i, request[i])
  <2>1. GoesOnAs(i, request[i])
    BY <1>1, <1>4, <1>7, TablesTyped, CallPassesOn
  <2> QED BY <2>1 DEF GoesOnAs
<1> QED BY <1>5, <1>6, <1>7

LEMMA LeaseIsReleased ==
  ASSUME RacesTypes, NEW i \in Requests, Release(i)
  PROVE  GoesOnAs(i, request[i])
<1> DEFINE q == request[i]
<1>1. Doing(i, "release") /\ Continues(i, request[i]) /\ UNCHANGED <<run, crashes>>
  BY DEF Release
<1>2. lease' = lease \/ lease' = [lease EXCEPT ![q.run].active = FALSE]
  BY DEF Release
<1>3. q.run \in Items
  BY <1>1, RequestAt DEF RequestType
<1> HIDE DEF q
<1>4. lease' \in [Items -> LeaseType]
  BY <1>2, <1>3, TablesTyped DEF LeaseType
<1> QED BY <1>1, <1>4, TablesTyped, CallPassesOn

LEMMA WrittenType ==
  ASSUME NEW q \in RequestType
  PROVE  Written(q) \in RunType
<1> DEFINE x == q.item
<1>1. x \in RunType
  BY DEF RequestType
<1>2. \/ \E status \in {"running", "over", "failed"} : Written(q) = [x EXCEPT !.status = status]
      \/ Written(q) = [status |-> "queued", worker |-> NoWorker]
      \/ Written(q) = x
  BY DEF Written
<1> HIDE DEF x
<1>3. [status |-> "queued", worker |-> NoWorker] \in RunType
  BY DEF RunType, Open
<1>4. \A status \in {"running", "over", "failed"} : [x EXCEPT !.status = status] \in RunType
  BY <1>1 DEF RunType, Open
<1> QED BY <1>1, <1>2, <1>3, <1>4

LEMMA ItemIsSaved ==
  ASSUME RacesTypes, NEW i \in Requests, Save(i)
  PROVE  GoesOnAs(i, request[i])
<1> DEFINE q == request[i]
<1>1. /\ Doing(i, "save") /\ Continues(i, request[i]) /\ UNCHANGED <<lease, crashes>>
      /\ run' = [run EXCEPT ![q.run] = Written(q)]
  BY DEF Save
<1>2. Written(q) \in RunType
  BY <1>1, RequestAt, WrittenType
<1> HIDE DEF q
<1>3. run' \in [Items -> RunType]
  BY <1>1, <1>2, TablesTyped
<1> QED BY <1>1, <1>3, TablesTyped, CallPassesOn

LEMMA WorldTyped ==
  ASSUME RacesTypes, CrashServer \/ \E r \in Items : EnqueueItem(r) \/ Lapse(r)
  PROVE  RacesTypes'
<1>1. ASSUME NEW r \in Items, EnqueueItem(r) PROVE RacesTypes'
  <2>1. /\ run' = [run EXCEPT ![r].status = "queued"]
        /\ UNCHANGED <<lease, request, crashes>>
    BY <1>1 DEF EnqueueItem
  <2>2. run' \in [Items -> RunType]
    BY <2>1, TablesTyped DEF RunType, Open
  <2> QED BY <2>1, <2>2 DEF RacesTypes
<1>2. ASSUME NEW r \in Items, Lapse(r) PROVE RacesTypes'
  <2>1. /\ lease' = [lease EXCEPT ![r].lapsed = TRUE]
        /\ UNCHANGED <<run, request, crashes>>
    BY <1>2 DEF Lapse
  <2>2. lease' \in [Items -> LeaseType]
    BY <2>1, TablesTyped DEF LeaseType
  <2> QED BY <2>1, <2>2 DEF RacesTypes
<1>3. CASE CrashServer
  <2>1. crashes' \in 0 .. MaxCrashes
    BY <1>3, RacesAssumption DEF CrashServer, RacesTypes
  <2>2. request' = [i \in Requests |-> NoRequest] /\ UNCHANGED <<run, lease>>
    BY <1>3 DEF CrashServer, NoRequest
  <2> QED BY <2>1, <2>2 DEF RacesTypes
<1> QED BY <1>1, <1>2, <1>3

LEMMA RacesTypesStep == RacesTypes /\ [RacesNext]_racesVars => RacesTypes'
<1> SUFFICES ASSUME RacesTypes, [RacesNext]_racesVars PROVE RacesTypes'
  OBVIOUS
<1>1. ASSUME NEW i \in Requests, Call(i) PROVE RacesTypes'
  <2>1. ASSUME NEW kind, NEW w \in Workers \union {NoWorker}, NEW r \in Items,
               BeginRequest(i, kind, w, r)
        PROVE  RacesTypes'
    BY <2>1, RequestBegins
  <2> QED BY <1>1, <2>1 DEF Call
<1>2. ASSUME NEW i \in Requests, Access(i) PROVE RacesTypes'
  <2>1. CASE ReadLeases(i)
    <3>1. GoesOnAs(i, [request[i] EXCEPT !.leases = lease])
      BY <2>1, LeasesAreRead
    <3> QED BY <3>1 DEF GoesOnAs
  <2>2. CASE ReadQueue(i)
    BY <2>2, QueueIsRead
  <2>3. CASE ReadItem(i)
    BY <2>3, ItemIsRead
  <2>4. CASE ReadList(i) \/ CheckLapsed(i) \/ Relet(i)
    BY <2>4, ListIsRead, LapsedIsChecked, LeaseIsReported
  <2>5. CASE Sweep(i) \/ Assign(i) \/ Grant(i) \/ Release(i) \/ Save(i)
    BY <2>5, LeasesAreSwept, ItemIsAssigned, LeaseIsGranted, LeaseIsReleased, ItemIsSaved
       DEF GoesOnAs
  <2> QED BY <1>2, <2>1, <2>2, <2>3, <2>4, <2>5 DEF Access
<1>3. CASE CrashServer \/ \E r \in Items : EnqueueItem(r) \/ Lapse(r)
  BY <1>3, WorldTyped
<1>4. CASE UNCHANGED racesVars
  BY <1>4 DEF racesVars, RacesTypes
<1> QED BY <1>1, <1>2, <1>3, <1>4 DEF RacesNext

LEMMA RacesTypesInitially == RacesInit => RacesTypes
<1> SUFFICES ASSUME RacesInit PROVE RacesTypes
  OBVIOUS
<1>1. NoItem \in RunType /\ NoLease \in LeaseType
  BY DEF NoItem, NoLease, RunType, LeaseType
<1>2. request = [i \in Requests |-> NoRequest]
  BY DEF RacesInit, NoRequest
<1> QED BY <1>1, <1>2, RacesAssumption DEF RacesInit, RacesTypes

\* However many calls overlap, and whatever each has read before, the runs and
\* the leases they save are whole records.
THEOREM RacesTypeCorrect == RacesSpec => []RacesTypeOK
<1>1. RacesTypes => RacesTypeOK
  BY DEF RacesTypes, RacesTypeOK
<1> QED BY <1>1, RacesTypesInitially, RacesTypesStep, PTL DEF RacesSpec

-----------------------------------------------------------------------------
(* One call at a time *)

\* What the theorem below assumes: no call begins before the last has ended.
OneRequest == \E i : Requests = {i}

\* The lease the call q has read was live when it took the time.
AliveTo(q, r) == q.leases[r].active /\ ~(q.leases[r].lapsed /\ r \in q.late)

\* The calls that leave their run without a lease.
Closes(q) ==
    \/ q.kind \in {"finish", "requeue", "fail"}
    \/ q.kind = "cancel" /\ q.item.status # "running"

\* What a call knows when it is alone: the run it has read is still as it read
\* it, its copy of the leases is true up to the sweep, and after the sweep a
\* lease is active exactly when the call holds it for live.
KnowsItem(q) == q.item = run[q.run] /\ q.item.status \notin RefusedBy(q.kind)
KnowsLeases(q) ==
    \A s \in Items : /\ lease[s].active <=> q.leases[s].active
                     /\ lease[s].holder = q.leases[s].holder
KnowsLive(q) ==
    \A s \in Items : /\ lease[s].active <=> AliveTo(q, s)
                     /\ lease[s].active => lease[s].holder = q.leases[s].holder
KnowsFree(q) == run[q.run].status = "queued" /\ ~lease[q.run].active

Knows(q) ==
    /\ q.kind \notin {"claim", "recover"} /\ Head(q.todo) # "item" => KnowsItem(q)
    /\ Head(q.todo) = "sweep" => KnowsLeases(q)
    /\ Head(q.todo) \in {"queue", "relet"} => KnowsLive(q)
    /\ Head(q.todo) \in {"assign", "grant"} => KnowsFree(q)
    /\ Head(q.todo) = "assign" => q.item = run[q.run]
    /\ Head(q.todo) = "grant" => run[q.run].worker = q.by
    /\ Head(q.todo) = "save" /\ Closes(q) => ~lease[q.run].active

RacesInv(i) ==
    /\ RacesTypes /\ TablesAgree
    /\ \A q \in {request[i]} \ {NoRequest} : Knows(q)

\* What a step may not do: hand a live lease to another worker, or reopen a
\* run that is over.
LeasesBlock == \A r \in Items : Live(r) /\ Live(r)' => lease'[r].holder = lease[r].holder
OversStay == \A r \in Items : run[r].status = "over" => run'[r].status = "over"

KeepsTables(i) == RacesInv(i)' /\ LeasesBlock /\ OversStay

\* A call at its next access knows what it is about.
LEMMA RequestKnows ==
  ASSUME NEW i \in Requests, RacesInv(i), NEW access, Doing(i, access), NEW q, q = request[i]
  PROVE  /\ RacesTypes /\ TablesAgree
         /\ q \in RequestType /\ Head(q.todo) = access /\ GoesBy(q.kind, q.todo)
         /\ q.run \in Items /\ q.kind \in AllKinds /\ Knows(q)
<1>1. RacesTypes /\ TablesAgree
  BY DEF RacesInv
<1>2. q \in RequestType /\ Head(q.todo) = access /\ GoesBy(q.kind, q.todo)
  BY <1>1, RequestAt
<1>3. Knows(q)
  BY <1>2, RequestTypeIsNot DEF RacesInv
<1> QED BY <1>1, <1>2, <1>3 DEF RequestType

\* A call that only reads.
LEMMA ReadingKeeps ==
  ASSUME NEW i \in Requests, RacesInv(i), UNCHANGED <<run, lease>>, RacesTypes',
         NEW y, y = request'[i], y = NoRequest \/ Knows(y)
  PROVE  KeepsTables(i)
<1>1. TablesAgree' /\ LeasesBlock /\ OversStay
  BY DEF RacesInv, TablesAgree, LeasesBlock, OversStay
<1>2. Knows(y) => Knows(y)'
  BY DEF Knows, KnowsItem, KnowsLeases, KnowsLive, KnowsFree, AliveTo, Closes
<1>3. \A q \in {request'[i]} \ {NoRequest} : Knows(q)'
  BY <1>2
<1> QED BY <1>1, <1>3 DEF KeepsTables, RacesInv

LEMMA FreshKnows == \A q : FreshCall(q) => Knows(q)
BY DEF FreshCall, Knows

LEMMA KeepsBegin ==
  ASSUME NEW i \in Requests, RacesInv(i), NEW kind, NEW w \in Workers \union {NoWorker},
         NEW r \in Items, BeginRequest(i, kind, w, r)
  PROVE  KeepsTables(i)
<1>1. RacesTypes
  BY DEF RacesInv
<1>2. RacesTypes' /\ FreshCall(request'[i]) /\ UNCHANGED <<run, lease, crashes>>
  BY <1>1, RequestBegins
<1>3. PICK y : y = request'[i]
  OBVIOUS
<1>4. FreshCall(y)
  BY <1>2, <1>3
<1> QED BY <1>2, <1>3, <1>4, FreshKnows, ReadingKeeps

LEMMA KeepsReadLeases ==
  ASSUME NEW i \in Requests, RacesInv(i), ReadLeases(i)
  PROVE  KeepsTables(i)
<1>1. PICK q : q = request[i]
  OBVIOUS
<1>2. PICK y : y = request'[i]
  OBVIOUS
<1>3. Doing(i, "leases") /\ UNCHANGED <<run, lease, crashes>>
  BY DEF ReadLeases
<1>4. /\ RacesTypes /\ q \in RequestType /\ Head(q.todo) = "leases" /\ GoesBy(q.kind, q.todo)
      /\ Knows(q)
  BY <1>1, <1>3, RequestKnows
<1> DEFINE p == [q EXCEPT !.leases = lease]
<1>5. GoesOnAs(i, p)
  BY <1>1, <1>4, LeasesAreRead
<1>6. /\ p.todo = q.todo /\ p.kind = q.kind /\ p.run = q.run /\ p.item = q.item
      /\ p.leases = lease
  BY <1>4 DEF RequestType
<1> HIDE DEF p
<1>7. RacesTypes' /\ Passes(p, y)
  BY <1>2, <1>5 DEF GoesOnAs
<1>8. Knows(y)
  <2>1. Head(y.todo) = "sweep" /\ y.kind = q.kind /\ y.run = q.run /\ y.item = q.item
        /\ y.leases = lease
    BY <1>4, <1>6, <1>7 DEF Passes, GoesBy
  <2>2. q.kind \notin {"claim", "recover"} => KnowsItem(q)
    BY <1>4 DEF Knows
  <2>3. KnowsLeases(y)
    BY <2>1 DEF KnowsLeases
  <2>4. y.kind \notin {"claim", "recover"} => KnowsItem(y)
    BY <2>1, <2>2 DEF KnowsItem
  <2> QED BY <2>1, <2>3, <2>4 DEF Knows
<1> QED BY <1>2, <1>3, <1>7, <1>8, ReadingKeeps

LEMMA KeepsReadQueue ==
  ASSUME NEW i \in Requests, RacesInv(i), ReadQueue(i)
  PROVE  KeepsTables(i)
<1>1. PICK q : q = request[i]
  OBVIOUS
<1>2. PICK y : y = request'[i]
  OBVIOUS
<1>3. Doing(i, "queue") /\ UNCHANGED <<run, lease, crashes>>
  BY DEF ReadQueue
<1>4. /\ RacesTypes /\ q \in RequestType /\ Head(q.todo) = "queue" /\ GoesBy(q.kind, q.todo)
      /\ Knows(q)
  BY <1>1, <1>3, RequestKnows
<1>5. RacesTypes'
  BY <1>4, QueueIsRead
<1>6. ASSUME NEW r \in FreeItems(i), GoesOnAs(i, TakesItem(i, r)) PROVE Knows(y)
  <2>1. r \in Items /\ run[r].status = "queued" /\ ~AliveTo(q, r)
    BY <1>1 DEF FreeItems, LiveTo, AliveTo
  <2>2. ~lease[r].active
    BY <1>4, <2>1 DEF Knows, KnowsLive
  <2> DEFINE p == TakesItem(i, r)
  <2>3. /\ p.todo = q.todo /\ p.kind = q.kind /\ p.run = r /\ p.item = run[r]
    BY <1>1, <1>4 DEF RequestType, TakesItem
  <2>4. Passes(p, y)
    BY <1>2, <1>6 DEF GoesOnAs
  <2> HIDE DEF p
  <2>5. /\ y.kind = "claim" /\ Head(y.todo) = "assign" /\ y.run = r /\ y.item = run[r]
    BY <1>4, <2>3, <2>4 DEF Passes, GoesBy
  <2>6. KnowsFree(y)
    BY <2>1, <2>2, <2>5 DEF KnowsFree
  <2> QED BY <2>5, <2>6 DEF Knows
<1>7. y = NoRequest \/ Knows(y)
  BY <1>2, <1>4, <1>6, QueueIsRead
<1> QED BY <1>2, <1>3, <1>5, <1>7, ReadingKeeps

LEMMA KeepsReadItem ==
  ASSUME NEW i \in Requests, RacesInv(i), ReadItem(i)
  PROVE  KeepsTables(i)
<1>1. PICK q : q = request[i]
  OBVIOUS
<1>2. PICK y : y = request'[i]
  OBVIOUS
<1>3. Doing(i, "item") /\ UNCHANGED <<run, lease, crashes>>
  BY DEF ReadItem
<1>4. /\ RacesTypes /\ q \in RequestType /\ Head(q.todo) = "item" /\ GoesBy(q.kind, q.todo)
  BY <1>1, <1>3, RequestKnows
<1>5. RacesTypes'
  BY <1>4, ItemIsRead
<1>6. ASSUME run[q.run].status \notin RefusedBy(q.kind), GoesOnAs(i, Sees(i)) PROVE Knows(y)
  <2> DEFINE p == Sees(i)
  <2>1. /\ p.todo = q.todo /\ p.kind = q.kind /\ p.run = q.run /\ p.item = run[q.run]
    BY <1>1, <1>4 DEF RequestType, Sees
  <2>2. Passes(p, y)
    BY <1>2, <1>6 DEF GoesOnAs
  <2> HIDE DEF p
  <2>3. /\ y.kind = q.kind /\ y.run = q.run /\ y.item = run[q.run]
        /\ y.todo = Tail(q.todo)
    BY <1>4, <2>1, <2>2 DEF Passes
  <2>4. /\ Head(y.todo) \in {"leases", "release", "save"}
        /\ Head(y.todo) = "save" => y.kind = "annotate"
    BY <1>4, <2>3 DEF GoesBy
  <2>5. KnowsItem(y)
    BY <1>6, <2>3 DEF KnowsItem
  <2> QED BY <2>4, <2>5 DEF Knows, Closes
<1>7. y = NoRequest \/ Knows(y)
  BY <1>1, <1>2, <1>4, <1>6, ItemIsRead
<1> QED BY <1>2, <1>3, <1>5, <1>7, ReadingKeeps

LEMMA KeepsReadList ==
  ASSUME NEW i \in Requests, RacesInv(i), ReadList(i)
  PROVE  KeepsTables(i)
<1>1. PICK q : q = request[i]
  OBVIOUS
<1>2. PICK y : y = request'[i]
  OBVIOUS
<1>3. Doing(i, "list") /\ UNCHANGED <<run, lease, crashes>>
  BY DEF ReadList
<1>4. RacesTypes /\ Head(q.todo) = "list" /\ GoesBy(q.kind, q.todo)
  BY <1>1, <1>3, RequestKnows
<1>5. RacesTypes' /\ (y = NoRequest \/ Passes(q, y))
  BY <1>1, <1>2, <1>4, ListIsRead DEF GoesOnAs
<1>6. Passes(q, y) => Knows(y)
  BY <1>4 DEF Passes, GoesBy, Knows
<1> QED BY <1>2, <1>3, <1>5, <1>6, ReadingKeeps

LEMMA KeepsCheckLapsed ==
  ASSUME NEW i \in Requests, RacesInv(i), CheckLapsed(i)
  PROVE  KeepsTables(i)
<1>1. PICK y : y = request'[i]
  OBVIOUS
<1>2. RacesTypes /\ UNCHANGED <<run, lease, crashes>>
  BY DEF RacesInv, CheckLapsed
<1>3. RacesTypes' /\ (y = NoRequest \/ FreshCall(y))
  BY <1>1, <1>2, LapsedIsChecked
<1> QED BY <1>1, <1>2, <1>3, FreshKnows, ReadingKeeps

\* A write keeps what it must keep of the tables, and leaves a call that knows
\* the new ones.
LEMMA WritingKeeps ==
  ASSUME NEW i \in Requests, RacesTypes', TablesAgree', LeasesBlock, OversStay,
         NEW y, y = request'[i], y = NoRequest \/ Knows(y)'
  PROVE  KeepsTables(i)
BY DEF KeepsTables, RacesInv

LEMMA KeepsSweep ==
  ASSUME NEW i \in Requests, RacesInv(i), Sweep(i)
  PROVE  KeepsTables(i)
<1>1. PICK q : q = request[i]
  OBVIOUS
<1>2. PICK y : y = request'[i]
  OBVIOUS
<1>3. Doing(i, "sweep") /\ UNCHANGED <<run, crashes>>
  BY DEF Sweep
<1>4. /\ RacesTypes /\ TablesAgree /\ q \in RequestType
      /\ Head(q.todo) = "sweep" /\ GoesBy(q.kind, q.todo) /\ Knows(q)
  BY <1>1, <1>3, RequestKnows
<1>5. RacesTypes' /\ Passes(q, y)
  BY <1>1, <1>2, <1>4, LeasesAreSwept DEF GoesOnAs
\* What is saved is what the call knows: the records it read are still there.
<1>6. ASSUME NEW s \in Items
      PROVE  /\ lease'[s].active <=> AliveTo(q, s)
             /\ lease'[s].active => lease'[s] = lease[s]
             /\ lease'[s].holder = lease[s].holder /\ lease[s].holder = q.leases[s].holder
  <2>1. /\ lease[s].active <=> q.leases[s].active
        /\ lease[s].holder = q.leases[s].holder
    BY <1>4 DEF Knows, KnowsLeases
  <2>2. lease'[s] = IF q.leases[s].active /\ ~AliveTo(q, s)
                    THEN [q.leases[s] EXCEPT !.active = FALSE]
                    ELSE lease[s]
    BY <1>1 DEF Sweep, LiveTo, AliveTo
  <2>3. CASE q.leases[s].active /\ ~AliveTo(q, s)
    <3>1. q.leases[s] \in LeaseType
      BY <1>4 DEF RequestType
    <3>2. lease'[s].active = FALSE /\ lease'[s].holder = q.leases[s].holder
      BY <2>2, <2>3, <3>1 DEF LeaseType
    <3> QED BY <2>1, <2>3, <3>2
  <2>4. CASE ~(q.leases[s].active /\ ~AliveTo(q, s))
    <3>1. lease'[s] = lease[s]
      BY <2>2, <2>4
    <3> QED BY <2>1, <2>4, <3>1 DEF AliveTo
  <2> QED BY <2>3, <2>4
<1>7. TablesAgree'
  BY <1>3, <1>4, <1>6 DEF TablesAgree
<1>8. LeasesBlock /\ OversStay
  BY <1>3, <1>6 DEF LeasesBlock, OversStay
<1>9. Knows(y)'
  <2>1. /\ Head(y.todo) \in {"queue", "relet"} /\ y.kind = q.kind /\ y.run = q.run
        /\ y.item = q.item /\ y.leases = q.leases /\ y.late = q.late
    BY <1>4, <1>5 DEF Passes, GoesBy
  <2>2. KnowsLive(y)'
    BY <1>6, <2>1 DEF KnowsLive, AliveTo
  <2>3. q.kind \notin {"claim", "recover"} => KnowsItem(q)
    BY <1>4 DEF Knows
  <2>4. y.kind \notin {"claim", "recover"} => KnowsItem(y)'
    BY <1>3, <2>1, <2>3 DEF KnowsItem
  <2> QED BY <2>1, <2>2, <2>4 DEF Knows
<1> QED BY <1>2, <1>5, <1>7, <1>8, <1>9, WritingKeeps

LEMMA KeepsAssign ==
  ASSUME NEW i \in Requests, RacesInv(i), Assign(i)
  PROVE  KeepsTables(i)
<1>1. PICK q : q = request[i]
  OBVIOUS
<1>2. PICK y : y = request'[i]
  OBVIOUS
<1>3. Doing(i, "assign") /\ UNCHANGED <<lease, crashes>>
  BY DEF Assign
<1>4. /\ RacesTypes /\ TablesAgree /\ q \in RequestType /\ q.run \in Items
      /\ Head(q.todo) = "assign" /\ GoesBy(q.kind, q.todo) /\ Knows(q)
  BY <1>1, <1>3, RequestKnows
<1>5. RacesTypes' /\ Passes(q, y)
  BY <1>1, <1>2, <1>4, ItemIsAssigned DEF GoesOnAs
<1>6. KnowsFree(q) /\ q.item = run[q.run] /\ q.item \in RunType
  BY <1>4 DEF Knows, RequestType
<1>7. /\ run'[q.run].status = "queued" /\ run'[q.run].worker = q.by
      /\ \A s \in Items \ {q.run} : run'[s] = run[s]
  <2> DEFINE x == [q.item EXCEPT !.worker = q.by]
  <2>1. run' = [run EXCEPT ![q.run] = x]
    BY <1>1 DEF Assign
  <2>2. x.status = q.item.status /\ x.worker = q.by
    BY <1>6 DEF RunType
  <2> HIDE DEF x
  <2>3. run'[q.run] = x /\ \A s \in Items \ {q.run} : run'[s] = run[s]
    BY <1>4, <2>1, TablesTyped
  <2> QED BY <1>6, <2>2, <2>3 DEF KnowsFree
<1>8. TablesAgree'
  BY <1>3, <1>4, <1>6, <1>7 DEF TablesAgree, KnowsFree
<1>9. LeasesBlock /\ OversStay
  BY <1>3, <1>6, <1>7 DEF LeasesBlock, OversStay, KnowsFree
<1>10. Knows(y)'
  <2>1. Head(y.todo) = "grant" /\ y.kind = "claim" /\ y.run = q.run /\ y.by = q.by
    BY <1>4, <1>5 DEF Passes, GoesBy
  <2>2. KnowsFree(y)' /\ run'[y.run].worker = y.by
    BY <1>3, <1>6, <1>7, <2>1 DEF KnowsFree
  <2> QED BY <2>1, <2>2 DEF Knows
<1> QED BY <1>2, <1>5, <1>8, <1>9, <1>10, WritingKeeps

\* A call that ends with this access.
LEMMA LastAccess ==
  ASSUME NEW q, NEW y, Passes(q, y), Head(q.todo) \in {"grant", "save", "check"}
  PROVE  y = NoRequest
BY DEF Passes

LEMMA KeepsGrant ==
  ASSUME NEW i \in Requests, RacesInv(i), Grant(i)
  PROVE  KeepsTables(i)
<1>1. PICK q : q = request[i]
  OBVIOUS
<1>2. PICK y : y = request'[i]
  OBVIOUS
<1>3. Doing(i, "grant") /\ UNCHANGED <<run, crashes>>
  BY DEF Grant
<1>4. /\ RacesTypes /\ TablesAgree /\ q.run \in Items /\ Head(q.todo) = "grant" /\ Knows(q)
  BY <1>1, <1>3, RequestKnows
<1>5. RacesTypes' /\ Passes(q, y)
  BY <1>1, <1>2, <1>4, LeaseIsGranted DEF GoesOnAs
<1>6. KnowsFree(q) /\ run[q.run].worker = q.by
  BY <1>4 DEF Knows
<1>7. lease'[q.run].holder = q.by /\ \A s \in Items \ {q.run} : lease'[s] = lease[s]
  <2> DEFINE x == [holder |-> q.by, active |-> TRUE, lapsed |-> FALSE]
  <2>1. lease' = [lease EXCEPT ![q.run] = x]
    BY <1>1 DEF Grant
  <2>2. x.holder = q.by
    OBVIOUS
  <2> HIDE DEF x
  <2> QED BY <1>4, <2>1, <2>2, TablesTyped
<1>8. TablesAgree'
  BY <1>3, <1>4, <1>6, <1>7 DEF TablesAgree, KnowsFree, Open
<1>9. LeasesBlock /\ OversStay
  BY <1>3, <1>6, <1>7 DEF LeasesBlock, OversStay, KnowsFree, Live
<1>10. y = NoRequest
  BY <1>4, <1>5, LastAccess
<1> QED BY <1>2, <1>5, <1>8, <1>9, <1>10, WritingKeeps

LEMMA KeepsRelet ==
  ASSUME NEW i \in Requests, RacesInv(i), Relet(i)
  PROVE  KeepsTables(i)
<1>1. PICK q : q = request[i]
  OBVIOUS
<1>2. PICK y : y = request'[i]
  OBVIOUS
<1>3. Doing(i, "relet") /\ UNCHANGED <<run, crashes>>
  BY DEF Relet
<1>4. /\ RacesTypes /\ TablesAgree /\ q \in RequestType /\ q.run \in Items
      /\ Head(q.todo) = "relet" /\ GoesBy(q.kind, q.todo) /\ Knows(q)
  BY <1>1, <1>3, RequestKnows
<1>5. RacesTypes' /\ (y = NoRequest \/ Passes(q, y))
  BY <1>1, <1>2, <1>4, LeaseIsReported DEF GoesOnAs
<1>6. KnowsLive(q) /\ q.kind \in {"start", "finish"} /\ KnowsItem(q)
  BY <1>4 DEF Knows, GoesBy
<1>7. \/ AliveTo(q, q.run) /\ lease' = [lease EXCEPT ![q.run] = Reported(q)]
      \/ lease' = lease /\ (y = NoRequest \/ ~AliveTo(q, q.run))
  <2>1. CASE Accepted(i) /\ LiveTo(i, q.run)
    BY <1>1, <2>1 DEF Relet, LiveTo, AliveTo, Reported
  <2>2. CASE ~(Accepted(i) /\ LiveTo(i, q.run))
    <3>1. lease' = lease
      BY <1>1, <2>2 DEF Relet
    <3>2. CASE Accepted(i)
      BY <1>1, <2>2, <3>1, <3>2 DEF LiveTo, AliveTo
    <3>3. CASE ~Accepted(i)
      <4>1. EndsRequest(i)
        BY <3>3 DEF Relet
      <4> QED BY <1>2, <1>3, <1>4, <1>5, <3>1, <4>1, TablesTyped, NoRequestSteps
    <3> QED BY <3>2, <3>3
  <2> QED BY <2>1, <2>2
<1>8. /\ lease'[q.run].active => lease[q.run].active
      /\ lease'[q.run].active => lease'[q.run].holder = lease[q.run].holder
      /\ \A s \in Items \ {q.run} : lease'[s] = lease[s]
      /\ y = NoRequest \/ (q.kind = "finish" => ~lease'[q.run].active)
  <2>1. /\ lease[q.run].active <=> AliveTo(q, q.run)
        /\ lease[q.run].active => lease[q.run].holder = q.leases[q.run].holder
    BY <1>4, <1>6 DEF KnowsLive
  <2>2. /\ Reported(q).active = (q.kind = "start")
        /\ Reported(q).holder = q.leases[q.run].holder
    BY <1>4, ReportedType
  <2>3. CASE AliveTo(q, q.run) /\ lease' = [lease EXCEPT ![q.run] = Reported(q)]
    <3>1. lease'[q.run] = Reported(q) /\ \A s \in Items \ {q.run} : lease'[s] = lease[s]
      BY <1>4, <2>3, TablesTyped
    <3> QED BY <2>1, <2>2, <2>3, <3>1
  <2>4. CASE lease' = lease /\ (y = NoRequest \/ ~AliveTo(q, q.run))
    BY <2>1, <2>4
  <2> QED BY <1>7, <2>3, <2>4
<1>9. TablesAgree'
  BY <1>3, <1>4, <1>8 DEF TablesAgree
<1>10. LeasesBlock /\ OversStay
  BY <1>3, <1>8 DEF LeasesBlock, OversStay, Live
<1>11. y # NoRequest => Knows(y)'
  <2> SUFFICES ASSUME y # NoRequest PROVE Knows(y)'
    OBVIOUS
  <2>1. /\ Head(y.todo) = "save" /\ y.kind = q.kind /\ y.run = q.run /\ y.item = q.item
    BY <1>4, <1>5 DEF Passes, GoesBy
  <2>2. KnowsItem(y)'
    BY <1>3, <1>6, <2>1 DEF KnowsItem
  <2>3. Closes(y) => ~lease'[y.run].active
    BY <1>6, <1>8, <2>1 DEF Closes
  <2>4. Closes(y)' <=> Closes(y)
    BY DEF Closes
  <2> QED BY <2>1, <2>2, <2>3, <2>4 DEF Knows
<1> QED BY <1>2, <1>5, <1>9, <1>10, <1>11, WritingKeeps

LEMMA KeepsRelease ==
  ASSUME NEW i \in Requests, RacesInv(i), Release(i)
  PROVE  KeepsTables(i)
<1>1. PICK q : q = request[i]
  OBVIOUS
<1>2. PICK y : y = request'[i]
  OBVIOUS
<1>3. Doing(i, "release") /\ UNCHANGED <<run, crashes>>
  BY DEF Release
<1>4. /\ RacesTypes /\ TablesAgree /\ q.run \in Items
      /\ Head(q.todo) = "release" /\ GoesBy(q.kind, q.todo) /\ Knows(q)
  BY <1>1, <1>3, RequestKnows
<1>5. RacesTypes' /\ Passes(q, y)
  BY <1>1, <1>2, <1>4, LeaseIsReleased DEF GoesOnAs
<1>6. q.kind \in {"requeue", "fail", "cancel"} /\ KnowsItem(q)
  BY <1>4 DEF Knows, GoesBy
<1>7. /\ \A s \in Items : lease'[s].active => lease'[s] = lease[s]
      /\ \A s \in Items : lease[s].active => lease'[s].holder = lease[s].holder
      /\ Closes(q) => ~lease'[q.run].active
  <2>1. CASE q.kind = "cancel" /\ q.item.status = "running"
    <3>1. lease' = lease
      BY <1>1, <2>1 DEF Release
    <3> QED BY <2>1, <3>1 DEF Closes
  <2>2. CASE ~(q.kind = "cancel" /\ q.item.status = "running")
    <3>1. lease' = [lease EXCEPT ![q.run].active = FALSE]
      BY <1>1, <2>2 DEF Release
    <3> QED BY <1>4, <3>1, TablesTyped DEF LeaseType
  <2> QED BY <2>1, <2>2
<1>8. TablesAgree'
  BY <1>3, <1>4, <1>7 DEF TablesAgree
<1>9. LeasesBlock /\ OversStay
  BY <1>3, <1>7 DEF LeasesBlock, OversStay, Live
<1>10. Knows(y)'
  <2>1. /\ Head(y.todo) = "save" /\ y.kind = q.kind /\ y.run = q.run /\ y.item = q.item
    BY <1>4, <1>5 DEF Passes, GoesBy
  <2>2. KnowsItem(y)'
    BY <1>3, <1>6, <2>1 DEF KnowsItem
  <2>3. Closes(y)' => ~lease'[y.run].active
    BY <1>7, <2>1 DEF Closes
  <2> QED BY <2>1, <2>2, <2>3 DEF Knows
<1> QED BY <1>2, <1>5, <1>8, <1>9, <1>10, WritingKeeps

\* A call that does not end its run's lease saves the run open, if it was, and
\* with its worker; only a metadata merge saves a run that is over.
LEMMA SavedItem ==
  ASSUME NEW q \in RequestType, q.kind \notin {"claim", "recover"}
  PROVE  /\ ~Closes(q) => /\ Written(q).worker = q.item.worker
                          /\ q.item.status \in Open => Written(q).status \in Open
         /\ q.item.status = "over" /\ q.item.status \notin RefusedBy(q.kind) =>
              Written(q) = q.item
<1> DEFINE x == q.item
<1>1. x \in RunType /\ q.kind \in AllKinds
  BY DEF RequestType
<1>2. CASE q.kind = "start"
  <2>1. Written(q) = [x EXCEPT !.status = "running"] /\ "over" \in RefusedBy(q.kind)
    BY <1>2 DEF Written, RefusedBy
  <2> HIDE DEF x
  <2>2. Written(q).status = "running" /\ Written(q).worker = x.worker
    BY <1>1, <2>1 DEF RunType
  <2> QED BY <2>1, <2>2 DEF x, Open
<1>3. CASE q.kind = "annotate"
  BY <1>3 DEF Written
<1>4. CASE q.kind = "cancel"
  <2>1. "over" \in RefusedBy(q.kind)
    BY <1>4 DEF RefusedBy
  <2>2. CASE x.status = "running"
    BY <1>4, <2>1, <2>2 DEF Written
  <2>3. CASE x.status # "running"
    BY <1>4, <2>1, <2>3 DEF Closes
  <2> QED BY <2>2, <2>3
<1>5. CASE q.kind \in {"finish", "requeue", "fail"}
  BY <1>5 DEF Closes, RefusedBy
<1> QED BY <1>1, <1>2, <1>3, <1>4, <1>5 DEF AllKinds

LEMMA KeepsSave ==
  ASSUME NEW i \in Requests, RacesInv(i), Save(i)
  PROVE  KeepsTables(i)
<1>1. PICK q : q = request[i]
  OBVIOUS
<1>2. PICK y : y = request'[i]
  OBVIOUS
<1>3. Doing(i, "save") /\ UNCHANGED <<lease, crashes>> /\ run' = [run EXCEPT ![q.run] = Written(q)]
  BY <1>1 DEF Save
<1>4. /\ RacesTypes /\ TablesAgree /\ q \in RequestType /\ q.run \in Items
      /\ Head(q.todo) = "save" /\ GoesBy(q.kind, q.todo) /\ Knows(q)
  BY <1>1, <1>3, RequestKnows
<1>5. RacesTypes' /\ Passes(q, y)
  BY <1>1, <1>2, <1>4, ItemIsSaved DEF GoesOnAs
<1>6. /\ q.kind \notin {"claim", "recover"} /\ KnowsItem(q)
      /\ Closes(q) => ~lease[q.run].active
  BY <1>4 DEF Knows, GoesBy
<1>7. /\ run'[q.run] = Written(q)
      /\ \A s \in Items \ {q.run} : run'[s] = run[s]
  BY <1>3, <1>4, TablesTyped
<1>8. TablesAgree'
  <2> SUFFICES ASSUME NEW s \in Items, lease[s].active
               PROVE  run'[s].status \in Open /\ lease[s].holder = run'[s].worker
    BY <1>3 DEF TablesAgree
  <2>1. run[s].status \in Open /\ lease[s].holder = run[s].worker
    BY <1>4 DEF TablesAgree
  <2>2. CASE s = q.run
    <3>1. ~Closes(q) /\ q.item = run[s]
      BY <1>6, <2>2 DEF KnowsItem
    <3>2. Written(q).worker = run[s].worker /\ Written(q).status \in Open
      BY <1>4, <1>6, <2>1, <3>1, SavedItem
    <3> QED BY <1>7, <2>1, <2>2, <3>2
  <2>3. CASE s # q.run
    BY <1>7, <2>1, <2>3
  <2> QED BY <2>2, <2>3
<1>9. LeasesBlock
  BY <1>3 DEF LeasesBlock
<1>10. OversStay
  <2>1. run[q.run].status = "over" => Written(q) = run[q.run]
    BY <1>4, <1>6, SavedItem DEF KnowsItem
  <2> QED BY <1>7, <2>1 DEF OversStay
<1>11. y = NoRequest
  BY <1>4, <1>5, LastAccess
<1> QED BY <1>2, <1>5, <1>8, <1>9, <1>10, <1>11, WritingKeeps

\* What a call knows of a run does not depend on whether its lease has lapsed
\* since, or on runs that are enqueued meanwhile.
LEMMA KeepsLapse ==
  ASSUME NEW i \in Requests, RacesInv(i), NEW r \in Items, Lapse(r)
  PROVE  KeepsTables(i)
<1>1. RacesTypes /\ TablesAgree /\ UNCHANGED <<run, request, crashes>>
  BY DEF RacesInv, Lapse
<1>2. RacesTypes'
  BY <1>1, WorldTyped
<1>3. \A s \in Items : lease'[s].active = lease[s].active /\ lease'[s].holder = lease[s].holder
  <2>1. lease' = [lease EXCEPT ![r].lapsed = TRUE]
    BY DEF Lapse
  <2> QED BY <1>1, <2>1, TablesTyped DEF LeaseType
<1>4. TablesAgree' /\ LeasesBlock /\ OversStay
  BY <1>1, <1>3 DEF TablesAgree, LeasesBlock, OversStay
<1>5. PICK y : y = request'[i]
  OBVIOUS
<1>6. y # NoRequest => Knows(y)'
  <2> SUFFICES ASSUME y # NoRequest PROVE Knows(y)'
    OBVIOUS
  <2>1. Knows(y) /\ y.run \in Items
    BY <1>1, <1>5 DEF RacesInv, RacesTypes, RequestType
  <2>2. /\ KnowsItem(y)' <=> KnowsItem(y)
        /\ KnowsLeases(y)' <=> KnowsLeases(y)
        /\ KnowsLive(y)' <=> KnowsLive(y)
        /\ KnowsFree(y)' <=> KnowsFree(y)
    BY <1>1, <1>3, <2>1 DEF KnowsItem, KnowsLeases, KnowsLive, KnowsFree, AliveTo
  <2> QED BY <1>1, <1>3, <2>1, <2>2 DEF Knows, Closes
<1> QED BY <1>2, <1>4, <1>5, <1>6, WritingKeeps

LEMMA AbsentIsRefused == \A kind : "absent" \in RefusedBy(kind)
BY DEF RefusedBy

LEMMA KeepsEnqueue ==
  ASSUME NEW i \in Requests, RacesInv(i), NEW r \in Items, EnqueueItem(r)
  PROVE  KeepsTables(i)
<1>1. RacesTypes /\ TablesAgree /\ UNCHANGED <<lease, request, crashes>> /\ run[r].status = "absent"
  BY DEF RacesInv, EnqueueItem
<1>2. RacesTypes'
  BY <1>1, WorldTyped
<1>3. \A s \in Items : run[s].status # "absent" => run'[s] = run[s]
  <2>1. run' = [run EXCEPT ![r].status = "queued"]
    BY DEF EnqueueItem
  <2> QED BY <1>1, <2>1, TablesTyped DEF RunType
<1>4. TablesAgree' /\ LeasesBlock /\ OversStay
  BY <1>1, <1>3 DEF TablesAgree, LeasesBlock, OversStay, Open
<1>5. PICK y : y = request'[i]
  OBVIOUS
<1>6. y # NoRequest => Knows(y)'
  <2> SUFFICES ASSUME y # NoRequest PROVE Knows(y)'
    OBVIOUS
  <2>1. Knows(y) /\ y.run \in Items
    BY <1>1, <1>5 DEF RacesInv, RacesTypes, RequestType
  <2>2. KnowsItem(y) => run[y.run].status # "absent" /\ KnowsItem(y)'
    BY <1>3, <2>1, AbsentIsRefused DEF KnowsItem
  <2>3. KnowsFree(y) => run[y.run].status # "absent" /\ KnowsFree(y)'
    BY <1>1, <1>3, <2>1 DEF KnowsFree
  <2>4. /\ KnowsLeases(y)' <=> KnowsLeases(y)
        /\ KnowsLive(y)' <=> KnowsLive(y)
    BY <1>1 DEF KnowsLeases, KnowsLive, AliveTo
  <2> QED BY <1>1, <1>3, <2>1, <2>2, <2>3, <2>4 DEF Knows, Closes
<1> QED BY <1>2, <1>4, <1>5, <1>6, WritingKeeps

LEMMA KeepsCrash ==
  ASSUME NEW i \in Requests, RacesInv(i), CrashServer
  PROVE  KeepsTables(i)
<1>1. RacesTypes' /\ UNCHANGED <<run, lease>> /\ request'[i] = NoRequest
  BY WorldTyped DEF RacesInv, CrashServer, NoRequest
<1>2. PICK y : y = request'[i]
  OBVIOUS
<1> QED BY <1>1, <1>2, ReadingKeeps

LEMMA AloneAtTheTables ==
  ASSUME NEW i \in Requests, Requests = {i}, RacesInv(i), [RacesNext]_racesVars
  PROVE  KeepsTables(i)
<1>1. CASE Call(i)
  <2>1. ASSUME NEW kind, NEW w \in Workers \union {NoWorker}, NEW r \in Items,
               BeginRequest(i, kind, w, r)
        PROVE  KeepsTables(i)
    BY <2>1, KeepsBegin
  <2> QED BY <1>1, <2>1 DEF Call
<1>2. CASE Access(i)
  BY <1>2, KeepsReadLeases, KeepsReadQueue, KeepsReadItem, KeepsReadList, KeepsCheckLapsed,
     KeepsSweep, KeepsAssign, KeepsGrant, KeepsRelet, KeepsRelease, KeepsSave DEF Access
<1>3. ASSUME NEW r \in Items, EnqueueItem(r) \/ Lapse(r) PROVE KeepsTables(i)
  BY <1>3, KeepsEnqueue, KeepsLapse
<1>4. CASE CrashServer
  BY <1>4, KeepsCrash
<1>5. CASE UNCHANGED racesVars
  <2>1. UNCHANGED <<run, lease>> /\ RacesTypes' /\ request'[i] = request[i]
    BY <1>5 DEF racesVars, RacesInv, RacesTypes
  <2>2. PICK y : y = request'[i]
    OBVIOUS
  <2>3. y = NoRequest \/ Knows(y)
    BY <2>1, <2>2 DEF RacesInv
  <2> QED BY <2>1, <2>2, <2>3, ReadingKeeps
<1> QED BY <1>1, <1>2, <1>3, <1>4, <1>5 DEF RacesNext

LEMMA RacesInvInitially ==
  ASSUME NEW i \in Requests, RacesInit
  PROVE  RacesInv(i)
<1>1. RacesTypes
  BY RacesTypesInitially
<1>2. request[i] = NoRequest /\ TablesAgree
  BY DEF RacesInit, NoRequest, NoLease, TablesAgree
<1> QED BY <1>1, <1>2 DEF RacesInv

LEMMA RacesInvIsKept ==
  ASSUME NEW i \in Requests, Requests = {i}
  PROVE  RacesSpec => []RacesInv(i)
<1>1. RacesInv(i) /\ [RacesNext]_racesVars => RacesInv(i)'
  BY AloneAtTheTables DEF KeepsTables
<1>2. RacesInit => RacesInv(i)
  BY RacesInvInitially
<1> QED BY <1>1, <1>2, PTL DEF RacesSpec

\* As long as calls come one after the other, an active lease belongs to the
\* worker of an open run, also halfway through a call and after a kill there.
THEOREM TablesAgreeAlone ==
  ASSUME OneRequest
  PROVE  RacesSpec => []TablesAgree
<1>1. PICK i : Requests = {i}
  BY DEF OneRequest
<1>2. i \in Requests
  BY <1>1
<1>3. RacesSpec => []RacesInv(i)
  BY <1>1, <1>2, RacesInvIsKept
<1>4. RacesInv(i) => TablesAgree
  BY DEF RacesInv
<1> QED BY <1>3, <1>4, PTL

\* What overlapping calls break, and the runs of SchedulerRaces show broken,
\* nothing else does: as long as calls come one after the other, a live lease
\* blocks other workers, and a run that is over stays over.
THEOREM NothingLostAlone ==
  ASSUME OneRequest
  PROVE  RacesSpec => ActiveLeaseBlocks /\ OverStays
<1>1. PICK i : Requests = {i}
  BY DEF OneRequest
<1>2. i \in Requests
  BY <1>1
<1>3. RacesSpec => []RacesInv(i)
  BY <1>1, <1>2, RacesInvIsKept
<1>4. RacesInv(i) /\ [RacesNext]_racesVars => [LeasesBlock /\ OversStay]_racesVars
  BY <1>1, <1>2, AloneAtTheTables DEF KeepsTables
<1>5. RacesSpec => [][LeasesBlock /\ OversStay]_racesVars
  BY <1>3, <1>4, PTL DEF RacesSpec
<1>6. [][LeasesBlock /\ OversStay]_racesVars => [][LeasesBlock]_racesVars /\ [][OversStay]_racesVars
  BY PTL
<1> QED BY <1>5, <1>6 DEF ActiveLeaseBlocks, OverStays, LeasesBlock, OversStay

-----------------------------------------------------------------------------
(* One call at a time keeps the contract of the queue *)

\* An active lease is some worker's, and a worker has at most one.
ActiveIsHeld == \A r \in Items : lease[r].active => lease[r].holder \in Workers
OneEach == \A r, s \in Items :
    lease[r].active /\ lease[s].active /\ lease[r].holder = lease[s].holder => r = s

\* What a call knows of its worker: who it is, and, once it has chosen a run,
\* that no other run is his.
HoldsNone(q) == \A s \in Items : lease[s].active => lease[s].holder # q.by
Owns(q) ==
    /\ q.kind \in {"claim", "start", "finish"} => q.by \in Workers
    /\ Head(q.todo) \in {"assign", "grant"} => HoldsNone(q)

OwnersInv(i) ==
    /\ RacesInv(i) /\ ActiveIsHeld /\ OneEach
    /\ \A q \in {request[i]} \ {NoRequest} : Owns(q)

LeasesShrink == \A s \in Items :
    lease'[s].active => lease[s].active /\ lease'[s].holder = lease[s].holder

\* A step of the contract, or none.
Contracted == Contract!Next \/ UNCHANGED Contract!vars

KeepsContract(i) == OwnersInv(i)' /\ Contracted

\* What a step does to phases and owners, in the words of the contract.
LEMMA TablesKept ==
  ASSUME \A r \in Items : PhaseOf(r)' = PhaseOf(r) /\ OwnerOf(r)' = OwnerOf(r)
  PROVE  Contracted
  BY DEF Contracted, Contract!vars

LEMMA LeasesLost ==
  ASSUME \A r \in Items : PhaseOf(r)' = PhaseOf(r),
         \A r \in Items : OwnerOf(r)' = OwnerOf(r) \/ OwnerOf(r)' = NoWorker
  PROVE  Contracted
<1> DEFINE S == {r \in Items : OwnerOf(r)' = NoWorker}
<1>1. Contract!Lose(S)
  BY DEF Contract!Lose
<1> QED BY <1>1, S \in SUBSET Items DEF Contracted, Contract!Next

LEMMA RunSettled ==
  ASSUME NEW c \in Items, NEW outcome \in {"closed", "failed"},
         PhaseOf(c) = "open", PhaseOf(c)' = outcome, OwnerOf(c)' = NoWorker,
         \A r \in Items \ {c} : PhaseOf(r)' = PhaseOf(r) /\ OwnerOf(r)' = OwnerOf(r)
  PROVE  Contracted
<1>1. Contract!Settle({c}, outcome)
  BY DEF Contract!Settle
<1> QED BY <1>1, {c} \in SUBSET Items DEF Contracted, Contract!Next

LEMMA RunReopened ==
  ASSUME NEW c \in Items, PhaseOf(c) = "failed", PhaseOf(c)' = "open",
         \A r \in Items \ {c} : PhaseOf(r)' = PhaseOf(r),
         \A r \in Items : OwnerOf(r)' = OwnerOf(r)
  PROVE  Contracted
<1>1. Contract!Reopen(c)
  BY DEF Contract!Reopen
<1> QED BY <1>1 DEF Contracted, Contract!Next

LEMMA RunSubmitted ==
  ASSUME NEW c \in Items, PhaseOf(c) = "absent", PhaseOf(c)' = "open",
         \A r \in Items \ {c} : PhaseOf(r)' = PhaseOf(r),
         \A r \in Items : OwnerOf(r)' = OwnerOf(r)
  PROVE  Contracted
<1>1. Contract!Submit(c)
  BY DEF Contract!Submit
<1> QED BY <1>1 DEF Contracted, Contract!Next

LEMMA RunTaken ==
  ASSUME NEW c \in Items, NEW w \in Workers, PhaseOf(c) = "open", OwnerOf(c) = NoWorker,
         \A r \in Items : PhaseOf(r)' = PhaseOf(r) /\ OwnerOf(r) # w,
         OwnerOf(c)' = w, \A r \in Items \ {c} : OwnerOf(r)' = OwnerOf(r)
  PROVE  Contracted
<1>1. Contract!Take(c, w)
  BY DEF Contract!Take
<1> QED BY <1>1 DEF Contracted, Contract!Next

\* Owners and phases of records that are left alone.
LEMMA SameRecords ==
  /\ \A r \in Items : lease'[r] = lease[r] => OwnerOf(r)' = OwnerOf(r)
  /\ \A r \in Items : run'[r].status = run[r].status => PhaseOf(r)' = PhaseOf(r)
  BY DEF OwnerOf, Live, PhaseOf

\* A call that grants no lease keeps who holds which.
LEMMA ShrinkingKeeps ==
  ASSUME NEW i \in Requests, OwnersInv(i), RacesInv(i)', LeasesShrink, Contracted,
         NEW y, y = request'[i], y = NoRequest \/ Owns(y)'
  PROVE  KeepsContract(i)
<1>1. ActiveIsHeld' /\ OneEach'
  BY DEF OwnersInv, ActiveIsHeld, OneEach, LeasesShrink
<1> QED BY <1>1 DEF KeepsContract, OwnersInv

\* What a call knows of its worker when it goes on.
LEMMA OwnsAfter ==
  ASSUME NEW q \in RequestType, Owns(q), GoesBy(q.kind, q.todo), Head(q.todo) # "queue",
         NEW access, Head(q.todo) = access,
         access \in {"leases", "item", "list", "sweep", "assign", "grant", "relet", "release",
                     "save", "check"},
         NEW p, p.todo = q.todo, p.kind = q.kind, p.by = q.by,
         NEW y, y # NoRequest, Passes(p, y), LeasesShrink
  PROVE  Owns(y)'
<1>1. y.kind = q.kind /\ y.by = q.by /\ y.todo = Tail(q.todo)
      /\ access \notin {"grant", "save", "check"}
  BY DEF Passes
<1>2. Head(y.todo) \in {"assign", "grant"} => Head(y.todo) = "grant" /\ access = "assign"
  BY <1>1 DEF GoesBy
<1>3. Head(y.todo) \in {"assign", "grant"} => HoldsNone(y)'
  BY <1>1, <1>2 DEF Owns, HoldsNone, LeasesShrink
<1>4. y.kind \in {"claim", "start", "finish"} => y.by \in Workers
  BY <1>1 DEF Owns
<1> QED BY <1>3, <1>4 DEF Owns

\* A call at its next access knows its worker too.
LEMMA RequestOwns ==
  ASSUME NEW i \in Requests, OwnersInv(i), NEW access, Doing(i, access), NEW q, q = request[i]
  PROVE  /\ RacesInv(i) /\ RacesTypes /\ TablesAgree /\ ActiveIsHeld /\ OneEach
         /\ q \in RequestType /\ Head(q.todo) = access /\ GoesBy(q.kind, q.todo)
         /\ q.run \in Items /\ q.kind \in AllKinds /\ Knows(q) /\ Owns(q)
<1>1. RacesInv(i) /\ ActiveIsHeld /\ OneEach
  BY DEF OwnersInv
<1>2. /\ RacesTypes /\ TablesAgree
      /\ q \in RequestType /\ Head(q.todo) = access /\ GoesBy(q.kind, q.todo)
      /\ q.run \in Items /\ q.kind \in AllKinds /\ Knows(q)
  BY <1>1, RequestKnows
<1>3. Owns(q)
  BY <1>2, RequestTypeIsNot DEF OwnersInv
<1> QED BY <1>1, <1>2, <1>3

\* A call that only reads, and does not choose a run.
LEMMA ReadingKeepsContract ==
  ASSUME NEW i \in Requests, OwnersInv(i), RacesInv(i)', UNCHANGED <<run, lease>>,
         NEW y, y = request'[i], y = NoRequest \/ Owns(y)'
  PROVE  KeepsContract(i)
<1>1. LeasesShrink
  BY DEF LeasesShrink
<1>2. Contracted
  BY SameRecords, TablesKept
<1> QED BY <1>1, <1>2, ShrinkingKeeps

LEMMA ContractBegin ==
  ASSUME NEW i \in Requests, OwnersInv(i), NEW kind, NEW w \in Workers \union {NoWorker},
         NEW r \in Items, BeginRequest(i, kind, w, r),
         kind \in {"claim", "start", "finish"} => w \in Workers
  PROVE  KeepsContract(i)
<1>1. RacesInv(i) /\ RacesTypes
  BY DEF OwnersInv, RacesInv
<1>2. RacesInv(i)'
  BY <1>1, KeepsBegin DEF KeepsTables
<1>3. UNCHANGED <<run, lease>> /\ FreshCall(request'[i])
  BY <1>1, RequestBegins
<1>4. PICK y : y = request'[i]
  OBVIOUS
<1>5. y.kind = kind /\ y.by = w
  <2>1. request \in [Requests -> RequestType \union {NoRequest}]
    BY <1>1 DEF RacesTypes
  <2> DEFINE x == [todo |-> Accesses(kind), kind |-> kind, by |-> w, run |-> r,
                   late |-> {s \in Items : lease[s].lapsed}, item |-> NoItem, leases |-> lease]
  <2>2. request' = [request EXCEPT ![i] = x]
    BY DEF BeginRequest
  <2>3. x.kind = kind /\ x.by = w
    OBVIOUS
  <2> HIDE DEF x
  <2> QED BY <1>4, <2>1, <2>2, <2>3
<1>6. Head(y.todo) \notin {"assign", "grant"}
  BY <1>3, <1>4 DEF FreshCall
<1>7. Owns(y)'
  BY <1>5, <1>6 DEF Owns
<1> QED BY <1>2, <1>3, <1>4, <1>7, ReadingKeepsContract

LEMMA ContractReadLeases ==
  ASSUME NEW i \in Requests, OwnersInv(i), ReadLeases(i)
  PROVE  KeepsContract(i)
<1>1. PICK q : q = request[i]
  OBVIOUS
<1>2. PICK y : y = request'[i]
  OBVIOUS
<1>3. Doing(i, "leases") /\ UNCHANGED <<run, lease>>
  BY DEF ReadLeases
<1>4. /\ RacesInv(i) /\ RacesTypes /\ q \in RequestType /\ Head(q.todo) = "leases"
      /\ GoesBy(q.kind, q.todo) /\ Owns(q)
  BY <1>1, <1>3, RequestOwns
<1>5. RacesInv(i)'
  BY <1>4, KeepsReadLeases DEF KeepsTables
<1> DEFINE p == [q EXCEPT !.leases = lease]
<1>6. GoesOnAs(i, p)
  BY <1>1, <1>4, LeasesAreRead
<1>7. p.todo = q.todo /\ p.kind = q.kind /\ p.by = q.by
  BY <1>4 DEF RequestType
<1> HIDE DEF p
<1>8. LeasesShrink
  BY <1>3 DEF LeasesShrink
<1>9. y = NoRequest \/ Owns(y)'
  BY <1>2, <1>4, <1>6, <1>7, <1>8, OwnsAfter DEF GoesOnAs
<1> QED BY <1>2, <1>3, <1>5, <1>9, ReadingKeepsContract

LEMMA ContractReadQueue ==
  ASSUME NEW i \in Requests, OwnersInv(i), ReadQueue(i)
  PROVE  KeepsContract(i)
<1>1. PICK q : q = request[i]
  OBVIOUS
<1>2. PICK y : y = request'[i]
  OBVIOUS
<1>3. Doing(i, "queue") /\ UNCHANGED <<run, lease>>
  BY DEF ReadQueue
<1>4. /\ RacesInv(i) /\ RacesTypes /\ q \in RequestType /\ Head(q.todo) = "queue"
      /\ GoesBy(q.kind, q.todo) /\ Owns(q) /\ Knows(q)
  BY <1>1, <1>3, RequestOwns
<1>5. RacesInv(i)'
  BY <1>4, KeepsReadQueue DEF KeepsTables
\* Nothing that is live to the call is its worker's, so no active lease is.
<1>6. ASSUME \A s \in Items : ~(LiveTo(i, s) /\ q.leases[s].holder = q.by)
      PROVE  HoldsNone(q)
  <2>1. KnowsLive(q)
    BY <1>4 DEF Knows
  <2>2. \A s \in Items : LiveTo(i, s) <=> AliveTo(q, s)
    BY <1>1 DEF LiveTo, AliveTo
  <2> QED BY <1>6, <2>1, <2>2 DEF HoldsNone, KnowsLive
<1>7. ASSUME NEW r \in FreeItems(i), GoesOnAs(i, TakesItem(i, r)), HoldsNone(q), y # NoRequest
      PROVE  Owns(y)'
  <2> DEFINE p == TakesItem(i, r)
  <2>1. p.todo = q.todo /\ p.kind = q.kind /\ p.by = q.by
    BY <1>1, <1>4 DEF RequestType, TakesItem
  <2>2. Passes(p, y)
    BY <1>2, <1>7 DEF GoesOnAs
  <2> HIDE DEF p
  <2>3. y.by = q.by /\ q.kind = "claim"
    BY <1>4, <1>7, <2>1, <2>2 DEF Passes, GoesBy
  <2>4. q.by \in Workers
    BY <1>4, <2>3 DEF Owns
  <2>5. HoldsNone(y)'
    BY <1>3, <1>7, <2>3 DEF HoldsNone
  <2> QED BY <2>3, <2>4, <2>5 DEF Owns
<1>8. y = NoRequest \/ Owns(y)'
  <2>1. CASE EndsRequest(i)
    <3>1. y = NoRequest
      BY <1>2, <1>3, <1>4, <2>1, TablesTyped, NoRequestSteps DEF ReadQueue
    <3> QED BY <3>1
  <2>2. CASE ~EndsRequest(i)
    <3>1. \A s \in Items : ~(LiveTo(i, s) /\ q.leases[s].holder = q.by)
      BY <1>1, <2>2 DEF ReadQueue
    <3>2. HoldsNone(q)
      BY <1>6, <3>1
    <3>3. y = NoRequest \/ \E r \in FreeItems(i) : GoesOnAs(i, TakesItem(i, r))
      BY <1>2, <1>4, QueueIsRead
    <3> QED BY <1>7, <3>2, <3>3
  <2> QED BY <2>1, <2>2
<1> QED BY <1>2, <1>3, <1>5, <1>8, ReadingKeepsContract

LEMMA ContractReadItem ==
  ASSUME NEW i \in Requests, OwnersInv(i), ReadItem(i)
  PROVE  KeepsContract(i)
<1>1. PICK q : q = request[i]
  OBVIOUS
<1>2. PICK y : y = request'[i]
  OBVIOUS
<1>3. Doing(i, "item") /\ UNCHANGED <<run, lease>>
  BY DEF ReadItem
<1>4. /\ RacesInv(i) /\ RacesTypes /\ q \in RequestType /\ Head(q.todo) = "item"
      /\ GoesBy(q.kind, q.todo) /\ Owns(q)
  BY <1>1, <1>3, RequestOwns
<1>5. RacesInv(i)'
  BY <1>4, KeepsReadItem DEF KeepsTables
<1>6. LeasesShrink
  BY <1>3 DEF LeasesShrink
<1>7. ASSUME GoesOnAs(i, Sees(i)), y # NoRequest PROVE Owns(y)'
  <2> DEFINE p == Sees(i)
  <2>1. p.todo = q.todo /\ p.kind = q.kind /\ p.by = q.by
    BY <1>1, <1>4 DEF RequestType, Sees
  <2>2. Passes(p, y)
    BY <1>2, <1>7 DEF GoesOnAs
  <2> HIDE DEF p
  <2> QED BY <1>4, <1>6, <1>7, <2>1, <2>2, OwnsAfter
<1>8. y = NoRequest \/ Owns(y)'
  BY <1>2, <1>4, <1>7, ItemIsRead
<1> QED BY <1>2, <1>3, <1>5, <1>8, ReadingKeepsContract

LEMMA ContractReadList ==
  ASSUME NEW i \in Requests, OwnersInv(i), ReadList(i)
  PROVE  KeepsContract(i)
<1>1. PICK q : q = request[i]
  OBVIOUS
<1>2. PICK y : y = request'[i]
  OBVIOUS
<1>3. Doing(i, "list") /\ UNCHANGED <<run, lease>>
  BY DEF ReadList
<1>4. /\ RacesInv(i) /\ RacesTypes /\ q \in RequestType /\ Head(q.todo) = "list"
      /\ GoesBy(q.kind, q.todo) /\ Owns(q)
  BY <1>1, <1>3, RequestOwns
<1>5. RacesInv(i)'
  BY <1>4, KeepsReadList DEF KeepsTables
<1>6. LeasesShrink
  BY <1>3 DEF LeasesShrink
<1>7. y = NoRequest \/ Passes(q, y)
  BY <1>1, <1>2, <1>4, ListIsRead DEF GoesOnAs
<1>8. y = NoRequest \/ Owns(y)'
  BY <1>4, <1>6, <1>7, OwnsAfter
<1> QED BY <1>2, <1>3, <1>5, <1>8, ReadingKeepsContract

LEMMA ContractCheckLapsed ==
  ASSUME NEW i \in Requests, OwnersInv(i), CheckLapsed(i)
  PROVE  KeepsContract(i)
<1>1. PICK q : q = request[i]
  OBVIOUS
<1>2. PICK y : y = request'[i]
  OBVIOUS
<1>3. Doing(i, "check") /\ UNCHANGED <<run, lease>>
  BY DEF CheckLapsed
<1>4. /\ RacesInv(i) /\ RacesTypes /\ q \in RequestType
  BY <1>1, <1>3, RequestOwns
<1>5. RacesInv(i)'
  BY <1>4, KeepsCheckLapsed DEF KeepsTables
<1>6. y = NoRequest \/ (FreshCall(y) /\ y.kind \in {"requeue", "fail"})
  <2>1. CASE EndsRequest(i)
    BY <1>2, <1>3, <1>4, <2>1, TablesTyped, NoRequestSteps DEF CheckLapsed
  <2>2. CASE ~EndsRequest(i)
    <3>1. PICK kind \in {"requeue", "fail"} :
            RequestGoes(i, [q EXCEPT !.kind = kind, !.todo = Accesses(kind)])
      BY <1>1, <2>2 DEF CheckLapsed
    <3> DEFINE x == [q EXCEPT !.kind = kind, !.todo = Accesses(kind)]
    <3>2. x.kind = kind
      BY <1>4 DEF RequestType
    <3>3. request' = [request EXCEPT ![i] = x]
      BY <3>1 DEF RequestGoes
    <3> HIDE DEF x
    <3>4. y = x
      BY <1>2, <1>4, <3>3 DEF RacesTypes
    <3>5. y = NoRequest \/ FreshCall(y)
      BY <1>2, <1>4, LapsedIsChecked
    <3> QED BY <3>2, <3>4, <3>5
  <2> QED BY <2>1, <2>2
<1>7. y = NoRequest \/ Owns(y)'
  BY <1>6 DEF Owns, FreshCall
<1> QED BY <1>2, <1>3, <1>5, <1>7, ReadingKeepsContract

LEMMA ContractSweep ==
  ASSUME NEW i \in Requests, OwnersInv(i), Sweep(i)
  PROVE  KeepsContract(i)
<1>1. PICK q : q = request[i]
  OBVIOUS
<1>2. PICK y : y = request'[i]
  OBVIOUS
<1>3. Doing(i, "sweep") /\ UNCHANGED <<run, crashes>>
  BY DEF Sweep
<1>4. /\ RacesInv(i) /\ RacesTypes /\ q \in RequestType /\ Head(q.todo) = "sweep"
      /\ GoesBy(q.kind, q.todo) /\ Owns(q)
  BY <1>1, <1>3, RequestOwns
<1>5. RacesInv(i)'
  BY <1>4, KeepsSweep DEF KeepsTables
<1>6. \A s \in Items : lease'[s] = lease[s] \/ ~lease'[s].active
  <2> TAKE s \in Items
  <2>1. lease'[s] = IF q.leases[s].active /\ ~LiveTo(i, s)
                    THEN [q.leases[s] EXCEPT !.active = FALSE]
                    ELSE lease[s]
    BY <1>1 DEF Sweep
  <2>2. q.leases[s] \in LeaseType
    BY <1>4 DEF RequestType
  <2>3. [q.leases[s] EXCEPT !.active = FALSE].active = FALSE
    BY <2>2 DEF LeaseType
  <2> QED BY <2>1, <2>3
<1>7. LeasesShrink
  BY <1>6 DEF LeasesShrink
<1>8. \A s \in Items : OwnerOf(s)' = OwnerOf(s) \/ OwnerOf(s)' = NoWorker
  BY <1>6, SameRecords DEF OwnerOf, Live
<1>9. Contracted
  BY <1>3, <1>8, SameRecords, LeasesLost
<1>10. y = NoRequest \/ Owns(y)'
  BY <1>1, <1>2, <1>4, <1>7, LeasesAreSwept, OwnsAfter DEF GoesOnAs
<1> QED BY <1>2, <1>4, <1>5, <1>7, <1>9, <1>10, ShrinkingKeeps

LEMMA ContractAssign ==
  ASSUME NEW i \in Requests, OwnersInv(i), Assign(i)
  PROVE  KeepsContract(i)
<1>1. PICK q : q = request[i]
  OBVIOUS
<1>2. PICK y : y = request'[i]
  OBVIOUS
<1>3. Doing(i, "assign") /\ UNCHANGED <<lease, crashes>>
  BY DEF Assign
<1>4. /\ RacesInv(i) /\ RacesTypes /\ q \in RequestType /\ Head(q.todo) = "assign"
      /\ GoesBy(q.kind, q.todo) /\ Owns(q) /\ Knows(q) /\ q.run \in Items
  BY <1>1, <1>3, RequestOwns
<1>5. RacesInv(i)'
  BY <1>4, KeepsAssign DEF KeepsTables
<1>6. LeasesShrink
  BY <1>3 DEF LeasesShrink
<1>7. \A s \in Items : run'[s].status = run[s].status
  <2> DEFINE x == [q.item EXCEPT !.worker = q.by]
  <2>1. run' = [run EXCEPT ![q.run] = x]
    BY <1>1 DEF Assign
  <2>2. q.item = run[q.run] /\ q.item \in RunType
    BY <1>4 DEF Knows, RequestType
  <2>3. x.status = q.item.status
    BY <2>2 DEF RunType
  <2> HIDE DEF x
  <2> QED BY <1>4, <2>1, <2>2, <2>3, TablesTyped
<1>8. Contracted
  BY <1>3, <1>7, SameRecords, TablesKept
<1>9. y = NoRequest \/ Owns(y)'
  BY <1>1, <1>2, <1>4, <1>6, ItemIsAssigned, OwnsAfter DEF GoesOnAs
<1> QED BY <1>2, <1>4, <1>5, <1>6, <1>8, <1>9, ShrinkingKeeps

\* A run that nobody has a lease of is granted to a worker without one.
LEMMA ContractGrant ==
  ASSUME NEW i \in Requests, OwnersInv(i), Grant(i)
  PROVE  KeepsContract(i)
<1>1. PICK q : q = request[i]
  OBVIOUS
<1>2. PICK y : y = request'[i]
  OBVIOUS
<1>3. Doing(i, "grant") /\ UNCHANGED <<run, crashes>>
  BY DEF Grant
<1>4. /\ RacesInv(i) /\ RacesTypes /\ ActiveIsHeld /\ OneEach /\ Head(q.todo) = "grant"
      /\ GoesBy(q.kind, q.todo) /\ Owns(q) /\ Knows(q) /\ q.run \in Items
  BY <1>1, <1>3, RequestOwns
<1>5. RacesInv(i)'
  BY <1>4, KeepsGrant DEF KeepsTables
<1>6. q.by \in Workers /\ HoldsNone(q) /\ KnowsFree(q)
  BY <1>4 DEF Owns, Knows, GoesBy
<1>7. /\ lease'[q.run].holder = q.by /\ lease'[q.run].active /\ ~lease'[q.run].lapsed
      /\ \A s \in Items \ {q.run} : lease'[s] = lease[s]
  <2> DEFINE x == [holder |-> q.by, active |-> TRUE, lapsed |-> FALSE]
  <2>1. lease' = [lease EXCEPT ![q.run] = x]
    BY <1>1 DEF Grant
  <2>2. x.holder = q.by /\ x.active /\ ~x.lapsed
    OBVIOUS
  <2> HIDE DEF x
  <2> QED BY <1>4, <2>1, <2>2, TablesTyped
<1>8. ActiveIsHeld'
  BY <1>4, <1>6, <1>7 DEF ActiveIsHeld
<1>9. OneEach'
  BY <1>4, <1>6, <1>7 DEF OneEach, HoldsNone
<1>10. y = NoRequest
  BY <1>1, <1>2, <1>4, LeaseIsGranted, LastAccess DEF GoesOnAs
<1>11. Contracted
  <2>1. PhaseOf(q.run) = "open" /\ OwnerOf(q.run) = NoWorker
    BY <1>6 DEF KnowsFree, PhaseOf, OwnerOf, Live, Open
  <2>2. \A r \in Items : PhaseOf(r)' = PhaseOf(r)
    BY <1>3, SameRecords
  <2>3. \A r \in Items : OwnerOf(r) # q.by
    BY <1>6, RacesAssumption DEF HoldsNone, OwnerOf, Live
  <2>4. OwnerOf(q.run)' = q.by
    BY <1>7 DEF OwnerOf, Live
  <2>5. \A r \in Items \ {q.run} : OwnerOf(r)' = OwnerOf(r)
    BY <1>7, SameRecords
  <2> QED BY <1>4, <1>6, <2>1, <2>2, <2>3, <2>4, <2>5, RunTaken
<1> QED BY <1>2, <1>5, <1>8, <1>9, <1>10, <1>11 DEF KeepsContract, OwnersInv

\* report renews a lease, takes it back if it has lapsed since report looked
\* at it, or ends it.
LEMMA ContractRelet ==
  ASSUME NEW i \in Requests, OwnersInv(i), Relet(i)
  PROVE  KeepsContract(i)
<1>1. PICK q : q = request[i]
  OBVIOUS
<1>2. PICK y : y = request'[i]
  OBVIOUS
<1>3. Doing(i, "relet") /\ UNCHANGED <<run, crashes>>
  BY DEF Relet
<1>4. /\ RacesInv(i) /\ RacesTypes /\ TablesAgree /\ ActiveIsHeld /\ OneEach
      /\ q \in RequestType /\ Head(q.todo) = "relet"
      /\ GoesBy(q.kind, q.todo) /\ Owns(q) /\ Knows(q) /\ q.run \in Items
  BY <1>1, <1>3, RequestOwns
<1>5. RacesInv(i)'
  BY <1>4, KeepsRelet DEF KeepsTables
<1>6. KnowsLive(q)
  BY <1>4 DEF Knows
<1>7. y = NoRequest \/ Passes(q, y)
  BY <1>1, <1>2, <1>4, LeaseIsReported DEF GoesOnAs
<1>8. \/ lease' = lease
      \/ AliveTo(q, q.run) /\ lease' = [lease EXCEPT ![q.run] = Reported(q)]
  BY <1>1 DEF Relet, LiveTo, AliveTo, Reported
<1>9. CASE lease' = lease
  <2>1. LeasesShrink
    BY <1>9 DEF LeasesShrink
  <2>2. Contracted
    BY <1>3, <1>9, SameRecords, TablesKept
  <2>3. y = NoRequest \/ Owns(y)'
    BY <1>4, <1>7, <2>1, OwnsAfter
  <2> QED BY <1>2, <1>5, <2>1, <2>2, <2>3, ShrinkingKeeps
<1>10. CASE AliveTo(q, q.run) /\ lease' = [lease EXCEPT ![q.run] = Reported(q)]
  <2>1. lease[q.run].active /\ lease[q.run].holder = q.leases[q.run].holder
    BY <1>4, <1>6, <1>10 DEF KnowsLive
  <2>2. /\ lease'[q.run].holder = lease[q.run].holder
        /\ lease'[q.run].active = (q.kind = "start")
        /\ q.kind = "start" => ~lease'[q.run].lapsed
        /\ \A s \in Items \ {q.run} : lease'[s] = lease[s]
    <3>1. /\ Reported(q).active = (q.kind = "start")
          /\ Reported(q).holder = q.leases[q.run].holder
      BY <1>4, ReportedType
    <3>2. q.kind = "start" => ~Reported(q).lapsed
      <4>1. q.leases[q.run] \in LeaseType
        BY <1>4 DEF RequestType
      <4> QED BY <4>1 DEF Reported, LeaseType
    <3>3. lease'[q.run] = Reported(q) /\ \A s \in Items \ {q.run} : lease'[s] = lease[s]
      BY <1>4, <1>10, TablesTyped
    <3> QED BY <2>1, <3>1, <3>2, <3>3
  <2>3. LeasesShrink
    BY <2>1, <2>2 DEF LeasesShrink
  <2>4. \A r \in Items : PhaseOf(r)' = PhaseOf(r)
    BY <1>3, SameRecords
  <2>5. \A r \in Items \ {q.run} : OwnerOf(r)' = OwnerOf(r)
    BY <2>2, SameRecords
  <2>6. Contracted
    <3>1. CASE q.kind # "start"
      <4>1. OwnerOf(q.run)' = NoWorker
        BY <2>2, <3>1 DEF OwnerOf, Live
      <4> QED BY <2>4, <2>5, <4>1, LeasesLost
    <3>2. CASE q.kind = "start" /\ ~lease[q.run].lapsed
      <4>1. OwnerOf(q.run)' = OwnerOf(q.run)
        BY <2>1, <2>2, <3>2 DEF OwnerOf, Live
      <4> QED BY <2>4, <2>5, <4>1, TablesKept
    <3>3. CASE q.kind = "start" /\ lease[q.run].lapsed
      <4> DEFINE w == lease[q.run].holder
      <4>1. w \in Workers
        BY <1>4, <2>1 DEF ActiveIsHeld
      <4>2. PhaseOf(q.run) = "open"
        BY <1>4, <2>1 DEF TablesAgree, PhaseOf, Open
      <4>3. OwnerOf(q.run) = NoWorker /\ OwnerOf(q.run)' = w
        BY <2>2, <3>3 DEF OwnerOf, Live
      <4>4. \A r \in Items : OwnerOf(r) # w
        BY <1>4, <2>1, <3>3, <4>1, RacesAssumption DEF OneEach, OwnerOf, Live
      <4> HIDE DEF w
      <4> QED BY <1>4, <2>4, <2>5, <4>1, <4>2, <4>3, <4>4, RunTaken
    <3> QED BY <3>1, <3>2, <3>3
  <2>7. y = NoRequest \/ Owns(y)'
    BY <1>4, <1>7, <2>3, OwnsAfter
  <2> QED BY <1>2, <1>5, <2>3, <2>6, <2>7, ShrinkingKeeps
<1> QED BY <1>8, <1>9, <1>10

LEMMA ContractRelease ==
  ASSUME NEW i \in Requests, OwnersInv(i), Release(i)
  PROVE  KeepsContract(i)
<1>1. PICK q : q = request[i]
  OBVIOUS
<1>2. PICK y : y = request'[i]
  OBVIOUS
<1>3. Doing(i, "release") /\ UNCHANGED <<run, crashes>>
  BY DEF Release
<1>4. /\ RacesInv(i) /\ RacesTypes /\ q \in RequestType /\ Head(q.todo) = "release"
      /\ GoesBy(q.kind, q.todo) /\ Owns(q) /\ q.run \in Items
  BY <1>1, <1>3, RequestOwns
<1>5. RacesInv(i)'
  BY <1>4, KeepsRelease DEF KeepsTables
<1>6. \A s \in Items : lease'[s] = lease[s] \/ ~lease'[s].active
  <2>1. lease' = lease \/ lease' = [lease EXCEPT ![q.run].active = FALSE]
    BY <1>1 DEF Release
  <2> QED BY <1>4, <2>1, TablesTyped DEF LeaseType
<1>7. LeasesShrink
  BY <1>6 DEF LeasesShrink
<1>8. \A s \in Items : OwnerOf(s)' = OwnerOf(s) \/ OwnerOf(s)' = NoWorker
  BY <1>6, SameRecords DEF OwnerOf, Live
<1>9. Contracted
  BY <1>3, <1>8, SameRecords, LeasesLost
<1>10. y = NoRequest \/ Owns(y)'
  BY <1>1, <1>2, <1>4, <1>7, LeaseIsReleased, OwnsAfter DEF GoesOnAs
<1> QED BY <1>2, <1>4, <1>5, <1>7, <1>9, <1>10, ShrinkingKeeps

\* A call that has not ended its run's lease saves the run as it read it, or
\* running where it was open.
LEMMA WrittenPhase ==
  ASSUME NEW q \in RequestType, q.kind \notin {"claim", "recover"},
         q.item.status \notin RefusedBy(q.kind)
  PROVE  \/ Written(q).status = q.item.status
         \/ Written(q).status \in Open /\ q.item.status \in Open
         \/ /\ Closes(q)
            /\ \/ Written(q).status \in {"over", "failed"} /\ q.item.status \in Open
               \/ Written(q).status \in Open /\ q.item.status = "failed"
<1> DEFINE x == q.item
<1>1. x \in RunType /\ q.kind \in AllKinds /\ x.status \in Open \union {"absent", "over", "failed"}
  BY DEF RequestType, RunType
<1>2. ASSUME NEW status, Written(q) = [x EXCEPT !.status = status]
      PROVE  Written(q).status = status
  BY <1>1, <1>2 DEF RunType
<1> HIDE DEF x
<1>3. CASE q.kind = "start"
  <2>1. Written(q).status = "running" /\ RefusedBy(q.kind) = {"absent", "over", "failed"}
    BY <1>2, <1>3 DEF Written, RefusedBy, x
  <2> QED BY <1>1, <2>1 DEF x, Open
<1>4. CASE q.kind = "annotate"
  BY <1>4 DEF Written
<1>5. CASE q.kind = "cancel" /\ x.status # "queued"
  BY <1>5 DEF Written, x
<1>6. CASE q.kind = "cancel" /\ x.status = "queued"
  <2>1. Written(q).status = "over" /\ Closes(q)
    BY <1>2, <1>6 DEF Written, Closes, x
  <2> QED BY <1>6, <2>1 DEF x, Open
<1>7. CASE q.kind = "finish"
  <2>1. Written(q).status = "over" /\ Closes(q) /\ RefusedBy(q.kind) = {"absent", "over", "failed"}
    BY <1>2, <1>7 DEF Written, Closes, RefusedBy, x
  <2> QED BY <1>1, <2>1 DEF x
<1>8. CASE q.kind = "fail"
  <2>1. Written(q).status = "failed" /\ Closes(q) /\ RefusedBy(q.kind) = {"absent", "over", "failed"}
    BY <1>2, <1>8 DEF Written, Closes, RefusedBy, x
  <2> QED BY <1>1, <2>1 DEF x
<1>9. CASE q.kind = "requeue"
  <2>1. Written(q).status = "queued" /\ Closes(q) /\ RefusedBy(q.kind) = {"absent", "over"}
    BY <1>9 DEF Written, Closes, RefusedBy
  <2> QED BY <1>1, <2>1 DEF x, Open
<1> QED BY <1>1, <1>3, <1>4, <1>5, <1>6, <1>7, <1>8, <1>9 DEF AllKinds

LEMMA ContractSave ==
  ASSUME NEW i \in Requests, OwnersInv(i), Save(i)
  PROVE  KeepsContract(i)
<1>1. PICK q : q = request[i]
  OBVIOUS
<1>2. PICK y : y = request'[i]
  OBVIOUS
<1>3. Doing(i, "save") /\ UNCHANGED <<lease, crashes>> /\ run' = [run EXCEPT ![q.run] = Written(q)]
  BY <1>1 DEF Save
<1>4. /\ RacesInv(i) /\ RacesTypes /\ q \in RequestType /\ Head(q.todo) = "save"
      /\ GoesBy(q.kind, q.todo) /\ Knows(q) /\ q.run \in Items
  BY <1>1, <1>3, RequestOwns
<1>5. RacesInv(i)'
  BY <1>4, KeepsSave DEF KeepsTables
<1>6. LeasesShrink
  BY <1>3 DEF LeasesShrink
<1>7. /\ q.kind \notin {"claim", "recover"} /\ KnowsItem(q)
      /\ Closes(q) => ~lease[q.run].active
  BY <1>4 DEF Knows, GoesBy
<1>8. /\ run'[q.run] = Written(q)
      /\ \A s \in Items \ {q.run} : run'[s] = run[s]
  BY <1>3, <1>4, TablesTyped
<1>9. /\ \A s \in Items \ {q.run} : PhaseOf(s)' = PhaseOf(s)
      /\ \A s \in Items : OwnerOf(s)' = OwnerOf(s)
  BY <1>3, <1>8, SameRecords
<1>10. Closes(q) => OwnerOf(q.run) = NoWorker
  BY <1>7 DEF OwnerOf, Live
<1>11. Contracted
  <2>1. q.item = run[q.run] /\ q.item.status \notin RefusedBy(q.kind)
    BY <1>7 DEF KnowsItem
  <2>2. CASE Written(q).status = q.item.status
    <3>1. PhaseOf(q.run)' = PhaseOf(q.run)
      BY <1>8, <2>1, <2>2, <1>4, SameRecords
    <3> QED BY <1>9, <3>1, TablesKept
  <2>3. CASE Written(q).status \in Open /\ q.item.status \in Open
    <3>1. PhaseOf(q.run)' = PhaseOf(q.run)
      BY <1>8, <2>1, <2>3 DEF PhaseOf, Open
    <3> QED BY <1>9, <3>1, TablesKept
  <2>4. CASE Closes(q) /\ Written(q).status = "over" /\ q.item.status \in Open
    <3>1. PhaseOf(q.run) = "open" /\ PhaseOf(q.run)' = "closed"
      BY <1>8, <2>1, <2>4 DEF PhaseOf, Open
    <3> QED BY <1>4, <1>9, <1>10, <2>4, <3>1, RunSettled
  <2>5. CASE Closes(q) /\ Written(q).status = "failed" /\ q.item.status \in Open
    <3>1. PhaseOf(q.run) = "open" /\ PhaseOf(q.run)' = "failed"
      BY <1>8, <2>1, <2>5 DEF PhaseOf, Open
    <3> QED BY <1>4, <1>9, <1>10, <2>5, <3>1, RunSettled
  <2>6. CASE Written(q).status \in Open /\ q.item.status = "failed"
    <3>1. PhaseOf(q.run) = "failed" /\ PhaseOf(q.run)' = "open"
      BY <1>8, <2>1, <2>6 DEF PhaseOf, Open
    <3> QED BY <1>4, <1>9, <3>1, RunReopened
  <2> QED BY <1>4, <1>7, <2>1, <2>2, <2>3, <2>4, <2>5, <2>6, WrittenPhase
<1>12. y = NoRequest
  BY <1>1, <1>2, <1>4, ItemIsSaved, LastAccess DEF GoesOnAs
<1> QED BY <1>2, <1>5, <1>6, <1>11, <1>12, ShrinkingKeeps

LEMMA ContractLapse ==
  ASSUME NEW i \in Requests, OwnersInv(i), NEW r \in Items, Lapse(r)
  PROVE  KeepsContract(i)
<1>1. RacesInv(i) /\ RacesTypes /\ UNCHANGED <<run, request>>
  BY DEF OwnersInv, RacesInv, Lapse
<1>2. RacesInv(i)'
  BY <1>1, KeepsLapse DEF KeepsTables
<1>3. /\ \A s \in Items : lease'[s].active = lease[s].active /\ lease'[s].holder = lease[s].holder
      /\ lease'[r].lapsed /\ \A s \in Items \ {r} : lease'[s] = lease[s]
  <2>1. lease' = [lease EXCEPT ![r].lapsed = TRUE]
    BY DEF Lapse
  <2> QED BY <1>1, <2>1, TablesTyped DEF LeaseType
<1>4. LeasesShrink
  BY <1>3 DEF LeasesShrink
<1>5. OwnerOf(r)' = NoWorker
  BY <1>3 DEF OwnerOf, Live
<1>6. Contracted
  BY <1>1, <1>3, <1>5, SameRecords, LeasesLost
<1>7. PICK y : y = request'[i]
  OBVIOUS
<1>8. y = NoRequest \/ Owns(y)'
  <2>1. y = NoRequest \/ Owns(y)
    BY <1>1, <1>7 DEF OwnersInv
  <2>2. HoldsNone(y) => HoldsNone(y)'
    BY <1>3 DEF HoldsNone
  <2> QED BY <2>1, <2>2 DEF Owns
<1> QED BY <1>2, <1>4, <1>6, <1>7, <1>8, ShrinkingKeeps

LEMMA ContractEnqueue ==
  ASSUME NEW i \in Requests, OwnersInv(i), NEW r \in Items, EnqueueItem(r)
  PROVE  KeepsContract(i)
<1>1. /\ RacesInv(i) /\ RacesTypes /\ UNCHANGED <<lease, request>> /\ run[r].status = "absent"
      /\ run' = [run EXCEPT ![r].status = "queued"]
  BY DEF OwnersInv, RacesInv, EnqueueItem
<1>2. RacesInv(i)'
  BY <1>1, KeepsEnqueue DEF KeepsTables
<1>3. run'[r].status = "queued" /\ \A s \in Items \ {r} : run'[s] = run[s]
  BY <1>1, TablesTyped DEF RunType
<1>4. LeasesShrink
  BY <1>1 DEF LeasesShrink
<1>5. Contracted
  <2>1. PhaseOf(r) = "absent" /\ PhaseOf(r)' = "open"
    BY <1>1, <1>3 DEF PhaseOf, Open
  <2>2. /\ \A s \in Items \ {r} : PhaseOf(s)' = PhaseOf(s)
        /\ \A s \in Items : OwnerOf(s)' = OwnerOf(s)
    BY <1>1, <1>3, SameRecords
  <2> QED BY <2>1, <2>2, RunSubmitted
<1>6. PICK y : y = request'[i]
  OBVIOUS
<1>7. y = NoRequest \/ Owns(y)'
  <2>1. y = NoRequest \/ Owns(y)
    BY <1>1, <1>6 DEF OwnersInv
  <2> QED BY <1>1, <2>1 DEF Owns, HoldsNone
<1> QED BY <1>2, <1>4, <1>5, <1>6, <1>7, ShrinkingKeeps

LEMMA ContractCrash ==
  ASSUME NEW i \in Requests, OwnersInv(i), CrashServer
  PROVE  KeepsContract(i)
<1>1. RacesInv(i) /\ UNCHANGED <<run, lease>> /\ request'[i] = NoRequest
  BY DEF OwnersInv, CrashServer, NoRequest
<1>2. RacesInv(i)'
  BY <1>1, KeepsCrash DEF KeepsTables
<1>3. PICK y : y = request'[i]
  OBVIOUS
<1> QED BY <1>1, <1>2, <1>3, ReadingKeepsContract

LEMMA ContractAlone ==
  ASSUME NEW i \in Requests, Requests = {i}, OwnersInv(i), [RacesNext]_racesVars
  PROVE  KeepsContract(i)
<1>1. CASE Call(i)
  <2>1. ASSUME NEW kind, NEW w \in Workers \union {NoWorker}, NEW r \in Items,
               BeginRequest(i, kind, w, r),
               kind \in {"claim", "start", "finish"} => w \in Workers
        PROVE  KeepsContract(i)
    BY <2>1, ContractBegin
  <2> QED BY <1>1, <2>1 DEF Call
<1>2. CASE Access(i)
  BY <1>2, ContractReadLeases, ContractReadQueue, ContractReadItem, ContractReadList,
     ContractCheckLapsed, ContractSweep, ContractAssign, ContractGrant, ContractRelet,
     ContractRelease, ContractSave DEF Access
<1>3. ASSUME NEW r \in Items, EnqueueItem(r) \/ Lapse(r) PROVE KeepsContract(i)
  BY <1>3, ContractEnqueue, ContractLapse
<1>4. CASE CrashServer
  BY <1>4, ContractCrash
<1>5. CASE UNCHANGED racesVars
  <2>1. UNCHANGED <<run, lease, request>> /\ RacesInv(i)
    BY <1>5 DEF racesVars, OwnersInv
  <2>2. RacesInv(i)'
    BY <1>5, <2>1, AloneAtTheTables DEF KeepsTables
  <2>3. PICK y : y = request'[i]
    OBVIOUS
  <2>4. y = NoRequest \/ Owns(y)'
    <3>1. y = NoRequest \/ Owns(y)
      BY <2>1, <2>3 DEF OwnersInv
    <3> QED BY <2>1, <3>1 DEF Owns, HoldsNone
  <2> QED BY <2>1, <2>2, <2>3, <2>4, ReadingKeepsContract
<1> QED BY <1>1, <1>2, <1>3, <1>4, <1>5 DEF RacesNext

LEMMA OwnersInitially ==
  ASSUME NEW i \in Requests, RacesInit
  PROVE  OwnersInv(i) /\ Contract!Init
<1>1. RacesInv(i)
  BY RacesInvInitially
<1>2. request[i] = NoRequest /\ \A r \in Items : ~lease[r].active /\ run[r].status = "absent"
  BY DEF RacesInit, NoRequest, NoLease, NoItem
<1>3. ActiveIsHeld /\ OneEach
  BY <1>2 DEF ActiveIsHeld, OneEach
<1>4. \A r \in Items : PhaseOf(r) = "absent" /\ OwnerOf(r) = NoWorker
  BY <1>2 DEF PhaseOf, OwnerOf, Live, Open
<1>5. Contract!Init
  BY <1>4 DEF Contract!Init
<1> QED BY <1>1, <1>2, <1>3, <1>5 DEF OwnersInv

\* As long as calls come one after the other, the queue keeps the contract of
\* RunContract although it is read and written one access at a time: each
\* access is a step of the contract or a stutter, whatever lapses meanwhile and
\* wherever the process is killed.
THEOREM AccessesImplementContractAlone ==
  ASSUME OneRequest
  PROVE  RacesSpec => AccessesImplementContract
<1>1. PICK i : Requests = {i}
  BY DEF OneRequest
<1>2. i \in Requests
  BY <1>1
<1>3. RacesInit => OwnersInv(i) /\ Contract!Init
  BY <1>2, OwnersInitially
<1>4. OwnersInv(i) /\ [RacesNext]_racesVars => OwnersInv(i)' /\ [Contract!Next]_(Contract!vars)
  BY <1>1, <1>2, ContractAlone DEF KeepsContract, Contracted
<1> QED BY <1>3, <1>4, PTL DEF RacesSpec, AccessesImplementContract, Contract!Spec

=============================================================================
