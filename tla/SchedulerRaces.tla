---------------------------- MODULE SchedulerRaces ----------------------------
(***************************************************************************)
(* WorkerSchedulerService one store access at a time.  Endpoints run in a  *)
(* thread pool, the recovery daemon in the event loop, and nothing locks:  *)
(* every get, list and save of SQLiteModelRepository is a transaction of   *)
(* its own that reads or overwrites whole records, so calls interleave     *)
(* between accesses, and a killed process leaves a call half done.         *)
(*                                                                         *)
(* Of WorkerScheduler's detail only what the two tables say of each other  *)
(* is kept: no priorities, stickiness, retry counts or backoff, and a      *)
(* lease lapses at any time instead of after its TTL.                      *)
(***************************************************************************)
EXTENDS Integers, Sequences

CONSTANTS
    Items, Workers, NoWorker,
    Requests,    \* the calls in progress at once; one means nothing overlaps
    RequestKinds, \* the calls made
    MaxCrashes   \* bound: how often the process is killed

AllKinds == {"claim", "start", "finish", "requeue", "fail", "cancel", "recover",
             "annotate"}

ASSUME RacesAssumption ==
    NoWorker \notin Workers /\ RequestKinds \subseteq AllKinds /\ MaxCrashes \in Nat

VARIABLES
    run,       \* worker_run_queue
    lease,     \* worker_leases, with lapsed for lease_expires_at <= now
    request,   \* the calls in progress
    crashes

racesVars == <<run, lease, request, crashes>>

Open == {"queued", "running"}
RunType == [status : Open \union {"absent", "over", "failed"}, worker : Workers \union {NoWorker}]
LeaseType == [holder : Workers \union {NoWorker}, active : BOOLEAN, lapsed : BOOLEAN]
NoItem == [status |-> "absent", worker |-> NoWorker]
NoLease == [holder |-> NoWorker, active |-> FALSE, lapsed |-> FALSE]

RacesInit ==
    /\ run = [r \in Items |-> NoItem]
    /\ lease = [r \in Items |-> NoLease]
    /\ request = [i \in Requests |-> [todo |-> <<>>]]
    /\ crashes = 0

-----------------------------------------------------------------------------
(* The store accesses each call makes, in order.  recover lists the runs,  *)
(* looks at a lease, and goes on as requeue or fail, reading both again.   *)

\* Mutant of Accesses: claim grants the lease before it assigns the run.
AccessesLeaseFirst(kind) ==
    CASE kind = "claim" -> <<"leases", "sweep", "queue", "grant", "assign">>
      [] kind \in {"start", "finish"} -> <<"item", "leases", "sweep", "relet", "save">>
      [] kind = "recover" -> <<"list", "check">>
      [] kind = "annotate" -> <<"item", "save">>
      [] OTHER -> <<"item", "release", "save">>

Accesses(kind) ==
    CASE kind = "claim" -> <<"leases", "sweep", "queue", "assign", "grant">>
      [] kind \in {"start", "finish"} -> <<"item", "leases", "sweep", "relet", "save">>
      [] kind = "recover" -> <<"list", "check">>
      [] kind = "annotate" -> <<"item", "save">>
      [] OTHER -> <<"item", "release", "save">>

\* A call: what it is, by whom and about which run (claim chooses it), the
\* leases lapsed when it took the time, and the records it has read so far.
BeginRequest(i, kind, w, r) ==
    /\ request[i].todo = <<>> /\ kind \in RequestKinds
    /\ request' = [request EXCEPT ![i] =
         [todo |-> Accesses(kind), kind |-> kind, by |-> w, run |-> r,
          late |-> {s \in Items : lease[s].lapsed}, item |-> NoItem, leases |-> lease]]
    /\ UNCHANGED <<run, lease, crashes>>

Doing(i, access) == request[i].todo # <<>> /\ Head(request[i].todo) = access

RequestGoes(i, q) == request' = [request EXCEPT ![i] = q]
EndsRequest(i) == RequestGoes(i, [todo |-> <<>>])
Continues(i, q) ==
    IF Len(q.todo) = 1 THEN EndsRequest(i) ELSE RequestGoes(i, [q EXCEPT !.todo = Tail(@)])

\* What call i thinks of the lease record it read.
LiveTo(i, r) ==
    LET l == request[i].leases[r]
    IN  l.active /\ ~(l.lapsed /\ r \in request[i].late)

\* What the tables say now.
Live(r) == lease[r].active /\ ~lease[r].lapsed

-----------------------------------------------------------------------------
(* Reads. *)

ReadLeases(i) ==
    /\ Doing(i, "leases")
    /\ Continues(i, [request[i] EXCEPT !.leases = lease])
    /\ UNCHANGED <<run, lease, crashes>>

FreeItems(i) == {r \in Items : run[r].status = "queued" /\ ~LiveTo(i, r)}

\* The queue as claim sees it: it takes a queued run without a live lease, or
\* returns the one its worker already has.
ReadQueue(i) ==
    /\ Doing(i, "queue")
    /\ LET held == {r \in Items : LiveTo(i, r) /\ request[i].leases[r].holder = request[i].by}
       IN  \/ held \union FreeItems(i) = {} /\ EndsRequest(i)
           \/ held # {} /\ EndsRequest(i)
           \/ /\ held = {}
              /\ \E r \in FreeItems(i) :
                   Continues(i, [request[i] EXCEPT !.run = r, !.item = run[r]])
    /\ UNCHANGED <<run, lease, crashes>>

\* The statuses a call refuses to go on from; merge_queue_metadata annotates
\* whatever it finds.
RefusedBy(kind) ==
    CASE kind = "annotate" -> {"absent"}
      [] kind = "requeue" -> {"absent", "over"}
      [] OTHER -> {"absent", "over", "failed"}

ReadItem(i) ==
    /\ Doing(i, "item")
    /\ LET r == request[i].run IN
       IF run[r].status \in RefusedBy(request[i].kind) THEN EndsRequest(i)
       ELSE Continues(i, [request[i] EXCEPT !.item = run[r]])
    /\ UNCHANGED <<run, lease, crashes>>

\* recover_stale_runs: a run of the list is left alone while its lease is live.
ReadList(i) ==
    /\ Doing(i, "list")
    /\ IF run[request[i].run].status = "running" THEN Continues(i, request[i]) ELSE EndsRequest(i)
    /\ UNCHANGED <<run, lease, crashes>>

CheckLapsed(i) ==
    /\ Doing(i, "check")
    /\ LET r == request[i].run  l == lease[r] IN
       \/ l.active /\ ~(l.lapsed /\ r \in request[i].late) /\ EndsRequest(i)
       \/ /\ ~l.active \/ (l.lapsed /\ r \in request[i].late)
          /\ \E kind \in {"requeue", "fail"} :
               RequestGoes(i, [request[i] EXCEPT !.kind = kind, !.todo = Accesses(kind)])
    /\ UNCHANGED <<run, lease, crashes>>

-----------------------------------------------------------------------------
(* Writes: each saves a whole record, made from what the call has read.    *)

\* _active_leases writes the lapsed records it read back as inactive.
Sweep(i) ==
    /\ Doing(i, "sweep")
    /\ lease' = [r \in Items |->
         IF request[i].leases[r].active /\ ~LiveTo(i, r)
         THEN [request[i].leases[r] EXCEPT !.active = FALSE]
         ELSE lease[r]]
    /\ Continues(i, request[i])
    /\ UNCHANGED <<run, crashes>>

\* _finalize_claim
Assign(i) ==
    /\ Doing(i, "assign")
    /\ run' = [run EXCEPT ![request[i].run] = [request[i].item EXCEPT !.worker = request[i].by]]
    /\ Continues(i, request[i])
    /\ UNCHANGED <<lease, crashes>>

Grant(i) ==
    /\ Doing(i, "grant")
    /\ lease' = [lease EXCEPT ![request[i].run] =
         [holder |-> request[i].by, active |-> TRUE, lapsed |-> FALSE]]
    /\ Continues(i, request[i])
    /\ UNCHANGED <<run, crashes>>

\* report checks lease and assignment as it read them.
Accepted(i) ==
    LET q == request[i]
    IN  IF LiveTo(i, q.run) THEN q.leases[q.run].holder = q.by
        ELSE q.item.status # "running" /\ q.item.worker = q.by

\* report renews or ends the lease it found, and saves the run after it.
Relet(i) ==
    /\ Doing(i, "relet")
    /\ IF Accepted(i) THEN Continues(i, request[i]) ELSE EndsRequest(i)
    /\ LET q == request[i] IN
       lease' = IF Accepted(i) /\ LiveTo(i, q.run)
                THEN [lease EXCEPT ![q.run] =
                        [q.leases[q.run] EXCEPT !.active = q.kind = "start",
                                                !.lapsed = @ /\ q.kind # "start"]]
                ELSE lease
    /\ UNCHANGED <<run, crashes>>

\* requeue, force_fail and cancel end the lease they find; cancelling a
\* running run only notes the wish.
Release(i) ==
    /\ Doing(i, "release")
    /\ LET q == request[i] IN
       lease' = IF q.kind = "cancel" /\ q.item.status = "running" THEN lease
                ELSE [lease EXCEPT ![q.run].active = FALSE]
    /\ Continues(i, request[i])
    /\ UNCHANGED <<run, crashes>>

\* The record a call writes back.
Written(q) ==
    CASE q.kind = "start" -> [q.item EXCEPT !.status = "running"]
      [] q.kind = "finish" -> [q.item EXCEPT !.status = "over"]
      [] q.kind = "requeue" -> [status |-> "queued", worker |-> NoWorker]
      [] q.kind = "fail" -> [q.item EXCEPT !.status = "failed"]
      [] q.kind = "cancel" /\ q.item.status = "queued" -> [q.item EXCEPT !.status = "over"]
      [] OTHER -> q.item

Save(i) ==
    /\ Doing(i, "save")
    /\ run' = [run EXCEPT ![request[i].run] = Written(request[i])]
    /\ Continues(i, request[i])
    /\ UNCHANGED <<lease, crashes>>

-----------------------------------------------------------------------------
(* The rest of the world. *)

EnqueueItem(r) ==
    /\ run[r].status = "absent"
    /\ run' = [run EXCEPT ![r].status = "queued"]
    /\ UNCHANGED <<lease, request, crashes>>

Lapse(r) ==
    /\ lease[r].active /\ ~lease[r].lapsed
    /\ lease' = [lease EXCEPT ![r].lapsed = TRUE]
    /\ UNCHANGED <<run, request, crashes>>

\* The process is killed: the calls in progress are gone.
CrashServer ==
    /\ crashes < MaxCrashes
    /\ crashes' = crashes + 1
    /\ request' = [i \in Requests |-> [todo |-> <<>>]]
    /\ UNCHANGED <<run, lease>>

\* A worker's call, or one nobody's: a worker has one call in progress.
Call(i) ==
    \/ \E kind \in {"claim", "start", "finish"}, w \in Workers, r \in Items :
         /\ \A j \in Requests : request[j].todo # <<>> => request[j].by # w
         /\ BeginRequest(i, kind, w, r)
    \/ \E kind \in {"requeue", "fail", "cancel", "recover", "annotate"}, r \in Items :
         BeginRequest(i, kind, NoWorker, r)

Access(i) ==
    \/ ReadLeases(i) \/ ReadQueue(i) \/ ReadItem(i) \/ ReadList(i) \/ CheckLapsed(i)
    \/ Sweep(i) \/ Assign(i) \/ Grant(i) \/ Relet(i) \/ Release(i) \/ Save(i)

RacesNext ==
    \/ \E i \in Requests : Call(i) \/ Access(i)
    \/ \E r \in Items : EnqueueItem(r) \/ Lapse(r)
    \/ CrashServer

RacesSpec == RacesInit /\ [][RacesNext]_racesVars

-----------------------------------------------------------------------------
(* Properties. *)

\* The records in both tables are well formed.
RacesTypeOK ==
    /\ run \in [Items -> RunType]
    /\ lease \in [Items -> LeaseType]
    /\ crashes \in 0..MaxCrashes

\* While calls do not overlap, an active lease belongs to the worker of an
\* open run at every instant, also between the two saves of a call and after
\* a kill between them: every handler writes its two records in the order
\* that makes half of it harmless.
TablesAgree ==
    \A r \in Items : lease[r].active =>
        run[r].status \in Open /\ lease[r].holder = run[r].worker

\* What docs/decisions/mac-standby-worker-claim-slice.md accepts: an active
\* lease blocks other workers from taking the same run.  Overlapping claims
\* break it, as each decides on the records it has read.
ActiveLeaseBlocks ==
    [][\A r \in Items : Live(r) /\ Live(r)' => lease'[r].holder = lease[r].holder]_racesVars

\* What report and requeue_run refuse to do ("Run is already in a terminal
\* state", "Terminal run cannot be requeued"): a completed or cancelled run
\* stays so.  A metadata merge that overlaps with the final report of the
\* worker saves the whole record it read before, and reopens the run.
OverStays ==
    [][\A r \in Items : run[r].status = "over" => run'[r].status = "over"]_racesVars

\* The contract of RunContract, for a queue that is read and written one
\* access at a time: an owner is the holder of a live lease.  All runs are in
\* one queue.
PhaseOf(r) ==
    CASE run[r].status \in Open -> "open"
      [] run[r].status = "over" -> "closed"
      [] OTHER                  -> run[r].status

OwnerOf(r) == IF Live(r) THEN lease[r].holder ELSE NoWorker

Contract == INSTANCE RunContract WITH
    Runs <- Items, Queues <- {"default"}, QueueOf <- [r \in Items |-> "default"],
    phase <- [r \in Items |-> PhaseOf(r)],
    owner <- [r \in Items |-> OwnerOf(r)]

\* While calls do not overlap, every access is a step of the contract or leaves
\* phases and owners alone, so a kill halfway leaves the contract kept.
AccessesImplementContract == Contract!Spec

=============================================================================
