---------------------------- MODULE TelegramIngress ----------------------------
(***************************************************************************)
(* The way of a Telegram update into the API: the polling daemon, which    *)
(* keeps its offset in memory and forwards each update to the webhook of   *)
(* its own process, or Telegram itself, which posts to that webhook; the   *)
(* claim of the update id in SQLite; the rate window of the chat.          *)
(***************************************************************************)
EXTENDS Integers, FiniteSets

CONSTANTS
    Updates,       \* update ids
    PerPoll,       \* the limit of getUpdates (10)
    PerWindow,     \* requests of a chat within a window (30); one chat
    MaxRestarts    \* bound: how often the process is stopped or dies

ASSUME IngressAssumption ==
    /\ Updates \subseteq Nat \ {0} /\ PerPoll \in Nat \ {0}
    /\ PerWindow \in Nat /\ MaxRestarts \in Nat

VARIABLES
    polling,     \* does the daemon run, or does Telegram post?
    atTelegram,  \* updates Telegram still keeps
    offset,      \* _last_offset
    batch,       \* what the daemon has still to dispatch
    sent,        \* is the first of them sent, and its answer awaited?
    requests,    \* updates that have reached the webhook: [update, stage]
    claimed,     \* telegram_inbound_update_ids
    window,      \* requests of the chat in the rate window
    restarts,
    handled,     \* how often each update was handled; only properties read it
    spoiled      \* updates a step of whose way failed; only properties read it

ingressVars ==
    <<polling, atTelegram, offset, batch, sent, requests, claimed, window,
      restarts, handled, spoiled>>

IngressInit ==
    /\ polling \in BOOLEAN
    /\ atTelegram = Updates
    /\ offset = 0 /\ batch = {} /\ sent = FALSE /\ requests = {} /\ claimed = {} /\ window = 0
    /\ restarts = 0 /\ handled = [u \in Updates |-> 0] /\ spoiled = {}

Request(u, stage) == [update |-> u, stage |-> stage]

-----------------------------------------------------------------------------
(* Polling                                                                 *)

FromOffset == {u \in Updates : u >= offset}
FirstOf(S) == {u \in S : Cardinality({v \in S : v < u}) < PerPoll}
IsHead(u) == u \in batch /\ \A v \in batch : u <= v

\* getUpdates drops what lies before the offset.  Its answer may be lost.
Poll ==
    /\ polling /\ batch = {}
    /\ atTelegram' = atTelegram \intersect FromOffset
    /\ batch' \in {{}, FirstOf(atTelegram')}
    /\ UNCHANGED <<polling, offset, sent, requests, claimed, window,
                   restarts, handled, spoiled>>

Dispatch(u) ==
    /\ polling /\ IsHead(u) /\ ~sent
    /\ sent' = TRUE
    /\ requests' = requests \union {Request(u, "new")}
    /\ UNCHANGED <<polling, atTelegram, offset, batch, claimed, window, restarts, handled, spoiled>>

MoveOn(u) ==
    /\ offset' = u + 1
    /\ batch' = batch \ {u}
    /\ sent' = FALSE

\* The daemon looks at no answer: 200, 409, 429 and 503 are all the same to it.
Answered(u) ==
    /\ IsHead(u) /\ sent /\ \A r \in requests : r.update # u
    /\ MoveOn(u)
    /\ UNCHANGED <<polling, atTelegram, requests, claimed, window, restarts, handled, spoiled>>

\* The webhook cannot be reached, or does not answer within 30 seconds.
DispatchFails(u) ==
    /\ IsHead(u)
    /\ MoveOn(u)
    /\ spoiled' = spoiled \union {u}
    /\ UNCHANGED <<polling, atTelegram, requests, claimed, window, restarts, handled>>

-----------------------------------------------------------------------------
(* The webhook                                                             *)

\* Telegram posts, and posts again until it is told that all is well.
Post(u) ==
    /\ ~polling /\ u \in atTelegram
    /\ \A r \in requests : r.update # u
    /\ requests' = requests \union {Request(u, "new")}
    /\ UNCHANGED <<polling, atTelegram, offset, batch, sent, claimed, window, restarts, handled, spoiled>>

\* Telegram abandons an update that is refused again and again.
Abandon(u) ==
    /\ ~polling /\ u \in atTelegram \intersect (spoiled \union claimed)
    /\ \A r \in requests : r.update # u
    /\ atTelegram' = atTelegram \ {u}
    /\ UNCHANGED <<polling, offset, batch, sent, requests, claimed, window,
                   restarts, handled, spoiled>>

\* The update id is claimed before the rate of the chat is looked at.
Guard(r) ==
    /\ r \in requests /\ r.stage = "new"
    /\ \/ /\ r.update \in claimed
          /\ requests' = requests \ {r}
          /\ UNCHANGED <<claimed, window, spoiled>>
       \/ /\ r.update \notin claimed
          /\ claimed' = claimed \union {r.update}
          /\ IF window < PerWindow
               THEN /\ window' = window + 1
                    /\ requests' = (requests \ {r}) \union {Request(r.update, "claimed")}
                    /\ UNCHANGED spoiled
               ELSE /\ requests' = requests \ {r}
                    /\ spoiled' = spoiled \union {r.update}
                    /\ UNCHANGED window
    /\ UNCHANGED <<polling, atTelegram, offset, batch, sent, restarts, handled>>

\* The claim cannot be written: the request is refused with 503.
GuardFails(r) ==
    /\ r \in requests /\ r.stage = "new"
    /\ requests' = requests \ {r}
    /\ spoiled' = spoiled \union {r.update}
    /\ UNCHANGED <<polling, atTelegram, offset, batch, sent, claimed, window, restarts, handled>>

\* The handler does its work, or raises.  Telegram, if it is the one that
\* waits, drops the update when the answer reaches it.
Handle(r, ok) ==
    /\ r \in requests /\ r.stage = "claimed"
    /\ requests' = requests \ {r}
    /\ IF ok THEN handled' = [handled EXCEPT ![r.update] = @ + 1] /\ UNCHANGED spoiled
             ELSE spoiled' = spoiled \union {r.update} /\ UNCHANGED handled
    /\ \/ UNCHANGED atTelegram
       \/ ~polling /\ ok /\ atTelegram' = atTelegram \ {r.update}
    /\ UNCHANGED <<polling, offset, batch, sent, claimed, window, restarts>>

WindowPasses ==
    /\ window > 0
    /\ window' = 0
    /\ UNCHANGED <<polling, atTelegram, offset, batch, sent, requests, claimed, restarts, handled, spoiled>>

\* Mutant of Restart: the claims are kept in memory.
RestartWithoutClaims ==
    /\ restarts < MaxRestarts
    /\ restarts' = restarts + 1
    /\ polling' \in BOOLEAN
    /\ offset' = 0 /\ batch' = {} /\ sent' = FALSE /\ window' = 0 /\ claimed' = {}
    /\ spoiled' = spoiled \union {r.update : r \in {x \in requests : x.stage = "claimed"}}
    /\ requests' = {}
    /\ UNCHANGED <<atTelegram, handled>>

\* The daemon is a thread of the API process: both stop together, and what is
\* in memory is gone.  After the restart the other way of ingress may be used.
Restart ==
    /\ restarts < MaxRestarts
    /\ restarts' = restarts + 1
    /\ polling' \in BOOLEAN
    /\ offset' = 0 /\ batch' = {} /\ sent' = FALSE /\ window' = 0
    /\ spoiled' = spoiled \union {r.update : r \in {x \in requests : x.stage = "claimed"}}
    /\ requests' = {}
    /\ UNCHANGED <<atTelegram, claimed, handled>>

IngressNext ==
    \/ Poll \/ WindowPasses \/ Restart
    \/ \E u \in Updates :
         Dispatch(u) \/ Answered(u) \/ DispatchFails(u) \/ Post(u) \/ Abandon(u)
    \/ \E r \in requests : Guard(r) \/ GuardFails(r) \/ Handle(r, TRUE) \/ Handle(r, FALSE)

IngressSpec == IngressInit /\ [][IngressNext]_ingressVars

-----------------------------------------------------------------------------
IngressTypeOK ==
    /\ atTelegram \subseteq Updates /\ claimed \subseteq Updates /\ spoiled \subseteq Updates
    /\ offset \in {0} \union {u + 1 : u \in Updates}
    /\ batch \subseteq Updates /\ sent \in BOOLEAN
    /\ polling \in BOOLEAN /\ restarts \in 0 .. MaxRestarts
    /\ requests \subseteq [update : Updates, stage : {"new", "claimed"}]
    /\ window \in 0 .. PerWindow
    /\ handled \in [Updates -> Nat]

\* An update is handled at most once, whichever ways it comes on and however
\* often; and one that Telegram no longer keeps was handled or is on its way,
\* unless some step of its way failed: a restart between a poll and the
\* dispatch of what it returned loses nothing.
EveryUpdateHasOneFate ==
    \A u \in Updates :
        /\ handled[u] <= 1
        /\ u \in atTelegram \/ handled[u] = 1 \/ u \in spoiled
           \/ \E r \in requests : r.update = u
=============================================================================
