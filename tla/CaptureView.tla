----------------------------- MODULE CaptureView -----------------------------
(***************************************************************************)
(* The document cache of monitoring/scripts/ci_observe_capture_view.py:    *)
(* request threads share one bounded LRU cache and make one Tempo lookup   *)
(* per capture id at a time; the others wait for the leader's Event.       *)
(*                                                                         *)
(* One step is one critical section of self._lock, one lookup or one wait. *)
(***************************************************************************)
EXTENDS Integers, Sequences, FiniteSets, SequencesExt

CONSTANTS
    Thread,     \* request threads of the HTTP server
    Id,         \* capture ids
    SizeOf,     \* bytes of each id's document
    MaxBytes    \* CACHE_MAX_BYTES


VARIABLES
    cache,      \* self._cache, the least recently used id first
    fresh,      \* ids of the cache whose entry has not expired
    inflight,   \* self._inflight: the leader of each id's Event
    pc,         \* where each thread is
    id,         \* the capture id of its request
    event       \* the leader whose Event it waits for

vars == <<cache, fresh, inflight, pc, id, event>>

NoThread == "nobody"

ASSUME ViewAssumption ==
    /\ SizeOf \in [Id -> Nat] /\ MaxBytes \in Nat
    /\ NoThread \notin Thread

Entries(s)   == {s[i] : i \in 1 .. Len(s)}
Without(s, x) == IF x \in Entries(s) THEN RemoveAt(s, CHOOSE i \in 1 .. Len(s) : s[i] = x) ELSE s
Total(s) ==
    LET size[k \in 0 .. Len(s)] == IF k = 0 THEN 0 ELSE size[k - 1] + SizeOf[s[k]]
    IN  size[Len(s)]

------------------------------------------------------------------------------

Goto(th, l) == pc' = [pc EXCEPT ![th] = l]

Arrive(th, x) ==
    /\ pc[th] = "idle"
    /\ id' = [id EXCEPT ![th] = x]
    /\ Goto(th, "check")
    /\ UNCHANGED <<cache, fresh, inflight, event>>

\* time.monotonic() passes expires_at; the entry stays until it is looked up.
Expire(x) ==
    /\ x \in fresh
    /\ fresh' = fresh \ {x}
    /\ UNCHANGED <<cache, inflight, pc, id, event>>

Hit(th) ==
    /\ pc[th] = "check"
    /\ id[th] \in fresh
    /\ cache' = Append(Without(cache, id[th]), id[th])
    /\ Goto(th, "idle")
    /\ UNCHANGED <<fresh, inflight, id, event>>

\* Mutant: the leader is elected without looking at who is in flight.
LeadUnchecked(th) ==
    /\ pc[th] = "check"
    /\ id[th] \notin fresh
    /\ cache' = Without(cache, id[th])
    /\ inflight' = [inflight EXCEPT ![id[th]] = th]
    /\ Goto(th, "build")
    /\ UNCHANGED <<fresh, id, event>>

\* A miss drops the expired entry; without a leader in flight this thread leads.
Lead(th) ==
    /\ pc[th] = "check"
    /\ id[th] \notin fresh
    /\ cache' = Without(cache, id[th])
    /\ inflight[id[th]] = NoThread
    /\ inflight' = [inflight EXCEPT ![id[th]] = th]
    /\ Goto(th, "build")
    /\ UNCHANGED <<fresh, id, event>>

Follow(th) ==
    /\ pc[th] = "check"
    /\ id[th] \notin fresh
    /\ cache' = Without(cache, id[th])
    /\ inflight[id[th]] # NoThread
    /\ event' = [event EXCEPT ![th] = inflight[id[th]]]
    /\ Goto(th, "wait")
    /\ UNCHANGED <<fresh, inflight, id>>

\* event.wait(timeout): the loop starts again.
WaitTimesOut(th) ==
    /\ pc[th] = "wait"
    /\ event' = [event EXCEPT ![th] = NoThread]
    /\ Goto(th, "check")
    /\ UNCHANGED <<cache, fresh, inflight, id>>

BuildDocument(th) ==
    /\ pc[th] = "build"
    /\ Goto(th, "store")
    /\ UNCHANGED <<cache, fresh, inflight, id, event>>

\* Mutant: no finally, an exception leaves the flight as it is.
BuildRaisesUnguarded(th) ==
    /\ pc[th] = "build"
    /\ Goto(th, "idle")
    /\ UNCHANGED <<cache, fresh, inflight, id, event>>

\* An exception skips the store; the finally clause still runs.
BuildRaises(th) ==
    /\ pc[th] = "build"
    /\ Goto(th, "release")
    /\ UNCHANGED <<cache, fresh, inflight, id, event>>

\* Mutant: one entry is evicted, also when the total still does not fit.
EvictOne(s) == IF Total(s) > MaxBytes THEN Tail(s) ELSE s

\* popitem(last=False) until the total fits or one entry is left.
Evict(s) ==
    LET Fits(k) == Total(SubSeq(s, k, Len(s))) <= MaxBytes \/ k = Len(s)
    IN SubSeq(s, Min({k \in 1 .. Len(s) : Fits(k)}), Len(s))

Store(th) ==
    /\ pc[th] = "store"
    /\ cache' = Evict(Append(Without(cache, id[th]), id[th]))
    /\ fresh' = (fresh \cup {id[th]}) \cap Entries(cache')
    /\ Goto(th, "release")
    /\ UNCHANGED <<inflight, id, event>>

\* self._inflight.pop(capture_id, None)
Release(th) ==
    /\ pc[th] = "release"
    /\ inflight' = [inflight EXCEPT ![id[th]] = NoThread]
    /\ Goto(th, "wake")
    /\ UNCHANGED <<cache, fresh, id, event>>

\* event.set(): every waiter of this flight looks again; then the answer.
Wake(th) ==
    /\ pc[th] = "wake"
    /\ pc' = [x \in Thread |-> IF x = th THEN "idle"
                               ELSE IF pc[x] = "wait" /\ event[x] = th THEN "check"
                               ELSE pc[x]]
    /\ event' = [x \in Thread |-> IF event[x] = th THEN NoThread ELSE event[x]]
    /\ UNCHANGED <<cache, fresh, inflight, id>>

Init ==
    /\ cache = <<>> /\ fresh = {}
    /\ inflight = [x \in Id |-> NoThread]
    /\ pc = [th \in Thread |-> "idle"]
    /\ id \in [Thread -> Id]
    /\ event = [th \in Thread |-> NoThread]

Answering(th) ==
    \/ Hit(th) \/ Lead(th) \/ Follow(th) \/ BuildDocument(th) \/ BuildRaises(th)
    \/ Store(th) \/ Release(th) \/ Wake(th)

Next ==
    \/ \E th \in Thread : Answering(th) \/ WaitTimesOut(th) \/ \E x \in Id : Arrive(th, x)
    \/ \E x \in Id : Expire(x)

Spec == Init /\ [][Next]_vars

------------------------------------------------------------------------------
(* Properties *)

Leading == {"build", "store", "release"}

FlightType ==
    /\ inflight \in [Id -> Thread \cup {NoThread}]
    /\ pc \in [Thread -> {"idle", "check", "wait", "build", "store", "release", "wake"}]
    /\ id \in [Thread -> Id]
    /\ event \in [Thread -> Thread \cup {NoThread}]

\* The domains of the variables.
TypeOK == cache \in Seq(Id) /\ fresh \subseteq Id /\ FlightType

\* "Readers of the same id wait for the leader instead of starting a second
\* Tempo lookup": from the start of a lookup until its document is stored no
\* other thread looks the same id up.
SingleFlight ==
    \A x, y \in Thread : pc[x] \in Leading /\ pc[y] \in Leading /\ id[x] = id[y] => x = y

\* No wake-up is lost: the thread a waiter waits for has still to set its Event.
WaiterHasLeader ==
    \A th \in Thread : pc[th] = "wait" => event[th] \in Thread /\ pc[event[th]] \in Leading \cup {"wake"}

\* The cache is within CACHE_MAX_BYTES or holds a single document, no id twice,
\* and everything fresh is in it.
CacheBounded ==
    /\ Total(cache) <= MaxBytes \/ Len(cache) = 1
    /\ \A i, j \in 1 .. Len(cache) : cache[i] = cache[j] => i = j
    /\ fresh \subseteq Entries(cache)

\* Threads run and lookups end (every Tempo query has a timeout); no wait is
\* assumed to time out.
FairSpec == Spec /\ \A th \in Thread : WF_vars(Answering(th))

\* A waiter does not depend on its timeout: it always gets to look again.
WaitEnds == \A th \in Thread : pc[th] = "wait" ~> pc[th] # "wait"
====
