---------------------------- MODULE RunEvidence ----------------------------
(***************************************************************************)
(* The /api/ci-observe/run document (ci_observe_run_evidence.py) of one    *)
(* GitHub run: its stored rows, and the JUnit results read on demand from  *)
(* its artifact and kept in a cache shared by the request threads.  The    *)
(* run is repeated while it is looked at: a new attempt replaces the       *)
(* artifact, and the exporter's own row of the run with it, at different   *)
(* moments.                                                                *)
(*                                                                         *)
(* The content of a row or an artifact is told apart by the attempt it     *)
(* comes from.  Time is counted in units in which the three delays keep    *)
(* their order: a lookup, the short and the long time to live.             *)
(***************************************************************************)
EXTENDS Integers, Sequences, SequencesExt

CONSTANTS
    Thread,         \* request threads
    MaxAttempt,     \* bound on the attempts of the run
    Names,          \* the artifact names of the run, the plain one first
    MaxEntries,     \* NATIVE_CACHE_MAX_ENTRIES
    Ttl,            \* NATIVE_CACHE_TTL_SECONDS
    FailureTtl,     \* NATIVE_FAILURE_CACHE_TTL_SECONDS
    LookupTime,     \* what the timeouts of the requests leave a lookup
    Ask,            \* [Thread -> the ids it is asked for, see ReadRows]
    Kinds,          \* the kinds of artifact uploaded: "live", "large", "invalid"
    LastChange,     \* bound: GitHub and the exporter change up to this time
    MaxTime         \* bound of the clock

VARIABLES
    now,            \* time.monotonic
    latest,         \* GitHub: the latest attempt
    art,            \* GitHub: per name, the attempt and the kind of artifact
    rows,           \* the exporter: the attempt of the run's own row, and of its suite rows
    cache,          \* the entries of the BoundedCache, oldest insertion first
    req,            \* per thread, the request it serves
    changed,        \* history: when GitHub or the rows changed last
    failed          \* history: when a lookup failed last
vars == <<now, latest, art, rows, cache, req, changed, failed>>

Absent == [of |-> 0, kind |-> "absent"]
\* _native_doc: what is not parsed has no counts, only a status.
NativeDoc(status, of) == [status |-> status, of |-> of]
Gap(status) == NativeDoc(status, 0)
\* A request: when it began, the attempt asked for (0 for none), whether it
\* has the note on another attempt, the artifact chosen, and the results.
Request(pc, begun, attempt, note, name, of, native) ==
    [pc |-> pc, begun |-> begun, attempt |-> attempt, note |-> note,
     name |-> name, of |-> of, native |-> native]
Idle == Request("idle", 0, 0, FALSE, 0, 0, Gap("none"))

Init ==
    /\ now = 0 /\ latest = 1
    /\ art = [n \in DOMAIN Names |-> Absent]
    /\ rows = [own |-> 0, suites |-> {}]
    /\ cache = <<>> /\ req = [t \in Thread |-> Idle]
    /\ changed = 0 /\ failed = -Ttl

-----------------------------------------------------------------------------
(* GitHub, the exporter and the clock. *)

\* A request takes no longer than its timeouts allow.
Tick ==
    /\ now < MaxTime /\ \A t \in Thread : req[t] # Idle => now < req[t].begun + LookupTime
    /\ now' = now + 1
    /\ UNCHANGED <<latest, art, rows, cache, req, changed, failed>>

Outside == now <= LastChange /\ changed' = now /\ UNCHANGED <<now, cache, req, failed>>

Rerun == latest < MaxAttempt /\ latest' = latest + 1 /\ Outside /\ UNCHANGED <<art, rows>>

Upload(n, kind) ==
    /\ art[n].of < latest
    /\ art' = [art EXCEPT ![n] = [of |-> latest, kind |-> kind]]
    /\ Outside /\ UNCHANGED <<latest, rows>>

Expire(n) ==
    /\ art[n].kind = "live" /\ art' = [art EXCEPT ![n].kind = "expired"]
    /\ Outside /\ UNCHANGED <<latest, rows>>

\* The exporter overwrites the run's own row and adds rows of its suites.
StoreRow ==
    /\ rows.own < latest /\ rows' = [rows EXCEPT !.own = latest]
    /\ Outside /\ UNCHANGED <<latest, art>>
StoreSuite ==
    /\ latest \notin rows.suites /\ rows' = [rows EXCEPT !.suites = @ \cup {latest}]
    /\ Outside /\ UNCHANGED <<latest, art>>

-----------------------------------------------------------------------------
(* BoundedCache. *)

Holds(key) == {i \in DOMAIN cache : cache[i].key = key}
\* Mutant: the expiry is not looked at.
LiveForever(key) == Holds(key)
Live(key) == {i \in Holds(key) : now < cache[i].expires}
\* A get drops the entry it finds expired.
Expired(key) == Holds(key) \ Live(key)
AfterGet(key) == IF Expired(key) = {} THEN cache ELSE RemoveAt(cache, CHOOSE i \in Expired(key) : TRUE)

\* A key that is put again keeps its place; the oldest insertions are dropped.
Put(c, key, value, ttl) ==
    LET entry == [key |-> key, value |-> value, expires |-> now + ttl]
        held == {i \in DOMAIN c : c[i].key = key}
        all == IF held # {} THEN [i \in DOMAIN c |-> IF i \in held THEN entry ELSE c[i]]
               ELSE Append(c, entry)
    IN  IF Len(all) > MaxEntries THEN Tail(all) ELSE all

TtlOf(result) == IF result.status = "available" THEN Ttl ELSE FailureTtl

-----------------------------------------------------------------------------
(* get_ci_observe_run_json. *)

\* Mutant: the row of the latest attempt stands for any attempt.
RunRowMatchesAny(attempt) == rows.own # 0
RunRowMatches(attempt) == rows.own = attempt

NewestStored == CHOOSE a \in {rows.own} \cup rows.suites : \A b \in {rows.own} \cup rows.suites : b <= a
NoRows == rows.own = 0 /\ rows.suites = {}

\* An id names an attempt, a bare run (0) or is of none of the formats (-1).
\* The rows are read once; an invalid id and an unknown run end here.
ReadRows(t, ask) ==
    /\ req[t] = Idle
    /\ LET attempt == IF ask = 0 THEN NewestStored ELSE ask
           summary == rows.own # 0 \/ attempt \in rows.suites
           note == rows.own # 0 /\ ~RunRowMatches(attempt)
       IN  req' = [req EXCEPT ![t] =
               IF ask = -1 \/ NoRows
               THEN Request("answer", now, 0, TRUE, 0, 0, Gap("not_requested"))
               ELSE Request(IF summary THEN "sha" ELSE "native", now, attempt, note, 0, 0, Gap("none"))]
    /\ UNCHANGED <<now, latest, art, rows, cache, changed, failed>>

ShaKey == 0
\* _ci_observe_head_sha, for rows stored without one: its entry takes a place
\* in the same cache, and an empty answer is an entry too.
HeadSha(t, stored, ok) ==
    /\ req[t].pc = "sha"
    /\ cache' = IF stored \/ Live(ShaKey) # {} THEN cache
                ELSE Put(AfterGet(ShaKey), ShaKey, Gap("not_requested"), IF ok THEN Ttl ELSE FailureTtl)
    /\ req' = [req EXCEPT ![t].pc = "native"]
    /\ UNCHANGED <<now, latest, art, rows, changed, failed>>

Answer(r, native) == Request("answer", r.begun, r.attempt, r.note, 0, 0, native)
\* What the lookup found, a gap included, is put into the cache next.
Found(r, native) == Request("put", r.begun, r.attempt, r.note, r.name, r.of, native)

CacheHit(t) ==
    /\ req[t].pc = "native"
    /\ \E i \in Live(req[t].attempt) : req' = [req EXCEPT ![t] = Answer(@, cache[i].value)]
    /\ UNCHANGED <<now, latest, art, rows, cache, changed, failed>>

\* A live artifact before an expired one, the plain name before the others.
Matches == {n \in DOMAIN Names : art[n] # Absent}
Before(n, k) == LET x(i) == art[i].kind = "expired"
                IN  (~x(n) /\ x(k)) \/ (x(n) = x(k) /\ n < k)
Chosen == CHOOSE n \in Matches : \A k \in Matches \ {n} : Before(n, k)

StatusOf(kind) == CASE kind = "expired" -> "expired" [] kind = "large" -> "too_large"
                    [] kind = "invalid" -> "invalid" [] kind = "live" -> "available"

\* The listing decides on everything but what only a download can tell.
ListArtifacts(t) ==
    /\ req[t].pc = "native" /\ Live(req[t].attempt) = {}
    /\ cache' = AfterGet(req[t].attempt)
    /\ req' = [req EXCEPT ![t] =
            IF Matches = {} THEN Found(@, Gap("missing"))
            ELSE IF art[Chosen].kind \in {"expired", "large"} THEN Found(@, Gap(StatusOf(art[Chosen].kind)))
            ELSE [@ EXCEPT !.pc = "download", !.name = Chosen, !.of = art[Chosen].of]]
    /\ UNCHANGED <<now, latest, art, rows, changed, failed>>

\* The archive is gone when a newer attempt has replaced it.
Download(t) ==
    /\ req[t].pc = "download"
    /\ LET a == art[req[t].name]
           found == IF a.of # req[t].of \/ a.kind = "expired" THEN Gap("not_requested")
                    ELSE NativeDoc(StatusOf(a.kind), IF a.kind = "live" THEN a.of ELSE 0)
       IN  req' = [req EXCEPT ![t] = Found(@, found)]
    /\ UNCHANGED <<now, latest, art, rows, cache, changed, failed>>

\* No token, a network error or an HTTP error in answer to either call.
LookupFails(t) ==
    /\ now <= LastChange
    /\ \/ req[t].pc = "download"
       \/ req[t].pc = "native" /\ Live(req[t].attempt) = {}
    /\ cache' = AfterGet(req[t].attempt) /\ failed' = now
    /\ req' = [req EXCEPT ![t] = Found(@, Gap("not_requested"))]
    /\ UNCHANGED <<now, latest, art, rows, changed>>

\* The connection breaks while the archive is read: the error leaves the
\* endpoint, and nothing is kept of the lookup.
DownloadRaises(t) ==
    /\ req[t].pc = "download" /\ req' = [req EXCEPT ![t] = Idle]
    /\ UNCHANGED <<now, latest, art, rows, cache, changed, failed>>

\* The time to live counts from here.
PutNative(t) ==
    /\ req[t].pc = "put"
    /\ cache' = Put(cache, req[t].attempt, req[t].native, TtlOf(req[t].native))
    /\ req' = [req EXCEPT ![t] = Answer(@, req[t].native)]
    /\ UNCHANGED <<now, latest, art, rows, changed, failed>>

Send(t) ==
    /\ req[t].pc = "answer" /\ req' = [req EXCEPT ![t] = Idle]
    /\ UNCHANGED <<now, latest, art, rows, cache, changed, failed>>

World == \/ Tick \/ Rerun \/ StoreRow \/ StoreSuite
         \/ \E n \in DOMAIN Names : Expire(n) \/ \E k \in Kinds : Upload(n, k)
Serve(t) == \/ \E ask \in Ask[t] : ReadRows(t, ask)
            \/ \E stored, ok \in BOOLEAN : HeadSha(t, stored, ok)
            \/ CacheHit(t) \/ ListArtifacts(t) \/ Download(t) \/ LookupFails(t) \/ DownloadRaises(t)
            \/ PutNative(t) \/ Send(t)
Next == World \/ \E t \in Thread : Serve(t)

Spec == Init /\ [][Next]_vars

-----------------------------------------------------------------------------
(* Properties. *)

Answered(t) == req[t].pc = "answer" /\ req[t].attempt # 0
Settled(t, ttl) == req[t].begun >= changed + LookupTime + ttl
Untroubled(t) == req[t].begun >= failed + LookupTime + FailureTtl

\* What a lookup of the artifact yields.
Reference == IF Matches = {} THEN Gap("missing")
             ELSE NativeDoc(StatusOf(art[Chosen].kind), IF art[Chosen].kind = "live" THEN art[Chosen].of ELSE 0)

\* However requests overlap, overwrite each other's entries and push them
\* out of the cache: once nothing has changed for the long time to live the
\* document shows what GitHub has, and a gap that has been closed heals in
\* the short one, unless a lookup failed meanwhile (_ci_observe_native,
\* "retries soon").
SettledIsRight ==
    \A t \in Thread : Answered(t) =>
        /\ (Settled(t, Ttl) /\ Untroubled(t)) => req[t].native = Reference
        /\ (Settled(t, FailureTtl) /\ Untroubled(t) /\ Reference.status = "available") =>
              req[t].native.status = "available"

\* Results of another attempt than the one asked for carry the note that
\* says so, once the exporter and the artifact have caught up with the
\* latest attempt ("may be from a newer attempt than the capture").
MixupsExplained ==
    \A t \in Thread :
        (Answered(t) /\ Settled(t, Ttl) /\ rows.own = latest /\ req[t].native.of \in {0, latest}) =>
            req[t].native.of \in {0, req[t].attempt} \/ req[t].note
=============================================================================
