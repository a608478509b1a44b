------------------------ MODULE CaptureRegistryProofs ------------------------
(***************************************************************************)
(* Proofs about CaptureRegistry, for every set of runs, any number of      *)
(* sources and all time constants.                                         *)
(***************************************************************************)
EXTENDS CaptureRegistry, TLAPS

\* How the recorded times are ordered.
ClockInv == Start <= now /\ Start <= t /\ t <= now /\ reqNow <= now
RunInv ==
    /\ \A r \in Run : created[r] <= now /\ done[r] <= now
    /\ \A r \in Run : done[r] # Never => created[r] # Never
ArrivalInv ==
    \A s \in Source, r \in Run : arrived[s][r] # Never =>
        /\ created[r] # Never /\ created[r] <= arrived[s][r] /\ arrived[s][r] <= now
        /\ done[r] # Never => arrived[s][r] <= done[r] + Lag
AnswerInv ==
    /\ \A r \in Run : seen[r] <= t
    /\ \A s \in Source : lastOk[s] <= t /\ (lastOk[s] = Never => coverage[s] = Never)
TimesInv == ClockInv /\ RunInv /\ ArrivalInv /\ AnswerInv

\* While no refresh overlaps a request the database stays as the page saw it.
QuietInv ==
    req # "idle" /\ ~overlap =>
        /\ poll = "sleep" /\ t <= reqNow
        /\ captured = {r \in listed : seen[r] # Never}

\* What the request holds was true when it was read.
ListedInv == \A r \in listed : done[r] # Never /\ reqNow - created[r] <= HistoryKeep
SourceInv ==
    req \in {"counts", "done"} /\ ~overlap /\ source.ok # Never /\ source.from # Never
        => \A s \in Source : lastOk[s] >= source.ok
TableInv ==
    /\ req # "done" => table = None
    /\ \A r \in Run : table[r] = "not collected" =>
         /\ r \in listed /\ r \notin captured
         /\ reqNow - done[r] >= Grace /\ reqNow - source.ok <= Stale
         /\ source.ok # Never /\ source.from # Never
ReadInv == ListedInv /\ SourceInv /\ TableInv

Inv == TypeOK /\ TimesInv /\ QuietInv /\ ReadInv /\ QuietCardsMatchTable

\* Every capture within the retention of a source's last answer, and older than
\* it, is registered, on its way into the table, pruned by a later refresh, or
\* was dropped by the refresh that found it.
Due(s, r) ==
    /\ lastOk[s] # Never /\ arrived[s][r] # Never
    /\ arrived[s][r] < lastOk[s] /\ arrived[s][r] >= lastOk[s] - Retention
Registered(s, r) ==
    \/ seen[r] >= lastOk[s]
    \/ lastOk[s] < t - PruneAfter
    \/ poll \in {"fetch", "upsert"} /\ lastOk[s] = t /\ r \in found
    \/ r \in dropped
RegistryInv == \A s \in Source, r \in Run : Due(s, r) => Registered(s, r)

------------------------------------------------------------------------------

LEMMA ConstantTypes ==
    /\ NSource \in Nat \ {0} /\ Source = 1 .. NSource /\ 1 \in Source /\ Never = 0
    /\ Start \in Nat /\ End \in Nat /\ Lag \in Nat /\ Grace \in Nat /\ Stale \in Nat
    /\ Retention \in Nat /\ Margin \in Nat /\ Margin <= Retention /\ Start > Retention
    /\ PruneAfter \in Nat /\ HistoryKeep \in Nat
BY CaptureAssumption DEF Source, Never

LEMMA InitInv == Init => Inv /\ RegistryInv
<1> SUFFICES ASSUME Init PROVE Inv /\ RegistryInv
  OBVIOUS
<1>1. TypeOK
  BY ConstantTypes DEF Init, TypeOK, ClockType, WorldType, RegistryType, PollType, RequestType, NoSource,
     None, Verdicts
<1>2. TimesInv
  BY ConstantTypes DEF Init, TimesInv, ClockInv, RunInv, ArrivalInv, AnswerInv
<1>3. QuietInv /\ ReadInv /\ QuietCardsMatchTable
  BY DEF Init, QuietInv, ReadInv, ListedInv, SourceInv, TableInv, QuietCardsMatchTable, CardsMatchTable, None
<1>4. RegistryInv
  BY DEF Init, RegistryInv, Due
<1>5. QED BY <1>1, <1>2, <1>3, <1>4 DEF Inv

\* The runs and the clock move on; the database and the request do not.
LEMMA WorldInv ==
    ASSUME Inv, World PROVE Inv'
<1> USE ConstantTypes DEF Inv, TypeOK, TimesInv, ReadInv
<1>1. CASE Tick
  <2>1. ClockType'
    BY <1>1 DEF Tick, ClockType, runVars, dbVars, pollVars, reqVars
  <2>2. ClockInv'
    BY <1>1 DEF Tick, ClockInv, ClockType, runVars, dbVars, pollVars, reqVars
  <2>3. RunInv'
    BY <1>1 DEF Tick, RunInv, ClockInv, ClockType, WorldType, runVars, dbVars, pollVars, reqVars
  <2>4. ArrivalInv'
    BY <1>1 DEF Tick, ArrivalInv, RunInv, ClockType, WorldType, runVars, dbVars, pollVars, reqVars
  <2>5. WorldType' /\ RegistryType' /\ PollType' /\ RequestType' /\ AnswerInv' /\ QuietInv' /\
     ListedInv' /\ SourceInv' /\ TableInv' /\ QuietCardsMatchTable'
    BY <1>1 DEF Tick, WorldType, RegistryType, PollType, RequestType, AnswerInv, QuietInv,
       ListedInv, SourceInv, TableInv, QuietCardsMatchTable, CardsMatchTable, runVars, dbVars,
       pollVars, reqVars
  <2>6. QED BY <2>1, <2>2, <2>3, <2>4, <2>5
<1>2. ASSUME NEW r \in Run, RunStarts(r) PROVE Inv'
  <2>1. WorldType'
    BY <1>2 DEF RunStarts, WorldType, ClockType, runVars, dbVars, pollVars, reqVars
  <2>2. RunInv'
    BY <1>2 DEF RunStarts, RunInv, ClockInv, ClockType, WorldType, runVars, dbVars, pollVars,
       reqVars
  <2>3. ArrivalInv'
    BY <1>2 DEF RunStarts, ArrivalInv, RunInv, ClockType, WorldType, runVars, dbVars, pollVars,
       reqVars
  <2>4. ListedInv'
    BY <1>2 DEF RunStarts, ListedInv, RequestType, WorldType, RunInv, runVars, dbVars, pollVars,
       reqVars
  <2>5. ClockType' /\ RegistryType' /\ PollType' /\ RequestType' /\ ClockInv' /\ AnswerInv' /\
     QuietInv' /\ SourceInv' /\ TableInv' /\ QuietCardsMatchTable'
    BY <1>2 DEF RunStarts, ClockType, RegistryType, PollType, RequestType, ClockInv, AnswerInv,
       QuietInv, SourceInv, TableInv, QuietCardsMatchTable, CardsMatchTable, runVars, dbVars,
       pollVars, reqVars
  <2>6. QED BY <2>1, <2>2, <2>3, <2>4, <2>5
<1>3. ASSUME NEW r \in Run, RunFinishes(r) PROVE Inv'
  <2>1. WorldType'
    BY <1>3 DEF RunFinishes, WorldType, ClockType, runVars, dbVars, pollVars, reqVars
  <2>2. RunInv'
    BY <1>3 DEF RunFinishes, RunInv, ClockInv, ClockType, WorldType, runVars, dbVars, pollVars,
       reqVars
  <2>3. ArrivalInv'
    BY <1>3 DEF RunFinishes, ArrivalInv, RunInv, ClockType, WorldType, runVars, dbVars, pollVars,
       reqVars
  <2>4. ListedInv'
    BY <1>3 DEF RunFinishes, ListedInv, RequestType, WorldType, runVars, dbVars, pollVars, reqVars
  <2>5. TableInv'
    BY <1>3 DEF RunFinishes, TableInv, RequestType, ListedInv, ClockType, WorldType, runVars,
       dbVars, pollVars, reqVars
  <2>6. ClockType' /\ RegistryType' /\ PollType' /\ RequestType' /\ ClockInv' /\ AnswerInv' /\
     QuietInv' /\ SourceInv' /\ QuietCardsMatchTable'
    BY <1>3 DEF RunFinishes, ClockType, RegistryType, PollType, RequestType, ClockInv, AnswerInv,
       QuietInv, SourceInv, QuietCardsMatchTable, CardsMatchTable, runVars, dbVars, pollVars,
       reqVars
  <2>7. QED BY <2>1, <2>2, <2>3, <2>4, <2>5, <2>6
<1>4. ASSUME NEW r \in Run, NEW s \in Source, CaptureArrives(s, r) PROVE Inv'
  <2>1. WorldType'
    BY <1>4 DEF CaptureArrives, WorldType, ClockType, runVars, dbVars, pollVars, reqVars
  <2>2. ArrivalInv'
    BY <1>4 DEF CaptureArrives, ArrivalInv, RunInv, ClockType, WorldType, runVars, dbVars, pollVars,
       reqVars
  <2>3. ClockType' /\ RegistryType' /\ PollType' /\ RequestType' /\ ClockInv' /\ RunInv' /\
     AnswerInv' /\ QuietInv' /\ ListedInv' /\ SourceInv' /\ TableInv' /\ QuietCardsMatchTable'
    BY <1>4 DEF CaptureArrives, ClockType, RegistryType, PollType, RequestType, ClockInv, RunInv,
       AnswerInv, QuietInv, ListedInv, SourceInv, TableInv, QuietCardsMatchTable, CardsMatchTable,
       runVars, dbVars, pollVars, reqVars
  <2>4. QED BY <2>1, <2>2, <2>3
<1>5. QED BY <1>1, <1>2, <1>3, <1>4 DEF World

\* The poller writes the database only between StartRefresh and Prune, and a
\* request that sees any of it is marked.
LEMMA PollerInv ==
    ASSUME Inv, Poller PROVE Inv'
<1> USE ConstantTypes DEF Inv, TypeOK, TimesInv, ReadInv
<1>1. CASE StartRefresh
  <2>1. ClockType'
    BY <1>1 DEF StartRefresh, ClockType, runVars, dbVars, pollVars, reqVars
  <2>2. PollType'
    BY <1>1 DEF StartRefresh, PollType, runVars, dbVars, pollVars, reqVars
  <2>3. RequestType'
    BY <1>1 DEF StartRefresh, RequestType, ClockType, runVars, dbVars, pollVars, reqVars
  <2>4. ClockInv'
    BY <1>1 DEF StartRefresh, ClockInv, ClockType, runVars, dbVars, pollVars, reqVars
  <2>5. AnswerInv'
    BY <1>1 DEF StartRefresh, AnswerInv, ClockInv, ClockType, RegistryType, PollType, runVars,
       dbVars, pollVars, reqVars
  <2>6. QuietInv'
    BY <1>1 DEF StartRefresh, QuietInv, ClockInv, ClockType, PollType, RequestType, runVars, dbVars,
       pollVars, reqVars
  <2>7. SourceInv'
    BY <1>1 DEF StartRefresh, SourceInv, QuietInv, RequestType, AnswerInv, RegistryType, runVars,
       dbVars, pollVars, reqVars
  <2>8. QuietCardsMatchTable'
    BY <1>1 DEF StartRefresh, QuietCardsMatchTable, CardsMatchTable, QuietInv, TableInv, ListedInv,
       RequestType, None, runVars, dbVars, pollVars, reqVars
  <2>9. WorldType' /\ RegistryType' /\ RunInv' /\ ArrivalInv' /\ ListedInv' /\ TableInv'
    BY <1>1 DEF StartRefresh, WorldType, RegistryType, RunInv, ArrivalInv, ListedInv, TableInv,
       runVars, dbVars, pollVars, reqVars
  <2>10. QED BY <2>1, <2>2, <2>3, <2>4, <2>5, <2>6, <2>7, <2>8, <2>9
<1>2. CASE FetchSource
  <2>1. RegistryType'
    <3>1. t - (Retention - Margin) \in Nat
      BY DEF ClockType, ClockInv
    <3>2. QED BY <1>2, <3>1 DEF FetchSource, RecordSuccess, RegistryType, PollType, ClockType
  <2>2. PollType'
    BY <1>2 DEF FetchSource, RecordSuccess, NextSource, Answer, PollType, runVars, dbVars, pollVars, reqVars
  <2>3. AnswerInv'
    BY <1>2 DEF FetchSource, RecordSuccess, NextSource, Answer, AnswerInv, ClockInv, ClockType, RegistryType,
       PollType, runVars, dbVars, pollVars, reqVars
  <2>4. QuietInv'
    BY <1>2 DEF FetchSource, RecordSuccess, NextSource, Answer, QuietInv, ClockInv, ClockType, PollType,
       RequestType, runVars, dbVars, pollVars, reqVars
  <2>5. SourceInv'
    BY <1>2 DEF FetchSource, RecordSuccess, NextSource, Answer, SourceInv, QuietInv, RequestType, AnswerInv,
       RegistryType, runVars, dbVars, pollVars, reqVars
  <2>6. ClockType' /\ WorldType' /\ RequestType' /\ ClockInv' /\ RunInv' /\ ArrivalInv' /\
     ListedInv' /\ TableInv' /\ QuietCardsMatchTable'
    BY <1>2 DEF FetchSource, RecordSuccess, NextSource, Answer, ClockType, WorldType, RequestType, ClockInv,
       RunInv, ArrivalInv, ListedInv, TableInv, QuietCardsMatchTable, CardsMatchTable, runVars,
       dbVars, pollVars, reqVars
  <2>7. QED BY <2>1, <2>2, <2>3, <2>4, <2>5, <2>6
<1>3. CASE SourceFails
  <2>1. PollType'
    BY <1>3 DEF SourceFails, NextSource, PollType, runVars, dbVars, pollVars, reqVars
  <2>2. QuietInv'
    BY <1>3 DEF SourceFails, NextSource, QuietInv, ClockInv, ClockType, PollType, RequestType,
       runVars, dbVars, pollVars, reqVars
  <2>3. ClockType' /\ WorldType' /\ RegistryType' /\ RequestType' /\ ClockInv' /\ RunInv' /\
     ArrivalInv' /\ AnswerInv' /\ ListedInv' /\ SourceInv' /\ TableInv' /\ QuietCardsMatchTable'
    BY <1>3 DEF SourceFails, NextSource, ClockType, WorldType, RegistryType, RequestType, ClockInv,
       RunInv, ArrivalInv, AnswerInv, ListedInv, SourceInv, TableInv, QuietCardsMatchTable,
       CardsMatchTable, runVars, dbVars, pollVars, reqVars
  <2>4. QED BY <2>1, <2>2, <2>3
<1>4. CASE UpsertCaptures
  <2>1. RegistryType'
    BY <1>4 DEF UpsertCaptures, RegistryType, PollType, ClockType, ClockInv, runVars, dbVars,
       pollVars, reqVars
  <2>2. PollType'
    BY <1>4 DEF UpsertCaptures, PollType, runVars, dbVars, pollVars, reqVars
  <2>3. AnswerInv'
    BY <1>4 DEF UpsertCaptures, AnswerInv, ClockInv, ClockType, RegistryType, PollType, runVars,
       dbVars, pollVars, reqVars
  <2>4. QuietInv'
    BY <1>4 DEF UpsertCaptures, QuietInv, ClockInv, ClockType, PollType, RequestType, runVars,
       dbVars, pollVars, reqVars
  <2>5. ClockType' /\ WorldType' /\ RequestType' /\ ClockInv' /\ RunInv' /\ ArrivalInv' /\
     ListedInv' /\ SourceInv' /\ TableInv' /\ QuietCardsMatchTable'
    BY <1>4 DEF UpsertCaptures, ClockType, WorldType, RequestType, ClockInv, RunInv, ArrivalInv,
       ListedInv, SourceInv, TableInv, QuietCardsMatchTable, CardsMatchTable, runVars, dbVars,
       pollVars, reqVars
  <2>6. QED BY <2>1, <2>2, <2>3, <2>4, <2>5
<1>5. CASE Prune
  <2>1. RegistryType'
    BY <1>5 DEF Prune, EndRefresh, Expired, RegistryType, PollType, ClockType, ClockInv, runVars,
       dbVars, pollVars, reqVars
  <2>2. PollType'
    BY <1>5 DEF Prune, EndRefresh, Expired, PollType, runVars, dbVars, pollVars, reqVars
  <2>3. AnswerInv'
    BY <1>5 DEF Prune, EndRefresh, Expired, AnswerInv, ClockInv, ClockType, RegistryType, PollType,
       runVars, dbVars, pollVars, reqVars
  <2>4. QuietInv'
    BY <1>5 DEF Prune, EndRefresh, Expired, QuietInv, ClockInv, ClockType, PollType, RequestType,
       runVars, dbVars, pollVars, reqVars
  <2>5. ClockType' /\ WorldType' /\ RequestType' /\ ClockInv' /\ RunInv' /\ ArrivalInv' /\
     ListedInv' /\ SourceInv' /\ TableInv' /\ QuietCardsMatchTable'
    BY <1>5 DEF Prune, EndRefresh, Expired, ClockType, WorldType, RequestType, ClockInv, RunInv,
       ArrivalInv, ListedInv, SourceInv, TableInv, QuietCardsMatchTable, CardsMatchTable, runVars,
       dbVars, pollVars, reqVars
  <2>6. QED BY <2>1, <2>2, <2>3, <2>4, <2>5
<1>6. CASE WriteFails
  <2>1. PollType'
    BY <1>6 DEF WriteFails, DropRefresh, EndRefresh, PollType, runVars, dbVars, pollVars, reqVars
  <2>2. QuietInv'
    BY <1>6 DEF WriteFails, DropRefresh, EndRefresh, QuietInv, ClockInv, ClockType, PollType, RequestType,
       runVars, dbVars, pollVars, reqVars
  <2>3. ClockType' /\ WorldType' /\ RegistryType' /\ RequestType' /\ ClockInv' /\ RunInv' /\
     ArrivalInv' /\ AnswerInv' /\ ListedInv' /\ SourceInv' /\ TableInv' /\ QuietCardsMatchTable'
    BY <1>6 DEF WriteFails, DropRefresh, EndRefresh, ClockType, WorldType, RegistryType, RequestType, ClockInv,
       RunInv, ArrivalInv, AnswerInv, ListedInv, SourceInv, TableInv, QuietCardsMatchTable,
       CardsMatchTable, runVars, dbVars, pollVars, reqVars
  <2>4. QED BY <2>1, <2>2, <2>3
<1>7. QED BY <1>1, <1>2, <1>3, <1>4, <1>5, <1>6 DEF Poller

\* The summary is no newer than any source's last answer.
LEMMA RequestInv ==
    ASSUME Inv, Request PROVE Inv'
<1> USE ConstantTypes DEF Inv, TypeOK, TimesInv, ReadInv
<1>1. CASE ReadPage
  <2>1. ClockType'
    BY <1>1 DEF ReadPage, InHistory, ClockType, runVars, dbVars, pollVars, reqVars
  <2>2. RequestType'
    BY <1>1 DEF ReadPage, InHistory, RequestType, ClockType, runVars, dbVars, pollVars, reqVars
  <2>3. ClockInv'
    BY <1>1 DEF ReadPage, InHistory, ClockInv, ClockType, runVars, dbVars, pollVars, reqVars
  <2>4. QuietInv'
    BY <1>1 DEF ReadPage, InHistory, QuietInv, ClockInv, ClockType, PollType, RequestType, runVars,
       dbVars, pollVars, reqVars
  <2>5. ListedInv'
    BY <1>1 DEF ReadPage, InHistory, ListedInv, RequestType, WorldType, ClockType, runVars, dbVars,
       pollVars, reqVars
  <2>6. SourceInv'
    BY <1>1 DEF ReadPage, InHistory, SourceInv, QuietInv, RequestType, AnswerInv, RegistryType,
       runVars, dbVars, pollVars, reqVars
  <2>7. TableInv'
    BY <1>1 DEF ReadPage, InHistory, TableInv, RequestType, ListedInv, ClockType, WorldType, None,
       runVars, dbVars, pollVars, reqVars
  <2>8. QuietCardsMatchTable'
    BY <1>1 DEF ReadPage, InHistory, QuietCardsMatchTable, CardsMatchTable, QuietInv, TableInv,
       ListedInv, RequestType, None, runVars, dbVars, pollVars, reqVars
  <2>9. WorldType' /\ RegistryType' /\ PollType' /\ RunInv' /\ ArrivalInv' /\ AnswerInv'
    BY <1>1 DEF ReadPage, InHistory, WorldType, RegistryType, PollType, RunInv, ArrivalInv,
       AnswerInv, runVars, dbVars, pollVars, reqVars
  <2>10. QED BY <2>1, <2>2, <2>3, <2>4, <2>5, <2>6, <2>7, <2>8, <2>9
<1>2. CASE ReadSource
  <2>1. RequestType'
    BY <1>2 DEF ReadSource, Summaries, Summary, RequestType, ClockType, RegistryType, runVars,
       dbVars, pollVars, reqVars
  <2>2. QuietInv'
    BY <1>2 DEF ReadSource, Summaries, Summary, QuietInv, ClockInv, ClockType, PollType,
       RequestType, runVars, dbVars, pollVars, reqVars
  <2>3. ListedInv'
    BY <1>2 DEF ReadSource, Summaries, Summary, ListedInv, RequestType, WorldType, runVars, dbVars,
       pollVars, reqVars
  <2>4. SourceInv'
    <3>1. SUFFICES ASSUME source'.ok # Never, source'.from # Never, NEW s \in Source
                   PROVE lastOk[s] >= source'.ok
      BY <1>2 DEF ReadSource, SourceInv, dbVars
    <3>2. Summary(source')
      BY <1>2 DEF ReadSource
    <3>3. coverage[s] # Never
      BY <3>1, <3>2 DEF Summary
    <3>4. lastOk[s] # Never /\ lastOk[s] \in Nat
      BY <3>3 DEF AnswerInv, RegistryType
    <3>5. source'.ok <= lastOk[s]
      BY <3>2, <3>4 DEF Summary
    <3>6. source'.ok \in Nat
      BY <2>1 DEF RequestType
    <3>7. QED BY <3>4, <3>5, <3>6
  <2>5. TableInv'
    BY <1>2 DEF ReadSource, Summaries, Summary, TableInv, RequestType, ListedInv, ClockType,
       WorldType, None, runVars, dbVars, pollVars, reqVars
  <2>6. QuietCardsMatchTable'
    BY <1>2 DEF ReadSource, Summaries, Summary, QuietCardsMatchTable, CardsMatchTable, QuietInv,
       TableInv, ListedInv, RequestType, None, runVars, dbVars, pollVars, reqVars
  <2>7. ClockType' /\ WorldType' /\ RegistryType' /\ PollType' /\ ClockInv' /\ RunInv' /\
     ArrivalInv' /\ AnswerInv'
    BY <1>2 DEF ReadSource, Summaries, Summary, ClockType, WorldType, RegistryType, PollType,
       ClockInv, RunInv, ArrivalInv, AnswerInv, runVars, dbVars, pollVars, reqVars
  <2>8. QED BY <2>1, <2>2, <2>3, <2>4, <2>5, <2>6, <2>7
<1>3. CASE ReadCounts
  <2>1. RequestType'
    BY <1>3 DEF ReadCounts, VerdictsOf, Verdict, InHistory, RequestType, ClockType, Verdicts,
       runVars, dbVars, pollVars, reqVars
  <2>2. QuietInv'
    BY <1>3 DEF ReadCounts, VerdictsOf, Verdict, InHistory, QuietInv, ClockInv, ClockType, PollType,
       RequestType, runVars, dbVars, pollVars, reqVars
  <2>3. ListedInv'
    BY <1>3 DEF ReadCounts, VerdictsOf, Verdict, InHistory, ListedInv, RequestType, WorldType,
       runVars, dbVars, pollVars, reqVars
  <2>4. SourceInv'
    BY <1>3 DEF ReadCounts, VerdictsOf, Verdict, InHistory, SourceInv, QuietInv, RequestType,
       AnswerInv, RegistryType, runVars, dbVars, pollVars, reqVars
  <2>5. TableInv'
    <3>1. SUFFICES ASSUME NEW r \in Run, table'[r] = "not collected"
                   PROVE /\ r \in listed /\ r \notin captured
                         /\ reqNow - done[r] >= Grace /\ reqNow - source.ok <= Stale
                         /\ source.ok # Never /\ source.from # Never
      BY <1>3 DEF ReadCounts, TableInv, runVars
    <3>2. r \in listed /\ Verdict(r \in captured, r, source, reqNow) = "not collected"
      BY <1>3, <3>1 DEF ReadCounts, VerdictsOf
    <3>3. reqNow \in Nat /\ done[r] \in Nat /\ source.ok \in Nat
      BY DEF ClockType, WorldType, RequestType
    <3>4. QED BY <3>2, <3>3 DEF Verdict
  <2>6. QuietCardsMatchTable'
    BY <1>3 DEF ReadCounts, VerdictsOf, Verdict, InHistory, QuietCardsMatchTable, CardsMatchTable,
       QuietInv, TableInv, ListedInv, RequestType, None, runVars, dbVars, pollVars, reqVars
  <2>7. ClockType' /\ WorldType' /\ RegistryType' /\ PollType' /\ ClockInv' /\ RunInv' /\
     ArrivalInv' /\ AnswerInv'
    BY <1>3 DEF ReadCounts, VerdictsOf, Verdict, InHistory, ClockType, WorldType, RegistryType,
       PollType, ClockInv, RunInv, ArrivalInv, AnswerInv, runVars, dbVars, pollVars, reqVars
  <2>8. QED BY <2>1, <2>2, <2>3, <2>4, <2>5, <2>6, <2>7
<1>4. CASE Respond
  <2>1. ClockType'
    BY <1>4 DEF Respond, ReqClear, ClockType, runVars, dbVars, pollVars, reqVars
  <2>2. RequestType'
    BY <1>4 DEF Respond, ReqClear, RequestType, ClockType, None, NoSource, Verdicts, runVars,
       dbVars, pollVars, reqVars
  <2>3. ClockInv'
    BY <1>4 DEF Respond, ReqClear, ClockInv, ClockType, runVars, dbVars, pollVars, reqVars
  <2>4. QuietInv'
    BY <1>4 DEF Respond, ReqClear, QuietInv, ClockInv, ClockType, PollType, RequestType, runVars,
       dbVars, pollVars, reqVars
  <2>5. ListedInv'
    BY <1>4 DEF Respond, ReqClear, ListedInv, RequestType, WorldType, runVars, dbVars, pollVars,
       reqVars
  <2>6. SourceInv'
    BY <1>4 DEF Respond, ReqClear, SourceInv, QuietInv, RequestType, AnswerInv, RegistryType, None,
       NoSource, Verdicts, runVars, dbVars, pollVars, reqVars
  <2>7. TableInv'
    BY <1>4 DEF Respond, ReqClear, TableInv, RequestType, ListedInv, ClockType, WorldType, None,
       NoSource, Verdicts, runVars, dbVars, pollVars, reqVars
  <2>8. QuietCardsMatchTable'
    BY <1>4 DEF Respond, ReqClear, QuietCardsMatchTable, CardsMatchTable, QuietInv, TableInv,
       ListedInv, RequestType, None, runVars, dbVars, pollVars, reqVars
  <2>9. WorldType' /\ RegistryType' /\ PollType' /\ RunInv' /\ ArrivalInv' /\ AnswerInv'
    BY <1>4 DEF Respond, ReqClear, WorldType, RegistryType, PollType, RunInv, ArrivalInv, AnswerInv,
       runVars, dbVars, pollVars, reqVars
  <2>10. QED BY <2>1, <2>2, <2>3, <2>4, <2>5, <2>6, <2>7, <2>8, <2>9
<1>5. QED BY <1>1, <1>2, <1>3, <1>4 DEF Request

LEMMA CrashInv ==
    ASSUME Inv, Crash PROVE Inv'
<1> USE ConstantTypes DEF Inv, TypeOK, TimesInv, ReadInv, Crash
<1>1. ClockType'
  BY ConstantTypes DEF DropRefresh, EndRefresh, ReqClear, ClockType, runVars, dbVars, pollVars, reqVars
<1>2. PollType'
  BY ConstantTypes DEF DropRefresh, EndRefresh, ReqClear, PollType, runVars, dbVars, pollVars, reqVars
<1>3. RequestType'
  <2>1. overlap' \in BOOLEAN
    BY DEF ReqClear
  <2>2. QED BY <2>1 DEF ReqClear, RequestType, None, NoSource, Verdicts
<1>4. ClockInv'
  BY ConstantTypes DEF DropRefresh, EndRefresh, ReqClear, ClockInv, ClockType, runVars, dbVars, pollVars, reqVars
<1>5. QuietInv'
  BY ConstantTypes DEF DropRefresh, EndRefresh, ReqClear, QuietInv, ClockInv, ClockType, PollType, RequestType,
     runVars, dbVars, pollVars, reqVars
<1>6. ListedInv'
  BY ConstantTypes DEF DropRefresh, EndRefresh, ReqClear, ListedInv, RequestType, WorldType, runVars, dbVars,
     pollVars, reqVars
<1>7. SourceInv'
  BY ConstantTypes DEF DropRefresh, EndRefresh, ReqClear, SourceInv, QuietInv, RequestType, AnswerInv,
     RegistryType, None, NoSource, Verdicts, runVars, dbVars, pollVars, reqVars
<1>8. TableInv'
  BY ConstantTypes DEF DropRefresh, EndRefresh, ReqClear, TableInv, RequestType, ListedInv, ClockType, WorldType,
     None, NoSource, Verdicts, runVars, dbVars, pollVars, reqVars
<1>9. QuietCardsMatchTable'
  BY ConstantTypes DEF DropRefresh, EndRefresh, ReqClear, QuietCardsMatchTable, CardsMatchTable, QuietInv,
     TableInv, ListedInv, RequestType, None, runVars, dbVars, pollVars, reqVars
<1>10. WorldType' /\ RegistryType' /\ RunInv' /\ ArrivalInv' /\ AnswerInv'
  BY ConstantTypes DEF DropRefresh, EndRefresh, ReqClear, WorldType, RegistryType, RunInv, ArrivalInv, AnswerInv,
     runVars, dbVars, pollVars, reqVars
<1>11. QED BY <1>1, <1>2, <1>3, <1>4, <1>5, <1>6, <1>7, <1>8, <1>9, <1>10

LEMMA StepInv == Inv /\ [Next]_vars => Inv'
<1> SUFFICES ASSUME Inv, [Next]_vars PROVE Inv'
  OBVIOUS
<1>1. CASE UNCHANGED vars
  <2>1. (TypeOK /\ TimesInv)'
    BY <1>1 DEF Inv, vars, runVars, dbVars, pollVars, reqVars, TypeOK, ClockType, WorldType, RegistryType,
       PollType, RequestType, TimesInv, ClockInv, RunInv, ArrivalInv, AnswerInv
  <2>2. (QuietInv /\ ReadInv /\ QuietCardsMatchTable)'
    BY <1>1 DEF Inv, vars, runVars, dbVars, pollVars, reqVars, QuietInv, ReadInv, ListedInv, SourceInv,
       TableInv, QuietCardsMatchTable, CardsMatchTable
  <2>3. QED BY <2>1, <2>2 DEF Inv
<1>2. QED BY <1>1, WorldInv, PollerInv, RequestInv, CrashInv DEF Next

------------------------------------------------------------------------------
(* The registry is as complete as last_ok_at says *)

\* The time constants fit together (the code: HistoryKeep = Retention = PruneAfter
\* = 30 days, Stale = 900 seconds).
Sound == HistoryKeep <= Retention /\ Stale <= PruneAfter

\* A capture that arrives now is not older than any answer.
LEMMA WorldRegistry ==
    ASSUME Inv, RegistryInv, World PROVE RegistryInv'
<1> SUFFICES ASSUME NEW s \in Source, NEW r \in Run, Due(s, r)' PROVE Registered(s, r)'
  BY DEF RegistryInv, Due, Registered
<1>1. UNCHANGED <<dbVars, pollVars>>
  BY DEF World, Tick, RunStarts, RunFinishes, CaptureArrives
<1>2. Due(s, r)
  <2>1. CASE UNCHANGED arrived
    BY <1>1, <2>1 DEF Due, dbVars
  <2>2. ASSUME NEW s1 \in Source, NEW r1 \in Run, CaptureArrives(s1, r1) PROVE Due(s, r)
    <3>1. CASE s1 = s /\ r1 = r
      <4>1. arrived'[s][r] = now
        BY <2>2, <3>1 DEF CaptureArrives, Inv, TypeOK, WorldType
      <4>2. lastOk[s] <= now
        BY DEF Inv, TypeOK, ClockType, RegistryType, TimesInv, ClockInv, AnswerInv
      <4>3. lastOk[s] \in Nat /\ now \in Nat
        BY DEF Inv, TypeOK, ClockType, RegistryType
      <4>4. QED BY <1>1, <4>1, <4>2, <4>3 DEF Due, dbVars
    <3>2. CASE s1 # s \/ r1 # r
      <4>1. arrived'[s][r] = arrived[s][r]
        BY <2>2, <3>2 DEF CaptureArrives, Inv, TypeOK, WorldType
      <4>2. QED BY <1>1, <4>1 DEF Due, dbVars
    <3>3. QED BY <3>1, <3>2
  <2>3. QED BY <2>1, <2>2 DEF World, Tick, RunStarts, RunFinishes, runVars
<1>3. QED BY <1>1, <1>2 DEF RegistryInv, Due, Registered, dbVars, pollVars

\* A refresh takes what a source answers all the way into the table, or drops it.
LEMMA PollerRegistry ==
    ASSUME Inv, RegistryInv, Poller \/ Crash PROVE RegistryInv'
<1> SUFFICES ASSUME NEW s \in Source, NEW r \in Run, Due(s, r)' PROVE Registered(s, r)'
  BY DEF RegistryInv, Due, Registered
<1> USE ConstantTypes
<1>0. /\ now \in Nat /\ t \in Nat /\ t <= now /\ seen \in [Run -> Nat] /\ seen[r] \in Nat /\ seen[r] <= t
      /\ lastOk \in [Source -> Nat] /\ lastOk[s] \in Nat /\ lastOk[s] <= t /\ arrived[s][r] \in Nat
      /\ at \in Source
  BY DEF Inv, TypeOK, ClockType, WorldType, RegistryType, PollType, TimesInv, ClockInv, AnswerInv
<1>1. Due(s, r) => Registered(s, r)
  BY DEF RegistryInv, Due, Registered
<1>2. CASE StartRefresh
  BY <1>0, <1>1, <1>2 DEF StartRefresh, runVars, dbVars, Due, Registered
<1>3. CASE FetchSource
  <2>1. PICK set \in Answer(at) : found' = found \cup set
    BY <1>3 DEF FetchSource, RecordSuccess
  <2>2. CASE s = at
    <3>1. lastOk'[s] = t /\ arrived' = arrived
      BY <1>0, <1>3, <2>2 DEF FetchSource, RecordSuccess, runVars
    <3>2. r \in set
      BY <1>0, <2>1, <2>2, <3>1 DEF Answer, Due
    <3>3. QED BY <1>3, <2>1, <3>1, <3>2 DEF FetchSource, RecordSuccess, NextSource, Registered
  <2>3. CASE s # at
    <3>1. lastOk'[s] = lastOk[s] /\ Registered(s, r)
      BY <1>0, <1>1, <1>3, <2>3 DEF FetchSource, RecordSuccess, runVars, Due
    <3>2. QED BY <1>3, <2>1, <3>1 DEF FetchSource, RecordSuccess, NextSource, Registered
  <2>4. QED BY <2>2, <2>3
<1>4. CASE SourceFails
  BY <1>1, <1>4 DEF SourceFails, NextSource, runVars, dbVars, Due, Registered
<1>5. CASE UpsertCaptures
  <2>1. Registered(s, r) /\ lastOk'[s] = lastOk[s] /\ t' = t /\ seen' = [x \in Run |-> IF x \in found THEN t ELSE seen[x]]
    BY <1>1, <1>5 DEF UpsertCaptures, runVars, Due
  <2>2. CASE r \in found
    BY <1>0, <2>1, <2>2 DEF Registered
  <2>3. CASE r \notin found
    BY <1>0, <1>5, <2>1, <2>3 DEF UpsertCaptures, Registered
  <2>4. QED BY <2>2, <2>3
<1>6. CASE Prune
  <2>1. Registered(s, r) /\ poll = "prune" /\ lastOk'[s] = lastOk[s] /\ t' = t /\ dropped' = dropped
    BY <1>1, <1>6 DEF Prune, runVars, Due
  <2>2. CASE r \in Expired
    BY <1>0, <2>1, <2>2 DEF Expired, Registered
  <2>3. CASE r \notin Expired
    BY <1>0, <1>6, <2>1, <2>3 DEF Prune, Registered
  <2>4. QED BY <2>2, <2>3
<1>7. CASE WriteFails \/ Crash
  BY <1>1, <1>7 DEF WriteFails, Crash, DropRefresh, runVars, dbVars, Due, Registered
<1>8. QED BY <1>2, <1>3, <1>4, <1>5, <1>6, <1>7 DEF Poller

LEMMA StepRegistry == Inv /\ RegistryInv /\ [Next]_vars => RegistryInv'
<1> SUFFICES ASSUME Inv, RegistryInv, [Next]_vars PROVE RegistryInv'
  OBVIOUS
<1>1. CASE UNCHANGED <<runVars, dbVars, pollVars>>
  BY <1>1 DEF RegistryInv, Due, Registered, runVars, dbVars, pollVars
<1>2. UNCHANGED vars \/ Request => UNCHANGED <<runVars, dbVars, pollVars>>
  BY DEF vars, Request, ReadPage, ReadSource, ReadCounts, Respond, pollVars
<1>3. QED BY <1>1, <1>2, WorldRegistry, PollerRegistry DEF Next

\* The arithmetic of it: created c, arrival a, request q, its oldest answer o, the
\* source's last answer l, the last refresh u.
LEMMA TimesFit ==
    ASSUME NEW c \in Nat, NEW a \in Nat, NEW q \in Nat, NEW o \in Nat, NEW l \in Nat, NEW u \in Nat,
           HistoryKeep <= Retention, l >= o, l <= u, u <= q, q - c <= HistoryKeep, c <= a, ~(a >= o)
    PROVE  a < l /\ a >= l - Retention
BY ConstantTypes

LEMMA NotPruned ==
    ASSUME NEW q \in Nat, NEW o \in Nat, NEW l \in Nat, NEW u \in Nat, Stale <= PruneAfter,
           o # Never, q - o <= Stale, l >= o, u <= q
    PROVE  l # Never /\ ~(l < u - PruneAfter)
BY ConstantTypes

\* Telemetry that had arrived by the oldest last answer is within the source's
\* retention, so it would be in the table.
LEMMA AbsenceFromInv ==
    ASSUME Sound, Inv, RegistryInv PROVE QuietAbsenceAsAnswered
<1> USE ConstantTypes
<1>1. SUFFICES ASSUME ~overlap, NEW r \in Run, table[r] = "not collected", r \notin dropped,
                      NEW s \in Source, arrived[s][r] # Never, ~(arrived[s][r] >= source.ok)
               PROVE FALSE
  BY DEF QuietAbsenceAsAnswered, AbsenceAsAnswered
<1>2. /\ req = "done" /\ r \in listed /\ r \notin captured
      /\ reqNow - source.ok <= Stale
      /\ source.ok # Never /\ source.from # Never
  BY <1>1 DEF Inv, ReadInv, TableInv, None
<1>3. poll = "sleep" /\ t <= reqNow /\ seen[r] = Never
  BY <1>1, <1>2 DEF Inv, QuietInv
<1>4. lastOk[s] >= source.ok /\ reqNow - created[r] <= HistoryKeep
  BY <1>1, <1>2 DEF Inv, ReadInv, SourceInv, ListedInv
<1>5. created[r] <= arrived[s][r]
  BY <1>1 DEF Inv, TimesInv, ArrivalInv
<1>6. /\ reqNow \in Nat /\ t \in Nat /\ created[r] \in Nat
      /\ arrived[s][r] \in Nat /\ lastOk[s] \in Nat /\ source.ok \in Nat /\ lastOk[s] <= t
  BY DEF Inv, TypeOK, ClockType, WorldType, RegistryType, RequestType, TimesInv, AnswerInv
<1>7. HistoryKeep <= Retention /\ Stale <= PruneAfter
  BY DEF Sound
<1>8. arrived[s][r] < lastOk[s] /\ arrived[s][r] >= lastOk[s] - Retention
  BY <1>1, <1>3, <1>4, <1>5, <1>6, <1>7, TimesFit
<1>9. lastOk[s] # Never /\ ~(lastOk[s] < t - PruneAfter)
  BY <1>2, <1>3, <1>4, <1>6, <1>7, NotPruned
<1>10. seen[r] >= lastOk[s]
  BY <1>1, <1>3, <1>8, <1>9 DEF RegistryInv, Due, Registered
<1>11. QED BY <1>3, <1>6, <1>9, <1>10

------------------------------------------------------------------------------
(* The theorems *)

\* Every variable of the registry and of the request keeps its type.
THEOREM RegistryTypeCorrect == Spec => []TypeOK
<1>1. Inv => TypeOK BY DEF Inv
<1>2. QED BY InitInv, StepInv, <1>1, PTL DEF Spec

\* A request that no refresh overlaps counts a run on the cards as the table
\* shows it, whatever fails or crashes.
THEOREM QuietCardsAgree == Spec => []QuietCardsMatchTable
<1>1. Inv => QuietCardsMatchTable BY DEF Inv
<1>2. QED BY InitInv, StepInv, <1>1, PTL DEF Spec

\* Whatever source, write or refresh fails: when a request that no refresh overlaps
\* answers "not collected" of a run, no telemetry of it had arrived when the oldest
\* of the answers it rests on was asked for, unless a refresh that found the run's
\* telemetry was cut off before it stored it (verdict, source_summary).
THEOREM AbsenceRestsOnAnswers ==
    ASSUME Sound PROVE Spec => []QuietAbsenceAsAnswered
<1>1. Inv /\ RegistryInv => QuietAbsenceAsAnswered BY AbsenceFromInv
<1>2. Inv /\ RegistryInv /\ [Next]_vars => RegistryInv' BY StepRegistry
<1>3. QED BY InitInv, StepInv, <1>1, <1>2, PTL DEF Spec

\* An identity stays with its capture until the capture is pruned.
THEOREM IdentityStays == Spec => IdentityKept
<1>1. ASSUME [Next]_vars PROVE [\A r \in identity : r \in identity' \/ seen'[r] = Never]_vars
  <2>1. CASE Prune
    <3>1. SUFFICES ASSUME NEW r \in identity PROVE r \in identity' \/ seen'[r] = Never
      OBVIOUS
    <3>2. CASE r \in Expired
      BY <2>1, <3>2 DEF Prune, Expired
    <3>3. QED BY <2>1, <3>2 DEF Prune
  <2>2. CASE UpsertCaptures
    BY <2>2 DEF UpsertCaptures
  <2>3. CASE UNCHANGED identity
    BY <2>3
  <2>4. QED
    BY <1>1, <2>1, <2>2, <2>3 DEF Next, World, Tick, RunStarts, RunFinishes, CaptureArrives, Poller,
       StartRefresh, FetchSource, SourceFails, WriteFails, Request, ReadPage, ReadSource, ReadCounts,
       Respond, Crash, vars, dbVars
<1>2. QED BY <1>1, PTL DEF Spec, IdentityKept
====
