---------------------------- MODULE RuntimeStores ----------------------------
(***************************************************************************)
(* The append-only stores beside the decision history: metric observations *)
(* and collection events (state/metrics.py, engine/metric_normalization.py *)
(* persist_metric_result), exchange fills (state/fills.py) and cash-flow   *)
(* resolutions (state/cash_flows.py).                                      *)
(*                                                                         *)
(* Every writer reads its file, decides on what it read, and appends; the  *)
(* lock of _jsonl.py covers one read or one append, so a session may be    *)
(* overtaken, or killed, between them, or killed inside the append.  A     *)
(* result may be handed in late or a second time, and an exchange page may *)
(* repeat a fill.                                                          *)
(*                                                                         *)
(* A file is the sequence of its lines that parse (JsonlFile has them all) *)
(* and two marks: it ends in a fragment, or a fragment has swallowed the   *)
(* line appended next.  A file with either mark is refused as a whole.     *)
(*                                                                         *)
(* One (asset, metric, observed_at, source, period) point is modelled: its *)
(* observation_id is a hash of the point and the value and leaves out      *)
(* fetched_at, so the value stands for the id.                             *)
(***************************************************************************)
EXTENDS Integers, Sequences, FiniteSets

CONSTANTS
    Session,          \* host processes that share the runtime directory
    Values,           \* values the provider may report for the point
    Pages,            \* fill batches: sequences of dedup keys
    Resolutions,      \* [id, snapshot, cause] records a user may confirm
    MaxFetches,       \* bound: provider answers
    MaxJobs,          \* bound: jobs begun
    None

Elements(seq) == {seq[i] : i \in DOMAIN seq}

ASSUME StoresAssumption ==
    /\ None \notin Values
    /\ IsFiniteSet(Session)
    /\ \A page \in Pages : page \in Seq(Elements(page))
    /\ MaxFetches \in Nat /\ MaxJobs \in Nat

VARIABLES
    observations,     \* metrics/observations.jsonl
    events,           \* metrics/collection-events.jsonl, the SUCCESS lines
    fills,            \* fills/trades.jsonl, the dedup keys
    resolutions,      \* portfolio/cash-flow-resolutions.jsonl
    answers,          \* the results providers have returned so far
    job,              \* what each session is doing
    jobs,             \* jobs begun so far
    raced,            \* history: the stores two sessions have used at once
    torn,             \* the files that end in an unfinished line
    spoiled           \* the files with a line that joined two records

tails == <<torn, spoiled>>
vars == <<observations, events, fills, resolutions, answers, job, jobs, raced, torn, spoiled>>

Answers == [value : Values, at : 1..MaxFetches]
Observations == [value : Values, at : 1..MaxFetches, supersedes : Values \cup {None}]

Idle == [kind |-> "idle"]
InProgress(j) == j.kind # "idle" /\ j.pc # "done"

-----------------------------------------------------------------------------
(* Reading and appending.                                                  *)

Files == {"observations", "events", "fills", "resolutions"}

\* Mutant: a reader that drops an unfinished last line.
ReadableFragment(file) == file \notin spoiled

\* read_records raises on a missing final newline and on any line that is
\* no record.
Readable(file) == file \notin torn /\ file \notin spoiled

\* append_record never looks at the tail: its line continues a fragment, and
\* the joined line parses as neither record.
Appended(file, lines, line) == IF file \in torn THEN lines ELSE Append(lines, line)

LineEnds(file) ==
    /\ torn' = torn \ {file}
    /\ spoiled' = IF file \in torn THEN spoiled \cup {file} ELSE spoiled

-----------------------------------------------------------------------------
(* Metric observations.                                                    *)

\* latest_same_point_observation: max by fetched_at, the first of equals.
LatestSamePoint(file) ==
    file[CHOOSE i \in DOMAIN file : \A j \in DOMAIN file :
            \/ file[j].at < file[i].at
            \/ file[j].at = file[i].at /\ i <= j]

\* Mutant: the revision names the first line of the point.
SupersedesTheFirst(file, value) ==
    IF file = <<>> \/ LatestSamePoint(file).value = value THEN None ELSE file[1].value

\* _mark_same_point_revision: a changed value supersedes the newest one.
Supersedes(file, value) ==
    IF file = <<>> \/ LatestSamePoint(file).value = value
    THEN None
    ELSE LatestSamePoint(file).value

\* Mutant: the refusal is taken for a duplicate.
VerdictWithoutRefusal(file, value, supersedes) ==
    LET stored == {o.value : o \in Elements(file)}
    IN  IF value \in stored \/ (stored # {} /\ supersedes \notin stored) THEN "known" ELSE "new"

\* append_metric_observation on what it reads: a known id returns silently,
\* a point somebody else has just created is refused.
Verdict(file, value, supersedes) ==
    LET stored == {o.value : o \in Elements(file)}
    IN  CASE value \in stored -> "known"
          [] value \notin stored /\ stored # {} /\ supersedes \notin stored -> "refused"
          [] OTHER -> "new"

-----------------------------------------------------------------------------
(* What a session may start.                                               *)

Start(s, kind, j) ==
    /\ ~InProgress(job[s])
    /\ jobs < MaxJobs
    /\ jobs' = jobs + 1
    /\ job' = [job EXCEPT ![s] = j]
    /\ raced' = IF \E t \in Session \ {s} : InProgress(job[t]) /\ job[t].kind = kind
                THEN raced \cup {kind} ELSE raced

Persist(s, a) ==
    /\ Start(s, "collect", [kind |-> "collect", pc |-> "mark", value |-> a.value,
                            at |-> a.at, supersedes |-> None])
    /\ UNCHANGED <<observations, events, fills, resolutions, tails>>

\* A provider answers, with whatever the point is worth to it now, and
\* persist_metric_result begins.
Collect(s, v) ==
    LET a == [value |-> v, at |-> Cardinality(answers) + 1] IN
    /\ a.at <= MaxFetches
    /\ answers' = answers \cup {a}
    /\ Persist(s, a)

\* The same result is handed in again.
Resubmit(s, a) == Persist(s, a) /\ UNCHANGED answers

\* append_fills reads the known keys once, before the first append; a file
\* it cannot read raises, and nothing has happened.
Import(s, page) ==
    /\ Readable("fills")
    /\ Start(s, "import", [kind |-> "import", pc |-> "append", page |-> page,
                           todo |-> page, existing |-> Elements(fills)])
    /\ UNCHANGED <<observations, events, fills, resolutions, answers, tails>>

Resolve(s, r) ==
    /\ Start(s, "resolve", [kind |-> "resolve", pc |-> "check", record |-> r])
    /\ UNCHANGED <<observations, events, fills, resolutions, answers, tails>>

-----------------------------------------------------------------------------
(* The steps of a job.                                                     *)

At(s, kind, pc) == job[s].kind = kind /\ job[s].pc = pc

Goto(s, pc) == job' = [job EXCEPT ![s].pc = pc]

\* The exception, or the kill, ends the job; nothing of it stays in memory.
Abort(s) == job' = [job EXCEPT ![s] = Idle]

Mark(s) ==
    /\ At(s, "collect", "mark")
    /\ \/ /\ Readable("observations")
          /\ job' = [job EXCEPT ![s].supersedes = Supersedes(observations, job[s].value),
                                ![s].pc = "check"]
       \/ ~Readable("observations") /\ Abort(s)
    /\ UNCHANGED <<observations, events, fills, resolutions, answers, jobs, raced, tails>>

CheckObservation(s) ==
    /\ At(s, "collect", "check")
    /\ LET verdict == Verdict(observations, job[s].value, job[s].supersedes)
       IN  \/ Readable("observations") /\ verdict = "known" /\ Goto(s, "event")
           \/ Readable("observations") /\ verdict = "new" /\ Goto(s, "write")
           \/ (~Readable("observations") \/ verdict = "refused") /\ Abort(s)
    /\ UNCHANGED <<observations, events, fills, resolutions, answers, jobs, raced, tails>>

WriteObservation(s) ==
    /\ At(s, "collect", "write")
    /\ observations' = Appended("observations", observations,
            [value |-> job[s].value, at |-> job[s].at, supersedes |-> job[s].supersedes])
    /\ LineEnds("observations")
    /\ Goto(s, "event")
    /\ UNCHANGED <<events, fills, resolutions, answers, jobs, raced>>

\* append_collection_event: the id is a hash of the whole event.
CheckEvent(s) ==
    /\ At(s, "collect", "event")
    /\ LET logged == [value |-> job[s].value, at |-> job[s].at] \in Elements(events)
       IN  \/ Readable("events") /\ logged /\ Goto(s, "done")
           \/ Readable("events") /\ ~logged /\ Goto(s, "log")
           \/ ~Readable("events") /\ Abort(s)
    /\ UNCHANGED <<observations, events, fills, resolutions, answers, jobs, raced, tails>>

WriteEvent(s) ==
    /\ At(s, "collect", "log")
    /\ events' = Appended("events", events, [value |-> job[s].value, at |-> job[s].at])
    /\ LineEnds("events")
    /\ Goto(s, "done")
    /\ UNCHANGED <<observations, fills, resolutions, answers, jobs, raced>>

\* Mutant: the keys are those the file had when the import began.
KnownAtStart(existing, key) == existing

\* The keys the importer knows after one more fill.
Known(existing, key) == existing \cup {key}

\* One iteration of append_fills.
AppendFill(s) ==
    /\ At(s, "import", "append")
    /\ LET j == job[s]
           key == Head(j.todo)
       IN  /\ j.todo # <<>>
           /\ \/ key \in j.existing /\ UNCHANGED <<fills, tails>>
              \/ /\ key \notin j.existing
                 /\ fills' = Appended("fills", fills, key)
                 /\ LineEnds("fills")
           /\ job' = [job EXCEPT ![s].todo = Tail(@), ![s].existing = Known(@, key)]
    /\ UNCHANGED <<observations, events, resolutions, answers, jobs, raced>>

EndImport(s) ==
    /\ At(s, "import", "append")
    /\ job[s].todo = <<>>
    /\ Goto(s, "done")
    /\ UNCHANGED <<observations, events, fills, resolutions, answers, jobs, raced, tails>>

\* append_cash_flow_resolution: an identical record returns, a taken id, a
\* resolved snapshot or an unreadable file raises.
Taken(file, r) == \E q \in Elements(file) : q.id = r.id \/ q.snapshot = r.snapshot

CheckResolution(s) ==
    /\ At(s, "resolve", "check")
    /\ LET r == job[s].record
       IN  \/ Readable("resolutions") /\ r \in Elements(resolutions) /\ Goto(s, "done")
           \/ Readable("resolutions") /\ ~Taken(resolutions, r) /\ Goto(s, "write")
           \/ r \notin Elements(resolutions) /\ Taken(resolutions, r) /\ Abort(s)
           \/ ~Readable("resolutions") /\ Abort(s)
    /\ UNCHANGED <<observations, events, fills, resolutions, answers, jobs, raced, tails>>

WriteResolution(s) ==
    /\ At(s, "resolve", "write")
    /\ resolutions' = Appended("resolutions", resolutions, job[s].record)
    /\ LineEnds("resolutions")
    /\ Goto(s, "done")
    /\ UNCHANGED <<observations, events, fills, answers, jobs, raced>>

Crash(s) ==
    /\ InProgress(job[s])
    /\ Abort(s)
    /\ UNCHANGED <<observations, events, fills, resolutions, answers, jobs, raced, tails>>

\* The file a session is about to append to.
Writing(s, file) ==
    \/ file = "observations" /\ At(s, "collect", "write")
    \/ file = "events" /\ At(s, "collect", "log")
    \/ file = "resolutions" /\ At(s, "resolve", "write")
    \/ /\ file = "fills" /\ At(s, "import", "append")
       /\ job[s].todo # <<>> /\ Head(job[s].todo) \notin job[s].existing

\* The process is killed, or the disk fills up, part of the way through.
TornWrite(s) ==
    /\ \E file \in Files : Writing(s, file) /\ torn' = torn \cup {file}
    /\ Abort(s)
    /\ UNCHANGED <<observations, events, fills, resolutions, answers, jobs, raced, spoiled>>

-----------------------------------------------------------------------------

Init ==
    /\ observations = <<>> /\ events = <<>> /\ fills = <<>> /\ resolutions = <<>>
    /\ answers = {}
    /\ job = [s \in Session |-> Idle]
    /\ jobs = 0
    /\ raced = {} /\ torn = {} /\ spoiled = {}

Next ==
    \E s \in Session :
        \/ \E v \in Values : Collect(s, v)
        \/ \E a \in answers : Resubmit(s, a)
        \/ \E page \in Pages : Import(s, page)
        \/ \E r \in Resolutions : Resolve(s, r)
        \/ Mark(s) \/ CheckObservation(s) \/ WriteObservation(s)
        \/ CheckEvent(s) \/ WriteEvent(s)
        \/ AppendFill(s) \/ EndImport(s)
        \/ CheckResolution(s) \/ WriteResolution(s)
        \/ Crash(s) \/ TornWrite(s)

Spec == Init /\ [][Next]_vars

-----------------------------------------------------------------------------
(* Properties.                                                             *)

Copies(file, Same(_)) == Cardinality({i \in DOMAIN file : Same(file[i])})

\* The files hold what the writers append, and a job is one of the three kinds.
TypeOK ==
    /\ observations \in Seq(Observations) /\ events \in Seq(Answers)
    /\ resolutions \in Seq(Resolutions)
    /\ answers \subseteq Answers
    /\ raced \subseteq {"collect", "import", "resolve"}
    /\ torn \subseteq Files /\ spoiled \subseteq Files
    /\ \A s \in Session :
        /\ job[s].kind \in {"idle", "collect", "import", "resolve"}
        /\ job[s].kind = "collect" => job[s].supersedes \in Values \cup {None}

\* A call that returned has stored what it was given, whatever ran beside it
\* and however many calls were killed or refused before it: the value and its
\* event, every fill of the page, the resolution.  The exception is a file
\* where a line joined a fragment: that line may be the acknowledged one.
AckedIsStored ==
    \A s \in Session :
        LET j == job[s] IN
        /\ At(s, "collect", "done") =>
            /\ \/ "observations" \in spoiled
               \/ \E o \in Elements(observations) : o.value = j.value
            /\ \/ "events" \in spoiled
               \/ [value |-> j.value, at |-> j.at] \in Elements(events)
        /\ At(s, "import", "done") =>
            "fills" \in spoiled \/ Elements(j.page) \subseteq Elements(fills)
        /\ At(s, "resolve", "done") =>
            "resolutions" \in spoiled \/ j.record \in Elements(resolutions)

\* The event log never reports a SUCCESS whose value is in no observation,
\* as long as the observations can be read: the two files are written one
\* after the other, and either writer may be refused or killed between them.
EventsHaveObservations ==
    "observations" \in spoiled \/
        \A e \in Elements(events) : \E o \in Elements(observations) : o.value = e.value

\* A fragment swallows a record only under two sessions at once: whoever
\* comes later reads first, and the read refuses the file.
LossNeedsRaces ==
    /\ "observations" \in spoiled \/ "events" \in spoiled => "collect" \in raced
    /\ "fills" \in spoiled => "import" \in raced
    /\ "resolutions" \in spoiled => "resolve" \in raced

\* As long as no two sessions used a store at once, a key is in it once, in
\* spite of kills, repeated pages and repeated results.
SerialStoresHaveNoCopies ==
    /\ "import" \notin raced => \A k \in Elements(fills) : Copies(fills, LAMBDA x : x = k) = 1
    /\ "collect" \notin raced =>
        /\ \A o \in Elements(observations) : Copies(observations, LAMBDA x : x.value = o.value) = 1
        /\ \A e \in Elements(events) : Copies(events, LAMBDA x : x = e) = 1
    /\ "resolve" \notin raced =>
        \A r \in Elements(resolutions) : Copies(resolutions, LAMBDA x : x.snapshot = r.snapshot) = 1

\* Without a race each line of a point supersedes the one with the newest
\* fetch before it, and the first supersedes none.
RevisionsNameTheNewest ==
    "collect" \notin raced =>
        \A i \in DOMAIN observations :
            LET before == SubSeq(observations, 1, i - 1)
            IN  IF i = 1
                THEN observations[i].supersedes = None
                ELSE observations[i].supersedes = LatestSamePoint(before).value

\* Where two lines supersede the same one, the earlier of them was handed in
\* late: it is no newer than the line it supersedes.  Results handed in as
\* they were fetched form one chain.
ForksNeedLateResults ==
    "collect" \notin raced =>
        \A i, j \in DOMAIN observations :
            i # 1 /\ i < j /\ observations[i].supersedes = observations[j].supersedes =>
                \E m \in 1 .. i - 1 :
                    /\ observations[m].value = observations[i].supersedes
                    /\ observations[i].at <= observations[m].at

\* Racing sessions can multiply a key, but not beyond their own number: a
\* session that starts again reads what the last race left.
CopiesBoundedBySessions ==
    /\ \A k \in Elements(fills) :
        Copies(fills, LAMBDA x : x = k) <= Cardinality(Session)
    /\ \A r \in Elements(resolutions) :
        Copies(resolutions, LAMBDA x : x.snapshot = r.snapshot) <= Cardinality(Session)
    /\ \A o \in Elements(observations) :
        Copies(observations, LAMBDA x : x.value = o.value) <= Cardinality(Session)

\* What holds of the stores under kills, torn writes, refusals and races: an
\* acknowledged record is missing only from a file that refuses to be read,
\* and only a race can have cost it.
StoresInvariant == TypeOK /\ AckedIsStored /\ EventsHaveObservations /\ LossNeedsRaces

\* The revisions of a point: one chain, unless a race or a late result forked it.
RevisionsInvariant == RevisionsNameTheNewest /\ ForksNeedLateResults

\* Copies are the work of races alone, and of bounded number.
CopiesNeedRaces == SerialStoresHaveNoCopies /\ CopiesBoundedBySessions

=============================================================================
