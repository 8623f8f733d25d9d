---------------------------- MODULE ResponseCache ----------------------------
(***************************************************************************)
(* The response cache of providers/cache.py as _collect_one of             *)
(* providers/router.py uses it, shared by several host sessions: looked    *)
(* up, filled through the HTTP client, quarantined when corrupt, pruned    *)
(* after every so many saves.  A file is replaced atomically; nothing      *)
(* locks the steps between a look and what is done about it.               *)
(*                                                                         *)
(* One provider, one asset, one dataset, which is "plain" (mutable, it     *)
(* expires; BGeometrics, whose FULL_AVAILABLE is a current scalar, is one  *)
(* too), "live" (plain, but asked without as_of, so that no cutoff applies *)
(* and all its requests share a file) or a "history" (FULL_AVAILABLE,      *)
(* immutable, extended by its tail).  An observation is the time it is of, *)
(* a payload the time of its last observation and, for a history, of its   *)
(* last row: what a provider returns may reach past the cutoff, and        *)
(* _collect_one stores it as it came, but a history's observations are     *)
(* parsed from its rows up to the cutoff.                                  *)
(***************************************************************************)
EXTENDS Sessions, HttpClient, FiniteSets

CONSTANTS
    Ttl,              \* freshness_seconds: the life of an entry and the width of a bucket
    PruneInterval,    \* _PRUNE_INTERVAL_SAVES
    MaxTime,          \* bound: the clock
    MaxMishaps,       \* bound: files that rot and source contracts that are retired
    MaxJobs,          \* bound: requests begun
    None

ASSUME CacheAssumption ==
    /\ Ttl \in Nat \ {0} /\ PruneInterval \in Nat \ {0}
    /\ MaxTime \in Nat /\ MaxMishaps \in Nat /\ MaxJobs \in Nat
    /\ None \notin Nat

Kinds == {"plain", "live", "history"}
FetchModes == {"AUTO", "CACHE_ONLY", "REFRESH"}

\* request_identity floors as_of, where there is one, to a bucket of the TTL.
Bucket(kind, time) == IF kind = "live" THEN 0 ELSE time \div Ttl

\* response_path: one file for each identity.
Paths == {<<kind, Bucket(kind, time)>> : kind \in Kinds, time \in 0 .. MaxTime}

Times == 0 .. MaxTime

\* observed_range.end, None where no observation is dated; the last row of a
\* history; whether the payload keeps to the source contract in force.
Entries == [end : Times \cup {None}, rows : Times, fetched : Times,
            intact : BOOLEAN, current : BOOLEAN]

ASSUME NoneIsNoFile == None \notin Entries /\ None \notin Paths

VARIABLES
    clock,
    dataset,          \* which kind the dataset is, for good
    file,             \* what each path holds: an entry, or None
    job,              \* what each session is doing
    jobs,             \* requests begun so far
    saves,            \* _saves_since_prune of each session's cache object
    damage,           \* files that have rotted and contracts retired so far
    raced             \* history: whether two jobs have overlapped

responseVars == <<clock, dataset, file, job, jobs, saves, damage, raced>>

NoJob == [pc |-> "idle"]
Busy(s) == job[s].pc \notin {"idle", "served"}
PathOf(j) == <<j.kind, Bucket(j.kind, j.cutoff)>>
Mutable(kind) == kind # "history"

Min2(a, b) == IF a <= b THEN a ELSE b

\* Mutant: an entry is dead at the second it expires.
ExpiredEarly(path, e, now) == Mutable(path[1]) /\ e.fetched + Ttl <= now

\* expires_at < now: an entry still serves at the second it expires.
Expired(path, e, now) == Mutable(path[1]) /\ e.fetched + Ttl < now

-----------------------------------------------------------------------------
(* Steps of a session.                                                     *)

At(s, pc) == job[s].pc = pc

\* An exception reaches the caller; nothing of the job is left.
Failed == NoJob

Goto(s, pc) == job' = [job EXCEPT ![s] = IF pc = "failed" THEN Failed ELSE [@ EXCEPT !.pc = pc]]

\* What the guard against looking ahead refuses: an entry by its last
\* observation, or by the time it was fetched where none is dated.
Ahead(j, e) ==
    /\ j.kind # "live"
    /\ IF e.end = None THEN e.fetched > j.cutoff ELSE e.end > j.cutoff

\* The answer of _collect_one: a provider's is handed on as it came, and nothing
\* is kept of it here; of a cached one the properties judge what it was read from.
FromProvider == NoJob
FromCache(j, e) ==
    [pc |-> "served", intact |-> e.intact, current |-> e.current,
     ahead |-> Ahead(j, e), expired |-> Expired(PathOf(j), e, j.now)]

Serve(s, e) == job' = [job EXCEPT ![s] = FromCache(@, e)]

\* What parse_cached_payload makes of a history now: its rows up to the cutoff.
Parsed(e, cutoff) == [e EXCEPT !.end = Min2(e.rows, cutoff), !.current = TRUE]

\* A request in a bundle; a live one asks as of now, a replay as of the past.
Begin(s, cutoff, mode) ==
    /\ ~Busy(s)
    /\ cutoff <= clock /\ (dataset = "live" => cutoff = clock)
    /\ jobs < MaxJobs
    /\ jobs' = jobs + 1
    /\ job' = [job EXCEPT ![s] =
        [kind |-> dataset, cutoff |-> cutoff, local |-> mode = "CACHE_ONLY", now |-> clock,
         sent |-> 0, found |-> None,
         pc |-> IF mode = "REFRESH" /\ Mutable(dataset) THEN "fetch" ELSE "exists"]]
    /\ raced' = (raced \/ \E t \in Session \ {s} : Busy(t))
    /\ UNCHANGED <<dataset, clock, file, saves, damage>>

\* Where a request without a usable entry goes on: a history looks for an older
\* one, the rest of CACHE_ONLY gives up.
Missed(j) == IF j.kind = "history" THEN "scan" ELSE IF j.local THEN "failed" ELSE "fetch"

Exists(s) ==
    /\ At(s, "exists")
    /\ Goto(s, IF file[PathOf(job[s])] = None THEN Missed(job[s]) ELSE "read")
    /\ UNCHANGED <<dataset, jobs, clock, file, saves, damage, raced>>

\* Mutant: the as_of guard forgets that a later entry may share the bucket.
UsableUpToAnyEnd(j, e) ==
    /\ e.current
    /\ j.kind = "history" => e.end >= j.cutoff
    /\ ~Expired(PathOf(j), e, j.now)

\* The guards of load_response: coverage, look-ahead, TTL; and the one of
\* _cached_payload_matches_source_contract.
Usable(j, e) ==
    /\ e.current
    /\ j.kind = "history" => e.end >= j.cutoff
    /\ ~Ahead(j, e)
    /\ ~Expired(PathOf(j), e, j.now)

\* A file that vanished since it was seen reads as a corrupt one.
IsCorrupt(e) == IF e = None THEN TRUE ELSE ~e.intact

AfterCorruption(j) == IF j.local THEN "failed" ELSE "quarantine"

Read(s) ==
    /\ At(s, "read")
    /\ LET j == job[s]
           e == file[PathOf(j)]
       IN  \/ IsCorrupt(e) /\ Goto(s, AfterCorruption(j))
           \/ e # None /\ ~IsCorrupt(e) /\ Usable(j, e) /\ Serve(s, e)
           \/ e # None /\ ~IsCorrupt(e) /\ ~Usable(j, e) /\ Goto(s, Missed(j))
    /\ UNCHANGED <<dataset, jobs, clock, file, saves, damage, raced>>

\* quarantine moves away whatever the path holds by now.
QuarantineEntry(s) ==
    /\ At(s, "quarantine")
    /\ file' = [file EXCEPT ![PathOf(job[s])] = None]
    /\ Goto(s, Missed(job[s]))
    /\ UNCHANGED <<dataset, jobs, clock, saves, damage, raced>>

\* load_full_history: every intact full history, whatever its bucket.
Histories == {p \in Paths : p[1] = "history" /\ file[p] # None /\ file[p].intact}

\* The one that reaches furthest is served as it is, up to the cutoff, unless
\* its tail is missing and may be fetched.
Scan(s) ==
    /\ At(s, "scan")
    /\ LET j == job[s] IN
        IF Histories = {}
        THEN Goto(s, IF j.local THEN "failed" ELSE "fetch")
        ELSE \E p \in Histories :
                /\ \A q \in Histories : file[q].rows <= file[p].rows
                /\ IF file[p].rows < j.cutoff /\ ~j.local
                   THEN job' = [job EXCEPT ![s].pc = "tail", ![s].found = Parsed(file[p], j.cutoff)]
                   ELSE Serve(s, Parsed(file[p], j.cutoff))
    /\ UNCHANGED <<dataset, jobs, clock, file, saves, damage, raced>>

\* _collect_full_history_tail without a call or without rows: an open breaker,
\* an empty answer.  The history is served as far as it goes.
SkipTail(s) ==
    /\ At(s, "tail")
    /\ Serve(s, job[s].found)
    /\ UNCHANGED <<dataset, jobs, clock, file, saves, damage, raced>>

\* One attempt of request_json, for the request or for its tail: it succeeds,
\* is repeated, or was the last and failed.
Attempt(s, result) ==
    /\ At(s, "fetch") \/ At(s, "tail")
    /\ LET sent == job[s].sent + 1
           retried == {outcome \in Outcomes : Retries("GET", FALSE, outcome, sent)}
       IN  \/ /\ result = "ok"
              /\ job' = [job EXCEPT ![s].sent = 0, ![s].pc = "save"]
           \/ /\ result = "again" /\ retried # {}
              /\ job' = [job EXCEPT ![s].sent = sent]
           \/ /\ result = "failed" /\ Outcomes \ (retried \cup {"ok"}) # {}
              /\ job' = [job EXCEPT ![s] = Failed]
    /\ UNCHANGED <<dataset, jobs, clock, file, saves, damage, raced>>

\* What a provider may return by now: it lags, keeps to the cutoff, passes over
\* it, or dates nothing; a history's rows and what is parsed from them.  How far
\* the answer to a live request reaches makes no difference to any guard.
Answers(j) ==
    LET reach == {j.cutoff - 1, j.cutoff, clock} \cap Nat
    IN  CASE j.kind = "plain" -> [end : reach \cup {None}, rows : {0}]
          [] j.kind = "live" -> {[end |-> None, rows |-> 0]}
          [] OTHER -> {[end |-> Min2(r, j.cutoff), rows |-> r] : r \in reach}

\* The tail's rows are appended to those of the history it was missing from.
Joined(j, answer) ==
    IF j.found = None \/ j.found.rows < answer.rows THEN answer
    ELSE [end |-> Min2(j.found.rows, j.cutoff), rows |-> j.found.rows]

\* fetched_at is the "now" the review began with; a history, always dated and
\* immutable, is never asked for it.
Entry(j, answer) ==
    [end |-> answer.end, rows |-> answer.rows, fetched |-> IF Mutable(j.kind) THEN j.now ELSE 0,
     intact |-> TRUE, current |-> TRUE]

PruneDue(count) == count >= PruneInterval

\* The files a pruning finds in the directory and may unlink; it reads the
\* histories too, and leaves them.
Prunable == {p \in Paths : Mutable(p[1]) /\ file[p] # None}

\* save_response, of whatever the provider has returned.
Save(s) ==
    /\ At(s, "save")
    /\ LET j == job[s]
           count == saves[s] + 1
       IN  /\ \E answer \in Answers(j) :
                 file' = [file EXCEPT ![PathOf(j)] = Entry(j, Joined(j, answer))]
           /\ IF PruneDue(count)
              THEN /\ saves' = [saves EXCEPT ![s] = 0]
                   /\ job' = [job EXCEPT ![s] =
                        [pc |-> "prune", local |-> j.local, path |-> None, todo |-> Prunable']]
              ELSE /\ saves' = [saves EXCEPT ![s] = count]
                   /\ job' = [job EXCEPT ![s] = FromProvider]
    /\ UNCHANGED <<dataset, jobs, clock, damage, raced>>

\* prune_expired reads one file after the other ...
PruneRead(s, p) ==
    /\ At(s, "prune")
    /\ p \in job[s].todo
    /\ \E parses \in BOOLEAN :
        /\ file[p] # None /\ file[p].intact => parses
        /\ LET dead == file[p] # None /\ parses /\ Expired(p, file[p], clock)
           IN  job' = [job EXCEPT ![s].todo = @ \ {p},
                           ![s].path = IF dead THEN p ELSE None,
                           ![s].pc = IF dead THEN "unlink" ELSE "prune"]
    /\ UNCHANGED <<dataset, jobs, clock, file, saves, damage, raced>>

\* ... and unlinks the path; a path that is gone ends the pruning.
PruneUnlink(s) ==
    /\ At(s, "unlink")
    /\ file' = [file EXCEPT ![job[s].path] = None]
    /\ job' = [job EXCEPT ![s].pc = "prune",
                   ![s].todo = IF file[job[s].path] = None THEN {} ELSE @]
    /\ UNCHANGED <<dataset, jobs, clock, saves, damage, raced>>

PruneEnd(s) ==
    /\ At(s, "prune")
    /\ job[s].todo = {}
    /\ job' = [job EXCEPT ![s] = FromProvider]
    /\ UNCHANGED <<dataset, jobs, clock, file, saves, damage, raced>>

\* The process ends, of itself or killed: its counter goes with it.
Restart(s) ==
    /\ job' = [job EXCEPT ![s] = NoJob]
    /\ saves' = [saves EXCEPT ![s] = 0]
    /\ job[s] # NoJob \/ saves[s] # 0
    /\ UNCHANGED <<dataset, jobs, clock, file, damage, raced>>

Pass ==
    /\ clock < MaxTime
    /\ clock' = clock + 1
    /\ UNCHANGED <<dataset, jobs, file, job, saves, damage, raced>>

\* A file no longer parses, or fails its hash or its field list.
Rot(p) ==
    /\ damage < MaxMishaps
    /\ file[p] # None /\ file[p].intact
    /\ file' = [file EXCEPT ![p].intact = FALSE]
    /\ damage' = damage + 1
    /\ UNCHANGED <<dataset, jobs, clock, job, saves, raced>>

\* A release whose validate_cached_observations refuses what earlier ones
\* stored; it is installed between reviews, and the processes start again.
Retire ==
    /\ damage < MaxMishaps
    /\ \A s \in Session : ~Busy(s)
    /\ \E p \in Paths : file[p] # None
    /\ damage' = damage + 1
    /\ file' = [p \in Paths |-> IF file[p] = None THEN None ELSE [file[p] EXCEPT !.current = FALSE]]
    /\ saves' = [s \in Session |-> 0]
    /\ UNCHANGED <<dataset, jobs, clock, job, raced>>

InitResponses ==
    /\ dataset \in Kinds
    /\ clock = 0 /\ jobs = 0 /\ damage = 0 /\ raced = FALSE
    /\ file = [p \in Paths |-> None]
    /\ job = [s \in Session |-> NoJob]
    /\ saves = [s \in Session |-> 0]

Step(s) ==
    \/ Exists(s) \/ Read(s) \/ QuarantineEntry(s) \/ Scan(s) \/ SkipTail(s)
    \/ \E result \in {"ok", "again", "failed"} : Attempt(s, result)
    \/ Save(s)
    \/ \E p \in Paths : PruneRead(s, p)
    \/ PruneUnlink(s) \/ PruneEnd(s)

NextResponse ==
    \/ Pass \/ Retire
    \/ \E p \in Paths : Rot(p)
    \/ \E s \in Session :
        \/ \E cutoff \in 0 .. MaxTime, mode \in FetchModes : Begin(s, cutoff, mode)
        \/ Step(s)
        \/ Restart(s)

ResponseSpec == InitResponses /\ [][NextResponse]_responseVars

-----------------------------------------------------------------------------
(* Properties.                                                             *)

\* Whatever is known of a job stays within its type.
ResponseTypeOK ==
    /\ clock \in 0 .. MaxTime /\ dataset \in Kinds
    /\ file \in [Paths -> Entries \cup {None}]
    /\ saves \in [Session -> 0 .. PruneInterval - 1]
    /\ damage \in 0 .. MaxMishaps
    /\ \A s \in Session : job[s].pc = "prune" => job[s].todo \subseteq Paths

\* What is answered from the cache is intact, keeps to the source contract in
\* force, is alive by the request's own clock, and holds nothing later than the
\* cutoff of the request (fetched after it, where nothing is dated): although
\* providers answer past their cutoffs and what they answer is stored, and a
\* replay of the past shares its bucket, and a history its file, with reviews
\* that came later.  Of an answer straight from a provider the router promises
\* nothing; Acquisition checks what it takes from one.
AnswersAreSound ==
    \A s \in Session :
        At(s, "served") =>
            job[s].intact /\ job[s].current /\ ~job[s].ahead /\ ~job[s].expired

\* The furthest time an intact full history reaches.
Coverage(files) ==
    LET ends == {files[p].rows : p \in {q \in Paths : q[1] = "history" /\ files[q] # None /\ files[q].intact}}
    IN  IF ends = {} THEN -1 ELSE CHOOSE e \in ends : \A d \in ends : d <= e

\* Neither an entry that is intact and alive nor coverage is lost by a step.
LosesNothing ==
    /\ \A p \in Paths :
        (file[p] # None /\ file[p].intact /\ Mutable(p[1]) /\ file[p].fetched + Ttl >= clock)
            => file'[p] # None /\ file'[p].intact
    /\ Coverage(file') >= Coverage(file)

\* While no two jobs have overlapped, the cache loses nothing of use: neither
\* the quarantine nor the pruning takes an entry that is intact and alive, and
\* a back-dated review never replaces a history by a shorter one.  Only files
\* that rot are lost.
LoneSessionLosesNothing ==
    [][~raced' /\ damage' = damage => LosesNothing]_responseVars

\* What holds of the shared response cache and of every answer from it.
CacheInvariant == ResponseTypeOK /\ AnswersAreSound

=============================================================================
