--------------------------- MODULE DecisionLedger ---------------------------
(***************************************************************************)
(* The decision history of state/decisions.py, shared by several host      *)
(* sessions: decisions.jsonl and status-events.jsonl.                      *)
(*                                                                         *)
(* append_decision and append_status_event read the files, check what they *)
(* read, and only then take the file lock again to append.  Between its    *)
(* steps a session may be overtaken by another one, or killed.             *)
(*                                                                         *)
(* A decision is what the checks tell apart: its id, its timestamp, its    *)
(* initial status and the rest of its content (rationale).  A request that *)
(* brings no decision_id gets a fresh uuid, which is the request of an id  *)
(* nobody uses yet.                                                        *)
(***************************************************************************)
EXTENDS JsonlFile, FiniteSets

CONSTANTS
    Session,          \* host processes that share the runtime directory
    Ids,              \* decision ids
    Times,            \* timestamps, ordered integers
    Rationales,       \* content of a decision the checks compare
    MaxDecisions,     \* bound: no decision is begun beyond so many lines
    MaxEvents,        \* bound: no status event is begun beyond so many lines
    NoRecord

ASSUME LedgerAssumption ==
    /\ Times \subseteq Int
    /\ MaxDecisions \in Nat /\ MaxEvents \in Nat
    /\ "NOTHING" \notin Ids

Terminal == {"CONFIRMED", "NOT_EXECUTED"}
Statuses == {"PENDING"} \cup Terminal

DecisionRecords == [id : Ids, time : Times, status : Statuses, rationale : Rationales]
EventRecords == [id : Ids, time : Times, status : Statuses]

\* What json.loads rejects is no record.
ASSUME CorruptAssumption == Corrupt \notin DecisionRecords \cup EventRecords

VARIABLES
    decisions,        \* decisions.jsonl
    events,           \* status-events.jsonl
    pc,               \* where each session is
    record,           \* the record each session wants to append
    found,            \* the decision append_status_event found for it
    acked,            \* history: the records whose append has returned
    contested         \* history: the decisions that passed the check of an
                      \* event while another session was past it too

vars == <<decisions, events, pc, record, found, acked, contested>>

-----------------------------------------------------------------------------

Content(r) == [time |-> r.time, status |-> r.status, rationale |-> r.rationale]

\* next(item for item in decisions if item["decision_id"] == id)
FirstWithId(file, id) ==
    LET at == {i \in Intact(file) : file.lines[i].id = id}
    IN  file.lines[CHOOSE i \in at : \A j \in at : i <= j]

\* sorted(..., key=timestamp)[-1]: the sort is stable, so among the latest
\* timestamps the last line of the file wins.
LatestEvent(file, id) ==
    LET at == {i \in Intact(file) : file.lines[i].id = id}
    IN  file.lines[CHOOSE i \in at : \A j \in at :
            \/ file.lines[j].time < file.lines[i].time
            \/ file.lines[j].time = file.lines[i].time /\ j <= i]

HasId(file, id) == \E r \in Records(file) : r.id = id

\* What append_status_event takes for the decision's current state.
Current(decision, eventFile) ==
    IF HasId(eventFile, decision.id)
    THEN LatestEvent(eventFile, decision.id)
    ELSE [id |-> decision.id, time |-> decision.time, status |-> decision.status]

\* reconstruct_decision_status, for a decision of the file.
Outcome(d) ==
    IF HasId(decisions, d) THEN Current(FirstWithId(decisions, d), events).status ELSE "ABSENT"

Idle(s) ==
    /\ pc' = [pc EXCEPT ![s] = "idle"]
    /\ record' = [record EXCEPT ![s] = NoRecord]
    /\ found' = [found EXCEPT ![s] = NoRecord]

-----------------------------------------------------------------------------
(* append_decision.                                                        *)

DuplicateDecision(r) ==
    \E old \in Records(decisions) : old.id = r.id \/ Content(old) = Content(r)

BeginDecision(s, r) ==
    /\ pc[s] = "idle"
    /\ Len(decisions.lines) < MaxDecisions
    /\ Readable(decisions)
    /\ ~DuplicateDecision(r)
    /\ pc' = [pc EXCEPT ![s] = "append_decision"]
    /\ record' = [record EXCEPT ![s] = r]
    /\ UNCHANGED <<decisions, events, found, acked, contested>>

AppendDecision(s) ==
    /\ pc[s] = "append_decision"
    /\ decisions' = AppendRecord(decisions, record[s])
    /\ acked' = acked \cup {record[s]}
    /\ Idle(s)
    /\ UNCHANGED <<events, contested>>

TearDecision(s) ==
    /\ pc[s] = "append_decision"
    /\ decisions' = AppendTorn(decisions)
    /\ Idle(s)
    /\ UNCHANGED <<events, acked, contested>>

-----------------------------------------------------------------------------
(* append_status_event: two reads, under two different locks, and a write. *)

BeginEvent(s, e) ==
    /\ pc[s] = "idle"
    /\ Len(events.lines) < MaxEvents
    /\ Readable(decisions)
    /\ HasId(decisions, e.id)
    /\ pc' = [pc EXCEPT ![s] = "check_event"]
    /\ record' = [record EXCEPT ![s] = e]
    /\ found' = [found EXCEPT ![s] = FirstWithId(decisions, e.id)]
    /\ UNCHANGED <<decisions, events, acked, contested>>

\* Mutants: at any time; out of any state.
AllowedAnyTime(e, current) == current.status = "PENDING" /\ e.status \in Terminal

AllowedAfterOutcome(e, current) == e.time >= current.time /\ e.status \in Terminal

\* The transition the event asks for, given the state that was read.
Allowed(e, current) ==
    /\ e.time >= current.time
    /\ current.status = "PENDING"
    /\ e.status \in Terminal

\* The right to resolve a decision is the passed check of an event for it.
Right(s) == IF pc[s] = "append_event" THEN record[s].id ELSE "NOTHING"

CheckEvent(s) ==
    /\ pc[s] = "check_event"
    /\ IF Readable(events) /\ Allowed(record[s], Current(found[s], events))
       THEN /\ pc' = [pc EXCEPT ![s] = "append_event"]
            /\ contested' = contested \cup
                  {d \in {record[s].id} : \E t \in Session \ {s} : Right(t) = d}
            /\ UNCHANGED <<record, found>>
       ELSE Idle(s) /\ UNCHANGED contested
    /\ UNCHANGED <<decisions, events, acked>>

AppendEvent(s) ==
    /\ pc[s] = "append_event"
    /\ events' = AppendRecord(events, record[s])
    /\ acked' = acked \cup {record[s]}
    /\ Idle(s)
    /\ UNCHANGED <<decisions, contested>>

TearEvent(s) ==
    /\ pc[s] = "append_event"
    /\ events' = AppendTorn(events)
    /\ Idle(s)
    /\ UNCHANGED <<decisions, acked, contested>>

-----------------------------------------------------------------------------

\* A session is killed between two of its steps; what it held is lost.
Crash(s) ==
    /\ pc[s] # "idle"
    /\ Idle(s)
    /\ UNCHANGED <<decisions, events, acked, contested>>

Init ==
    /\ decisions = EmptyFile
    /\ events = EmptyFile
    /\ pc = [s \in Session |-> "idle"]
    /\ record = [s \in Session |-> NoRecord]
    /\ found = [s \in Session |-> NoRecord]
    /\ acked = {}
    /\ contested = {}

Next == \E s \in Session :
    \/ \E r \in DecisionRecords : BeginDecision(s, r)
    \/ AppendDecision(s)
    \/ TearDecision(s)
    \/ \E e \in EventRecords : BeginEvent(s, e)
    \/ CheckEvent(s)
    \/ AppendEvent(s)
    \/ TearEvent(s)
    \/ Crash(s)

Spec == Init /\ [][Next]_vars

-----------------------------------------------------------------------------
(* Properties.                                                             *)

\* The files hold records of their own kind, and a session holds the record
\* its program counter says it does.
TypeOK ==
    /\ decisions \in [lines : Seq(DecisionRecords \cup {Corrupt}), torn : BOOLEAN]
    /\ events \in [lines : Seq(EventRecords \cup {Corrupt}), torn : BOOLEAN]
    /\ pc \in [Session -> {"idle", "append_decision", "check_event", "append_event"}]
    /\ record \in [Session -> DecisionRecords \cup EventRecords \cup {NoRecord}]
    /\ found \in [Session -> DecisionRecords \cup {NoRecord}]
    /\ acked \subseteq DecisionRecords \cup EventRecords
    /\ contested \subseteq Ids
    /\ \A s \in Session :
         /\ pc[s] = "append_decision" => record[s] \in DecisionRecords
         /\ pc[s] \in {"check_event", "append_event"}
                => record[s] \in EventRecords /\ found[s] \in DecisionRecords

\* A history that reads without an error holds every record whose append has
\* returned: a torn write, or an append onto one, is never skipped silently.
ReadableIsComplete ==
    Readable(decisions) /\ Readable(events)
        => acked \subseteq Records(decisions) \cup Records(events)

\* Whatever raced with it, a status event belongs to a decision the history
\* holds, that decision was recorded PENDING, and the event is not older.
EventsAreGrounded ==
    \A e \in Records(events) :
        /\ HasId(decisions, e.id)
        /\ FirstWithId(decisions, e.id).status = "PENDING"
        /\ e.time >= FirstWithId(decisions, e.id).time

\* However sessions interleave, crash and tear their writes, the two files
\* implement the promised history: a decision leaves PENDING once, for a
\* terminal outcome.  The one exception is a decision two sessions had both
\* checked before either appended its event: there the outcome the checks
\* call final is replaced by the other one, if its event is not older.
Promise == INSTANCE DecisionOutcome WITH
    outcome <- [d \in Ids |-> Outcome(d)],
    granted <- [s \in Session |-> Right(s)],
    contested <- contested

ImplementsPromise == Promise!Spec

\* What holds of the two files at every moment, races and torn writes included.
LedgerInvariant == TypeOK /\ EventsAreGrounded

=============================================================================
