------------------------------ MODULE EventScan ------------------------------
(***************************************************************************)
(* What an event scan makes of the answers of its sources                  *)
(* (events/scanner.py, models/events.py).  A scan covers one scope: an      *)
(* asset for security, the whole market for regulation.  Its sources are    *)
(* fixed in a catalogue and come in groups; a group is reached when one of  *)
(* its sources answers completely.                                          *)
(***************************************************************************)
EXTENDS Naturals, FiniteSets

CONSTANTS Assets,       \* the assets a review asks about
          Market,       \* the scope of the shared regulatory scan
          Catalog,      \* the required sources of each scope
          SourceGroup   \* the group of each source

Scopes == Assets \cup {Market}
Sources == UNION {Catalog[scope] : scope \in Scopes}
GroupsOf(sources) == {SourceGroup[s] : s \in sources}

Severities == {"WATCH", "ELEVATED", "CRITICAL"}

ASSUME CatalogAssumption ==
    /\ Market \notin Assets
    /\ Catalog \in [Scopes -> SUBSET DOMAIN SourceGroup]
    /\ Catalog[Market] # {}

(* Where both are defined, the first counts.                                *)
Over(f, g) == [x \in DOMAIN f \cup DOMAIN g |-> IF x \in DOMAIN f THEN f[x] ELSE g[x]]

(* An item names the assets it affects, or none for all of them.            *)
Items == [severity : Severities, affects : SUBSET Assets]

(* The answers to one scan: the sources that answered completely, whether   *)
(* two of them disagree, what they report, and whether an item is still a   *)
(* candidate nobody has classified.                                         *)
Answers == [reached : SUBSET Sources, disputed : BOOLEAN,
            items : SUBSET Items, open : BOOLEAN]

Unanswered == [reached |-> {}, disputed |-> FALSE, items |-> {}, open |-> FALSE]

Affects(item, scope) == item.affects = {} \/ scope = Market \/ scope \in item.affects

StateOf(events, unsettled) ==
    IF \E i \in events : i.severity = "CRITICAL" THEN "CRITICAL"
    ELSE IF \E i \in events : i.severity = "ELEVATED" THEN "ELEVATED"
    ELSE IF events # {} \/ unsettled THEN "WATCH"
    ELSE "CLEAR"

(* Finished scans, and those whose state their events and coverage make.     *)
Scans == [at : Nat, full : BOOLEAN, disputed : BOOLEAN,
          state : Severities \cup {"CLEAR"}, events : SUBSET Items]
Derivable(scan) == scan.state = StateOf(scan.events, scan.disputed \/ ~scan.full)

FullyReached(scope, answer) ==
    GroupsOf(answer.reached \cap Catalog[scope]) = GroupsOf(Catalog[scope])

(* The scan fails where no source is known or an item is unclassified.      *)
CanBuild(scope, answer) == Catalog[scope] # {} /\ ~answer.open

(* A scan keeps "disputed" for the record: the program keeps it only as far  *)
(* as the state shows it.                                                    *)
Build(scope, day, answer) ==
    LET events == {i \in answer.items : Affects(i, scope)}
        full == FullyReached(scope, answer)
    IN [at |-> day, full |-> full, disputed |-> answer.disputed,
        state |-> StateOf(events, answer.disputed \/ ~full), events |-> events]

(* The shared scan as seen by one asset: its events, the same coverage, and  *)
(* a state of its own.                                                      *)
MapTo(asset, scan) ==
    LET events == {i \in scan.events : Affects(i, asset)}
    IN [scan EXCEPT !.events = events, !.state = StateOf(events, ~scan.full)]

Insufficient == "INSUFFICIENT_SOURCE_COVERAGE"
Clear == "NO_KNOWN_MATERIAL_EVENT_IN_SCANNED_SOURCES"
Material == "MATERIAL_EVENT_FOUND"

\* Mutant: the coverage alone decides, whatever the sources disagree about.
StatusByCoverage(scan) ==
    IF scan.events # {} THEN Material ELSE IF ~scan.full THEN Insufficient ELSE Clear

Status(scan) ==
    IF scan.state \in {"ELEVATED", "CRITICAL"} \/ scan.events # {} THEN Material
    ELSE IF scan.state # "CLEAR" \/ ~scan.full THEN Insufficient
    ELSE Clear
=============================================================================
