------------------------------- MODULE Migration -------------------------------
(***************************************************************************)
(* A migration program (internal/app/migration.go, internal/domain/        *)
(* migration): snapshots of a source's records, mappings of its codes, the *)
(* runs that convert the one under the other, the exceptions people decide *)
(* and the cutover the latest run makes ready.                             *)
(*                                                                         *)
(* A cutover move reads the runs under the cutover's lock, which runs and  *)
(* decisions do not take.  A run's created_at is taken before it commits.  *)
(***************************************************************************)
EXTENDS Integers, SequencesExt

CONSTANTS
  User,      \* people who may operate the program
  Creator,   \* who created it
  Currency,
  Sources,   \* the snapshots that can be registered
  Mappings,  \* the mappings that can be created: functions from legacy codes to slots
  MaxRuns,   \* bound: runs
  None

ASSUME CreatorAssumption == Creator \in User
ASSUME BoundAssumption == MaxRuns \in Nat
ASSUME NoneAssumption == None \notin Int
ASSUME CurrencyAssumption == Currency \cap (Nat \cup {None}) = {}
ASSUME SourceAssumption ==
  \A s \in Sources : Len(s.records) \in Nat /\ DOMAIN s.records = 1..Len(s.records)

VARIABLES
  snapshots,  \* those registered
  mappings,   \* those created, by version
  runs,       \* those committed, in order of commit
  started,    \* how many runs have taken a created_at
  tx,         \* each user's run or cutover move in progress
  cutover,    \* where the cutover stands
  readied     \* the moves that had to find a run ready, and the run each found

migrationVars == <<snapshots, mappings, runs, started, tx, cutover, readied>>

Severity == {"HIGH", "MEDIUM"}
CutoverState ==
  {"PLANNED", "PRECHECK", "FREEZE_ACTIVE", "FINAL_DELTA", "RECONCILING", "READY_TO_SWITCH",
   "ROUTING_SWITCH", "VALIDATING_LIVE", "CUTOVER_COMPLETE", "ABORTED", "ROLLBACK_ACTIVE",
   "ROLLED_BACK", "FAILED_MANUAL_RECOVERY"}

Successors(s) ==
  CASE s = "PLANNED"          -> {"PRECHECK", "ABORTED"}
    [] s = "PRECHECK"         -> {"FREEZE_ACTIVE", "ABORTED"}
    [] s = "FREEZE_ACTIVE"    -> {"FINAL_DELTA", "ABORTED"}
    [] s = "FINAL_DELTA"      -> {"RECONCILING", "ABORTED"}
    [] s = "RECONCILING"      -> {"READY_TO_SWITCH", "FINAL_DELTA", "ABORTED"}
    [] s = "READY_TO_SWITCH"  -> {"ROUTING_SWITCH", "ABORTED"}
    [] s = "ROUTING_SWITCH"   -> {"VALIDATING_LIVE", "ROLLBACK_ACTIVE"}
    [] s = "VALIDATING_LIVE"  -> {"CUTOVER_COMPLETE", "ROLLBACK_ACTIVE"}
    [] s = "CUTOVER_COMPLETE" -> {"ROLLBACK_ACTIVE"}
    [] s = "ROLLBACK_ACTIVE"  -> {"ROLLED_BACK", "FAILED_MANUAL_RECOVERY"}
    [] OTHER                  -> {}

\* The moves a ready run is asked for.
Gated == {"READY_TO_SWITCH", "ROUTING_SWITCH"}

MigrationTypeOK ==
  /\ snapshots \subseteq Sources
  /\ mappings \in Seq(Mappings)
  /\ started \in 0..MaxRuns /\ Len(runs) <= started
  /\ \A r \in DOMAIN runs :
       /\ runs[r].open \subseteq runs[r].exceptions
       /\ \A e \in runs[r].exceptions : e.severity \in Severity
  /\ cutover \in CutoverState
  /\ readied \in SUBSET [state : Gated, by : User, run : DOMAIN runs]

MigrationInit ==
  /\ snapshots = {}
  /\ mappings = <<>>
  /\ runs = <<>>
  /\ started = 0
  /\ tx = [u \in User |-> None]
  /\ cutover = "PLANNED"
  /\ readied = {}

(***************************************************************************)
(* Convert.  A snapshot is [records, declared], a record [source, currency,*)
(* total, inPeriod, components]; None is a missing identifier, a currency  *)
(* that is not one, an amount not exactly held.                            *)
(***************************************************************************)
Seen(records, i) ==
  \E j \in 1..(i - 1) : records[j].source # None /\ records[j].source = records[i].source

Sum(S, amount(_)) == MapThenSumSet(amount, S)

\* What a slot holds once component c has been added to it.
InSlot(r, m, c) ==
  Sum({b \in 1..c : m[r.components[b].code] = m[r.components[c].code]},
      LAMBDA b : r.components[b].amount)

\* Each component adds what its slot then holds, the slot's earlier ones included.
ComponentsSum(r, m) == Sum(DOMAIN r.components, LAMBDA c : InSlot(r, m, c))

\* The components, in the order of codes, that cannot be carried.
Problems(r, m) ==
  {c \in DOMAIN r.components :
     r.components[c].code \notin DOMAIN m \/ r.components[c].amount = None}

\* The first thing that is wrong with a record.
Kind(records, i, m) ==
  LET r == records[i]
      bad == Problems(r, m)
  IN  IF r.source = None         THEN "MISSING_SOURCE"
      ELSE IF Seen(records, i)   THEN "DUPLICATE_SOURCE"
      ELSE IF r.currency = None  THEN "CURRENCY_CONFLICT"
      ELSE IF r.total = None     THEN "PRECISION_LOSS"
      ELSE IF ~r.inPeriod        THEN "DATE_CONFLICT"
      ELSE IF bad # {}           THEN IF r.components[Min(bad)].code \notin DOMAIN m
                                      THEN "UNMAPPED_CODE" ELSE "PRECISION_LOSS"
      ELSE IF ComponentsSum(r, m) # r.total THEN "INVALID_RELATION"
      ELSE "CONVERTED"

SeverityOf(kind) == IF kind \in {"DATE_CONFLICT", "UNMAPPED_CODE"} THEN "MEDIUM" ELSE "HIGH"

Converted(s, m) ==
  {i \in DOMAIN s.records : Kind(s.records, i, m) = "CONVERTED"}

\* A record is summed once its total has been read.
Counted(kind) ==
  kind \in {"DATE_CONFLICT", "UNMAPPED_CODE", "INVALID_RELATION", "CONVERTED"}

\* Mutant: a record's total is added to the source's once the record is converted.
SourceOfConverted(s, m, c) ==
  Sum({i \in Converted(s, m) : s.records[i].currency = c}, LAMBDA i : s.records[i].total)

\* A component that cannot be read comes after its record's total was.
Source(s, m, c) ==
  Sum({i \in DOMAIN s.records :
         /\ s.records[i].currency = c
         /\ \/ Counted(Kind(s.records, i, m))
            \/ Kind(s.records, i, m) = "PRECISION_LOSS" /\ s.records[i].total # None},
      LAMBDA i : s.records[i].total)

Carried(s, m, c) ==
  Sum({i \in Converted(s, m) : s.records[i].currency = c}, LAMBDA i : s.records[i].total)

Disagrees(s, m, c) == s.declared[c] # None /\ s.declared[c] # Source(s, m, c)

\* Every record left out raises an exception, and so does each currency whose
\* control total is not what its records sum to.
Raised(s, m) ==
  {[of |-> i, kind |-> Kind(s.records, i, m),
    severity |-> SeverityOf(Kind(s.records, i, m))] :
     i \in DOMAIN s.records \ Converted(s, m)}
  \cup {[of |-> c, kind |-> "CONTROL_TOTAL_MISMATCH", severity |-> "HIGH"] :
          c \in {x \in Currency : Disagrees(s, m, x)}}

Crosswalked(s, m) ==
  \A i, j \in Converted(s, m) :
    s.records[i].source = s.records[j].source => i = j

Passed(s, m) ==
  /\ Crosswalked(s, m)
  /\ \A c \in Currency :
       Source(s, m, c) = Carried(s, m, c) /\ ~Disagrees(s, m, c)

(***************************************************************************)
(* Snapshots, mappings, runs and decisions.                                *)
(***************************************************************************)
RegisterSnapshot ==
  /\ \E s \in Sources \ snapshots : snapshots' = snapshots \cup {s}
  /\ UNCHANGED <<mappings, runs, started, tx, cutover, readied>>

\* The next version is decided under the mapping's lock.
CreateMapping ==
  /\ Len(mappings) < Cardinality(Mappings)
  /\ \E m \in Mappings \ Range(mappings) : mappings' = Append(mappings, m)
  /\ UNCHANGED <<snapshots, runs, started, tx, cutover, readied>>

ExecuteRun(u) ==
  /\ tx[u] = None /\ started < MaxRuns
  /\ started' = started + 1
  /\ \E s \in snapshots, v \in DOMAIN mappings :
       tx' = [tx EXCEPT ![u] =
         [call |-> "run", source |-> s, mapping |-> v, createdAt |-> started + 1,
          exceptions |-> Raised(s, mappings[v]), open |-> Raised(s, mappings[v]),
          passed |-> Passed(s, mappings[v])]]
  /\ UNCHANGED <<snapshots, mappings, runs, cutover, readied>>

CreateRun(u) ==
  /\ tx[u] # None /\ tx[u].call = "run"
  /\ runs' = Append(runs, tx[u])
  /\ tx' = [tx EXCEPT ![u] = None]
  /\ UNCHANGED <<snapshots, mappings, started, cutover, readied>>

\* An exception is decided once, under its lock, whichever way.
DecideException ==
  /\ \E r \in DOMAIN runs : \E e \in runs[r].open :
       runs' = [runs EXCEPT ![r].open = @ \ {e}]
  /\ UNCHANGED <<snapshots, mappings, started, tx, cutover, readied>>

(***************************************************************************)
(* MoveCutover                                                             *)
(***************************************************************************)
Blocked(r) ==
  \/ ~runs[r].passed
  \/ \E e \in runs[r].open : e.severity = "HIGH"

Latest == CHOOSE r \in DOMAIN runs :
            \A q \in DOMAIN runs : runs[q].createdAt <= runs[r].createdAt

\* Mutant: readiness is asked for once, when the switch is made ready.
PermitsOnce(u, to) ==
  /\ to = "READY_TO_SWITCH" => runs # <<>> /\ ~Blocked(Latest)
  /\ to = "ROUTING_SWITCH" => u # Creator

Permits(u, to) ==
  /\ to \in Gated => runs # <<>> /\ ~Blocked(Latest)
  /\ to = "ROUTING_SWITCH" => u # Creator

\* The lock, the runs and their exceptions, and the decision on what they say.
MoveCutover(u, to) ==
  /\ tx[u] = None
  /\ \A q \in User : tx[q] # None => tx[q].call = "run"
  /\ to \in Successors(cutover)
  /\ Permits(u, to)
  /\ tx' = [tx EXCEPT ![u] =
       [call |-> "cutover", to |-> to, run |-> IF runs = <<>> THEN None ELSE Latest]]
  /\ UNCHANGED <<snapshots, mappings, runs, started, cutover, readied>>

AppendCutoverEvent(u) ==
  /\ tx[u] # None /\ tx[u].call = "cutover"
  /\ cutover' = tx[u].to
  /\ readied' = IF tx[u].to \in Gated
                THEN readied \cup {[state |-> tx[u].to, by |-> u, run |-> tx[u].run]}
                ELSE readied
  /\ tx' = [tx EXCEPT ![u] = None]
  /\ UNCHANGED <<snapshots, mappings, runs, started>>

Fail(u) ==
  /\ tx[u] # None
  /\ tx' = [tx EXCEPT ![u] = None]
  /\ UNCHANGED <<snapshots, mappings, runs, started, cutover, readied>>

MigrationNext ==
  \/ RegisterSnapshot \/ CreateMapping \/ DecideException
  \/ \E u \in User :
       \/ ExecuteRun(u) \/ CreateRun(u) \/ AppendCutoverEvent(u) \/ Fail(u)
       \/ \E to \in CutoverState : MoveCutover(u, to)

MigrationSpec == MigrationInit /\ [][MigrationNext]_migrationVars

(***************************************************************************)
(* Properties                                                              *)
(***************************************************************************)
\* The records of a currency whose total can be read, the first with each identifier.
Readable(s, c) ==
  {i \in DOMAIN s.records :
     LET r == s.records[i]
     IN  /\ r.source # None /\ r.currency = c /\ r.total # None
         /\ \A j \in 1..(i - 1) : s.records[j].source # r.source}

\* What a run converted is what it raised no exception of.
CarriedBy(run, c) ==
  {i \in DOMAIN run.source.records \ {e.of : e \in run.exceptions} :
     run.source.records[i].currency = c}

\* A run carries readable records only, at most one with each identifier, and
\* when it reconciles the readable records it left out cancel in each currency
\* and the source declared what it carried (Convert, Passed).  Totals have
\* signs, so a run can reconcile with readable records missing.
RunsBalance ==
  \A r \in DOMAIN runs : \A c \in Currency :
    LET s == runs[r].source
        TotalOf(S) == Sum(S, LAMBDA i : s.records[i].total)
    IN  /\ CarriedBy(runs[r], c) \subseteq Readable(s, c)
        /\ runs[r].passed =>
             /\ TotalOf(CarriedBy(runs[r], c)) = TotalOf(Readable(s, c))
             /\ s.declared[c] \in {None, TotalOf(CarriedBy(runs[r], c))}

\* However runs and decisions commit around a cutover move, a switch rests on a
\* run that reconciles with nothing HIGH undecided, and was not made by the
\* program's creator; so does the readiness before it (MoveCutover).
SwitchRestsOnReadyRun ==
  \A m \in readied :
    /\ ~Blocked(m.run)
    /\ m.state = "ROUTING_SWITCH" => m.by # Creator
================================================================================
