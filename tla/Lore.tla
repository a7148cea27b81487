------------------------------- MODULE Lore -------------------------------
(***************************************************************************)
(* Lore (lore/main.go): SETI's memory of incidents, trend points, baselines *)
(* and patterns, in PostgreSQL.  Every handler is one statement, so one     *)
(* step.  A record is identified by the run it is about and the job that    *)
(* wrote it; Earlier stands for the runs of before.  The tables outlive     *)
(* every restart.                                                           *)
(***************************************************************************)
EXTENDS Integers, FiniteSets

CONSTANTS
  Apps,      \* applications
  Runs,      \* test runs that a record may be about
  Earlier,   \* stands for the runs before the initial state
  MaxEdits   \* bound on what users of the API write

VARIABLES
  incidents,    \* table incidents
  trendPoints,  \* table trend_points
  baselines,    \* table baselines: per application, when established and when updated
  patterns,     \* table patterns: how many per application
  edits         \* writes of users of the API so far

lore == <<incidents, trendPoints, baselines, patterns, edits>>

Sources == {"interactions", "ai-lien", "results", "wr4ngler"}

\* recent: recorded within the last 168 hours.
Incident == [run : Runs \cup {Earlier}, app : Apps, source : Sources,
             status : {"open", "resolved"}, recent : BOOLEAN]
TrendPoint == [run : Runs, app : Apps, source : Sources]
Baseline == [established : Nat, updated : Nat]

LoreTypeOK ==
  /\ incidents \subseteq Incident
  /\ trendPoints \subseteq TrendPoint
  /\ baselines \in [Apps -> Baseline]
  /\ patterns \in [Apps -> Nat]
  /\ edits \in Nat

\* The tables as an earlier life of the system may have left them: with an open incident or
\* without one.
LoreInit ==
  /\ incidents \in {{}} \cup {{i} : i \in [run : {Earlier}, app : Apps, source : {"interactions"},
                                         status : {"open"}, recent : {TRUE}]}
  /\ trendPoints = {}
  /\ baselines = [a \in Apps |-> [established |-> 0, updated |-> 0]]
  /\ patterns = [a \in Apps |-> 0]
  /\ edits = 0

-----------------------------------------------------------------------------
\* Jobs from which POST /trend-points accepts a record; the others are answered 400.
ValidSources == {"ai-lien", "results", "wr4ngler"}

\* POST /trend-points
RecordTrendPoint(r, a, source) ==
  trendPoints' = IF source \in ValidSources
                   THEN trendPoints \cup {[run |-> r, app |-> a, source |-> source]}
                   ELSE trendPoints

\* POST /incidents
RecordIncident(r, a, source) ==
  incidents' = incidents \cup {[run |-> r, app |-> a, source |-> source,
                                status |-> "open", recent |-> TRUE]}

\* GET /incidents?application_id=a&status=open&since=<168 hours ago>
OpenRecently(a) == {i \in incidents : i.app = a /\ i.status = "open" /\ i.recent}

\* POST /incidents/{id}/resolve: an incident that is not open is answered 409.
Resolve ==
  /\ \E i \in incidents :
       /\ i.status = "open"
       /\ incidents' = (incidents \ {i}) \cup {[i EXCEPT !.status = "resolved"]}
  /\ UNCHANGED <<trendPoints, baselines, patterns, edits>>

\* A user of the API writes a baseline, a pattern or an incident.
Edit == edits < MaxEdits /\ edits' = edits + 1 /\ UNCHANGED trendPoints

\* PUT /baselines/{app}/{job}: ON CONFLICT leaves established_at alone.
PutBaseline(a) ==
  /\ Edit
  /\ baselines' = [baselines EXCEPT ![a] =
       [established |-> IF @.established = 0 THEN edits' ELSE @.established,
        updated |-> edits']]
  /\ UNCHANGED <<incidents, patterns>>

\* POST /patterns: always a new pattern.
AddPattern(a) ==
  /\ Edit
  /\ patterns' = [patterns EXCEPT ![a] = @ + 1]
  /\ UNCHANGED <<incidents, baselines>>

\* POST /incidents about something else than a run of the model, once per application.
ReportIncident(a) ==
  /\ Edit
  /\ \A i \in incidents : ~(i.run = Earlier /\ i.app = a /\ i.source = "results")
  /\ RecordIncident(Earlier, a, "results")
  /\ UNCHANGED <<baselines, patterns>>

\* A week passes: no incident of now is within the last 168 hours.
WeekPasses ==
  /\ \E i \in incidents : i.recent
  /\ incidents' = {[i EXCEPT !.recent = FALSE] : i \in incidents}
  /\ UNCHANGED <<trendPoints, baselines, patterns, edits>>
=============================================================================
