-------------------------- MODULE PlotStore_proofs --------------------------
(***************************************************************************)
(* The types of PlotStore, and the uniqueness of what POST /plots leaves   *)
(* behind, for every set of constellations, names and handlers and every   *)
(* bound.  The inductive invariant adds nothing to the two: that no two    *)
(* plots have one ID, and that generateID's IDs are new, is part of the    *)
(* types.                                                                  *)
(***************************************************************************)
EXTENDS PlotStore, FiniteSetTheorems, TLAPS

StoreInv == StoreTypeOK /\ UpsertsAreUnique

LEMMA DiskCount == Cardinality(DiskNames) \in Nat
  BY PlotStoreAssumption, FS_CardinalityType

\* What generateID makes is a plot with the next ID.
LEMMA NewIsPlot ==
  ASSUME NEW app \in Apps, NEW n \in Names, NEW v \in Nat, NEW i \in Nat
  PROVE  /\ New(app, n, v, i) \in Plot
         /\ New(app, n, v, i).id = i /\ New(app, n, v, i).app = app
         /\ New(app, n, v, i).name = n
  BY DEF New, Plot

\* POST /plots keeps the store well-formed, and what it leaves unique.
LEMMA UpsertKeeps ==
  ASSUME StoreInv, NEW app \in Apps, NEW n \in Names, NEW v \in Nat,
         Upsert(app, n, v), UNCHANGED exempt
  PROVE  StoreInv'
<1> USE NewIsPlot DEF StoreInv, StoreTypeOK
<1>1. CASE \E p \in plots : /\ Is(p, app, n)
                            /\ plots' = (plots \ {p}) \cup {New(app, n, v, p.id)}
                            /\ UNCHANGED nextId
  <2>1. PICK p \in plots : /\ Is(p, app, n)
                           /\ plots' = (plots \ {p}) \cup {New(app, n, v, p.id)}
                           /\ UNCHANGED nextId
    BY <1>1
  <2> DEFINE new == New(app, n, v, p.id)
  <2>2. new \in Plot /\ new.id = p.id /\ new.app = p.app /\ new.name = p.name
    <3>1. p \in Plot
      BY <2>1
    <3>2. p.id \in Nat /\ p.app = app /\ p.name = n
      BY <3>1, <2>1 DEF Plot, Is
    <3> QED BY <3>2
  <2> HIDE DEF new
  <2>3. StoreTypeOK'
    BY <2>1, <2>2 DEF new
  <2>4. UpsertsAreUnique'
    BY <2>1, <2>2 DEF new, UpsertsAreUnique
  <2> QED BY <2>3, <2>4
<1>2. CASE /\ \A p \in plots : ~Is(p, app, n)
           /\ plots' = plots \cup {New(app, n, v, nextId)}
           /\ nextId' = nextId + 1
  <2> DEFINE new == New(app, n, v, nextId)
  <2>1. new \in Plot /\ new.id = nextId /\ new.app = app /\ new.name = n
    OBVIOUS
  <2>2. \A p \in plots : p.id \in Nat
    BY DEF Plot
  <2> HIDE DEF new
  <2>3. StoreTypeOK'
    BY <1>2, <2>1, <2>2 DEF new
  <2>4. UpsertsAreUnique'
    BY <1>2, <2>1 DEF new, UpsertsAreUnique, Is
  <2> QED BY <2>3, <2>4
<1> QED BY <1>1, <1>2 DEF Upsert

\* An ingest adds a version, and flags at most one other plot.
LEMMA IngestKeeps ==
  ASSUME StoreInv, NEW app \in Apps, NEW n \in Names, NEW v \in Nat,
         Ingested(app, n, v), exempt' = exempt \cup {nextId}
  PROVE  StoreInv'
<1> USE NewIsPlot DEF StoreInv, StoreTypeOK
<1> DEFINE new == New(app, n, v, nextId)
<1>0. new \in Plot /\ new.id = nextId /\ nextId' = nextId + 1
  BY DEF Ingested
<1>00. \A p \in plots : p.id \in Nat
  BY DEF Plot
<1>1. CASE plots' = plots \cup {new}
  <2> HIDE DEF new
  <2>1. StoreTypeOK'
    BY <1>1, <1>0, <1>00
  <2>2. UpsertsAreUnique'
    BY <1>1, <1>0 DEF UpsertsAreUnique
  <2> QED BY <2>1, <2>2
<1>2. CASE \E p \in plots : plots' = (plots \ {p}) \cup {[p EXCEPT !.flagged = TRUE], new}
  <2>1. PICK p \in plots : plots' = (plots \ {p}) \cup {[p EXCEPT !.flagged = TRUE], new}
    BY <1>2
  <2> DEFINE old == [p EXCEPT !.flagged = TRUE]
  <2>2. old \in Plot /\ old.id = p.id /\ old.app = p.app /\ old.name = p.name
    <3>1. p \in [id : Nat, app : Apps, name : Names, ver : Nat, flagged : BOOLEAN]
      BY DEF Plot
    <3> QED BY ONLY <3>1 DEF Plot
  <2> HIDE DEF new, old
  <2>3. plots' = (plots \ {p}) \cup {old, new}
    BY <2>1 DEF old
  <2>4. StoreTypeOK'
    BY <2>3, <2>2, <1>0, <1>00
  <2>5. UpsertsAreUnique'
    BY <2>3, <2>2, <1>0 DEF UpsertsAreUnique
  <2> QED BY <2>4, <2>5
<1> QED BY <1>1, <1>2 DEF Ingested

-----------------------------------------------------------------------------
(* The steps                                                                *)

Rest == /\ repo \in [Tags -> [Names -> Nat]]
        /\ states \in [Tags -> Status]
        /\ disk \in Nat /\ signing \in Nat /\ secret \in [Tags -> Nat]
        /\ edits \in Nat /\ commits \in Nat /\ faults \in Nat

IInv == StoreInv /\ IngestTypeOK /\ SyncTypeOK /\ Rest

\* An action that leaves the store alone keeps what is said of it; so for the others.
LEMMA StoreFrame == ASSUME StoreInv, UNCHANGED store PROVE StoreInv'
  BY DEF StoreInv, StoreTypeOK, UpsertsAreUnique, store

LEMMA IngestFrame == ASSUME IngestTypeOK, UNCHANGED ingest PROVE IngestTypeOK'
  BY DEF IngestTypeOK

LEMMA SyncFrame == ASSUME SyncTypeOK, UNCHANGED sync PROVE SyncTypeOK'
  BY DEF SyncTypeOK

LEMMA FaultType == ASSUME faults \in Nat, Fault \/ UNCHANGED faults PROVE faults' \in Nat
  BY DEF Fault

\* One handler moves to a well-formed state.
LEMMA IngestMoves ==
  ASSUME IngestTypeOK, NEW h \in Ingests, NEW r \in IngestState,
         ingest' = [ingest EXCEPT ![h] = r],
         r.pc # "idle" => r.tag \in Tags, r.pc = "store" => r.name \in Names
  PROVE  IngestTypeOK'
  BY DEF IngestTypeOK

LEMMA SyncMoves ==
  ASSUME SyncTypeOK, NEW s \in Syncers, NEW r \in SyncState, Goto(s, r),
         r.pc \notin {"idle", "tags"} => r.tag \in Tags, r.pc = "post" => r.name \in Names
  PROVE  SyncTypeOK'
  BY DEF SyncTypeOK, Goto

\* Users of the API, and a restart of the store.
LEMMA EditStep ==
  ASSUME IInv, PostPlot \/ PutPlot \/ FlagPlot \/ DeletePlot
  PROVE  IInv'
<1>1. IngestTypeOK' /\ SyncTypeOK' /\ Rest'
  BY IngestFrame, SyncFrame DEF IInv, Rest, Edit, PostPlot, PutPlot, FlagPlot, DeletePlot,
     stargazer
<1>2. StoreInv'
  <2>1. CASE PostPlot
    BY <2>1, UpsertKeeps DEF PostPlot, IInv
  <2>2. CASE PutPlot
    <3>1. PICK p \in plots, app \in Apps, n \in Names :
            /\ plots' = (plots \ {p}) \cup {New(app, n, 0, p.id)}
            /\ exempt' = exempt \cup {p.id}
      BY <2>2 DEF PutPlot
    <3> DEFINE new == New(app, n, 0, p.id)
    <3>2. p.id \in Nat /\ p.id < nextId
      BY DEF IInv, StoreInv, StoreTypeOK, Plot
    <3>3. new \in Plot /\ new.id = p.id
      BY <3>2, NewIsPlot
    <3>4. plots' = (plots \ {p}) \cup {new} /\ nextId' = nextId
      BY <3>1, <2>2 DEF PutPlot
    <3> HIDE DEF new
    <3>5. StoreTypeOK'
      BY <3>1, <3>2, <3>3, <3>4 DEF IInv, StoreInv, StoreTypeOK
    <3>6. UpsertsAreUnique'
      BY <3>1, <3>3, <3>4 DEF IInv, StoreInv, StoreTypeOK, UpsertsAreUnique
    <3> QED BY <3>5, <3>6 DEF StoreInv
  <2>3. CASE FlagPlot
    <3>1. PICK p \in plots : plots' = (plots \ {p}) \cup {[p EXCEPT !.flagged = TRUE]}
      BY <2>3 DEF FlagPlot
    <3> DEFINE old == [p EXCEPT !.flagged = TRUE]
    <3>2. p \in [id : Nat, app : Apps, name : Names, ver : Nat, flagged : BOOLEAN]
      BY DEF IInv, StoreInv, StoreTypeOK, Plot
    <3>3. old \in Plot /\ old.id = p.id /\ old.app = p.app /\ old.name = p.name
      BY ONLY <3>2 DEF Plot
    <3>4. plots' = (plots \ {p}) \cup {old} /\ nextId' = nextId /\ exempt' = exempt
      BY <3>1, <2>3 DEF FlagPlot
    <3> HIDE DEF old
    <3>5. StoreTypeOK'
      BY <3>3, <3>4 DEF IInv, StoreInv, StoreTypeOK
    <3>6. UpsertsAreUnique'
      BY <3>3, <3>4 DEF IInv, StoreInv, UpsertsAreUnique
    <3> QED BY <3>5, <3>6 DEF StoreInv
  <2>4. CASE DeletePlot
    BY <2>4 DEF DeletePlot, IInv, StoreInv, StoreTypeOK, UpsertsAreUnique
  <2> QED BY <2>1, <2>2, <2>3, <2>4
<1> QED BY <1>1, <1>2 DEF IInv

LEMMA RestartStep == ASSUME IInv, StoreRestart PROVE IInv'
<1>1. IngestTypeOK'
  BY DEF StoreRestart, IngestTypeOK, IngestIdle, IngestState
<1>2. SyncTypeOK' /\ Rest'
  BY SyncFrame, FaultType DEF IInv, Rest, StoreRestart, stargazer
<1>3. PICK place \in [DiskNames -> 0 .. Cardinality(DiskNames) - 1] :
        /\ \A m, n \in DiskNames : place[m] = place[n] => m = n
        /\ plots' = {New(Self, n, 0, nextId + place[n]) : n \in DiskNames}
  BY DEF StoreRestart
<1>4. nextId' = nextId + Cardinality(DiskNames) /\ exempt' = exempt
  BY DEF StoreRestart
<1>5. nextId \in Nat /\ exempt \subseteq Nat /\ \A i \in exempt : i < nextId
  BY DEF IInv, StoreInv, StoreTypeOK
<1>6. \A n \in DiskNames :
        LET p == New(Self, n, 0, nextId + place[n])
        IN  /\ p \in Plot /\ p.id = nextId + place[n] /\ p.name = n
            /\ place[n] \in Nat /\ place[n] < Cardinality(DiskNames)
  <2> TAKE n \in DiskNames
  <2>1. place[n] \in Nat /\ place[n] < Cardinality(DiskNames)
    BY <1>3, DiskCount
  <2>2. nextId + place[n] \in Nat /\ 0 \in Nat
    BY <2>1, <1>5
  <2>3. Self \in Apps /\ n \in Names
    BY PlotStoreAssumption DEF Apps
  <2> QED BY <2>1, <2>2, <2>3, NewIsPlot
<1>7. StoreTypeOK'
  BY <1>3, <1>4, <1>5, <1>6, DiskCount DEF StoreTypeOK
<1>8. UpsertsAreUnique'
  BY <1>3, <1>6 DEF UpsertsAreUnique
<1> QED BY <1>1, <1>2, <1>7, <1>8 DEF IInv, StoreInv

\* The steps of an ingest.
LEMMA IngestStepKeeps == ASSUME IInv, NEW h \in Ingests, IngestHandler(h) PROVE IInv'
<1> DEFINE r == ingest[h]
<1>0. /\ r \in IngestState /\ IngestTypeOK
      /\ r.pc # "idle" => r.tag \in Tags
      /\ r.pc = "store" => r.name \in Names
  BY DEF IInv, IngestTypeOK
<1>1. IngestIdle \in IngestState /\ IngestIdle.pc = "idle"
  BY DEF IngestIdle, IngestState
<1> HIDE DEF r
<1>2. ASSUME NEW x, IngestStep(h, x), edits' \in Nat, Fault \/ UNCHANGED faults
      PROVE  SyncTypeOK' /\ Rest' /\ ingest' = [ingest EXCEPT ![h] = x]
  <2>1. /\ ingest' = [ingest EXCEPT ![h] = x]
        /\ UNCHANGED <<repo, sync, states, disk, signing, secret, commits>>
    BY <1>2 DEF IngestStep, stargazer
  <2>3. faults' \in Nat
    BY <1>2, FaultType DEF IInv, Rest
  <2>4. SyncTypeOK'
    BY <2>1, SyncFrame DEF IInv
  <2> QED BY <1>2, <2>1, <2>3, <2>4 DEF IInv, Rest
<1>3. CASE BeginIngest(h)
  <2>1. PICK t \in Tags : IngestStep(h, [IngestIdle EXCEPT !.pc = "list", !.tag = t])
    BY <1>3 DEF BeginIngest
  <2> DEFINE x == [IngestIdle EXCEPT !.pc = "list", !.tag = t]
  <2>2. x \in IngestState /\ x.pc = "list" /\ x.tag = t
    BY DEF IngestIdle, IngestState
  <2>3. IngestStep(h, x) /\ UNCHANGED faults /\ UNCHANGED store /\ edits' = edits + 1
    BY <2>1, <1>3 DEF BeginIngest
  <2> HIDE DEF x
  <2>4. edits' \in Nat
    BY <2>3 DEF IInv, Rest
  <2> QED BY <1>0, <1>2, <2>2, <2>3, <2>4, IngestMoves, StoreFrame DEF IInv
<1>4. CASE ListIngest(h)
  <2>1. UNCHANGED store /\ UNCHANGED edits /\ r.pc = "list"
    BY <1>4 DEF ListIngest, IngestAt, r
  <2> DEFINE x == [r EXCEPT !.pc = "files", !.files = Files(r.tag)]
  <2>2. x \in IngestState /\ x.pc = "files" /\ x.tag = r.tag
    BY <1>0 DEF IngestState, Files
  <2>3. \/ IngestStep(h, x) /\ UNCHANGED faults
        \/ IngestStep(h, IngestIdle) /\ Fault
    BY <1>4 DEF ListIngest, r
  <2> HIDE DEF x
  <2> QED BY <1>0, <1>1, <1>2, <2>1, <2>2, <2>3, IngestMoves, StoreFrame DEF IInv, Rest
<1>5. CASE FetchIngest(h)
  <2>1. UNCHANGED store /\ UNCHANGED edits /\ r.pc = "files"
    BY <1>5 DEF FetchIngest, IngestAt, r
  <2>2. PICK n \in r.files :
          LET rest == [r EXCEPT !.files = @ \ {n}]
          IN \/ /\ IngestStep(h, [rest EXCEPT !.pc = "store", !.name = n, !.ver = repo[r.tag][n]])
                /\ UNCHANGED faults
             \/ IngestStep(h, rest) /\ (Fault \/ UNCHANGED faults)
    BY <1>5 DEF FetchIngest, Fetched, r
  <2> DEFINE rest == [r EXCEPT !.files = @ \ {n}]
  <2> DEFINE x == [rest EXCEPT !.pc = "store", !.name = n, !.ver = repo[r.tag][n]]
  <2>3. n \in Names /\ repo[r.tag][n] \in Nat
    BY <1>0, <2>1, <2>2 DEF IngestState, IInv, Rest
  <2>4. rest \in IngestState /\ rest.pc = "files" /\ rest.tag = r.tag
    BY <1>0, <2>1 DEF IngestState
  <2>5. x \in IngestState /\ x.pc = "store" /\ x.tag = r.tag /\ x.name = n
    BY <2>3, <2>4 DEF IngestState
  <2>6. (IngestStep(h, rest) \/ IngestStep(h, x)) /\ (Fault \/ UNCHANGED faults)
    BY <2>2
  <2> HIDE DEF x, rest
  <2> QED BY <1>0, <1>2, <2>1, <2>3, <2>4, <2>5, <2>6, IngestMoves, StoreFrame DEF IInv, Rest
<1>6. CASE StoreIngest(h)
  <2> DEFINE x == [r EXCEPT !.pc = "files"]
  <2>0. PICK app \in {r.tag, AppId(r.tag)} : Ingested(app, r.name, r.ver)
    BY <1>6 DEF StoreIngest, r
  <2>1. /\ exempt' = exempt \cup {nextId}
        /\ r.pc = "store" /\ IngestStep(h, x) /\ UNCHANGED edits /\ UNCHANGED faults
    BY <1>6 DEF StoreIngest, IngestAt, r
  <2>2. x \in IngestState /\ x.pc = "files" /\ x.tag = r.tag
    BY <1>0 DEF IngestState
  <2>3. app \in Apps /\ r.name \in Names /\ r.ver \in Nat
    BY <1>0, <2>1 DEF Apps, IngestState
  <2>4. StoreInv'
    BY <2>0, <2>1, <2>3, IngestKeeps DEF IInv
  <2> HIDE DEF x
  <2> QED BY <1>0, <1>2, <2>1, <2>2, <2>4, IngestMoves DEF IInv, Rest
<1>7. CASE EndIngest(h)
  BY <1>7, <1>0, <1>1, <1>2, IngestMoves, StoreFrame DEF EndIngest, IInv, Rest
<1> QED BY <1>3, <1>4, <1>5, <1>6, <1>7 DEF IngestHandler

\* The steps of the goroutines that synchronise.
LEMMA SyncStepKeeps == ASSUME IInv, NEW s \in Syncers, SyncStep(s) PROVE IInv'
<1> DEFINE r == sync[s]
<1>0. /\ r \in SyncState /\ SyncTypeOK
      /\ r.pc \notin {"idle", "tags"} => r.tag \in Tags
      /\ r.pc = "post" => r.name \in Names
      /\ Here(s) = r.tag
  BY DEF IInv, SyncTypeOK, Here
<1>1. After(s) \in SyncState /\ After(s).pc \in {"idle", "tags"}
  <2>1. SyncIdle \in SyncState /\ SyncIdle.pc = "idle" /\ sync[s].tags \subseteq Tags
    BY <1>0 DEF SyncIdle, SyncState
  <2>2. [SyncIdle EXCEPT !.pc = "tags", !.tags = sync[s].tags] \in SyncState
    BY <2>1 DEF SyncIdle, SyncState
  <2>3. [SyncIdle EXCEPT !.pc = "tags", !.tags = sync[s].tags].pc = "tags"
    BY DEF SyncIdle
  <2> QED BY <2>1, <2>2, <2>3 DEF After
<1> HIDE DEF r
<1>2. ASSUME Quiet, Fault \/ UNCHANGED faults PROVE IngestTypeOK' /\ edits' \in Nat /\ commits' \in Nat
                                                /\ faults' \in Nat /\ repo' = repo
  BY <1>2, IngestFrame, FaultType DEF Quiet, IInv, Rest
<1>3. ASSUME NEW f \in Status, Report(s, f) PROVE states' \in [Tags -> Status]
  BY <1>3 DEF Report, IInv, Rest, Syncers
<1>4. ASSUME NEW v \in {"ok", "failed"}, r.tag \in Tags
      PROVE  /\ [states[Here(s)] EXCEPT !.cert = v] \in Status
             /\ [states[Here(s)] EXCEPT !.plots = v] \in Status
             /\ \A c \in Nat : [states[Here(s)] EXCEPT !.plots = v, !.count = c] \in Status
  <2>1. states[Here(s)] \in [cert : {"unknown", "ok", "failed"}, plots : {"unknown", "ok", "failed"}, count : Nat]
    BY <1>0, <1>4 DEF IInv, Rest, Status
  <2> QED BY ONLY <2>1, <1>4 DEF Status
<1>5. CASE LoadKey(s)
  <2> DEFINE x == [r EXCEPT !.pc = "cert"]  y == [r EXCEPT !.pc = "list"]
  <2>1. x \in SyncState /\ y \in SyncState /\ x.tag = r.tag /\ y.tag = r.tag
        /\ x.pc = "cert" /\ y.pc = "list" /\ r.pc = "key"
    BY <1>0, <1>5 DEF SyncState, LoadKey, At, r
  <2>2. Quiet /\ UNCHANGED <<store, states, disk, secret>> /\ (signing' = disk \/ signing' = signing)
        /\ (Fault \/ UNCHANGED faults) /\ (Goto(s, x) \/ Goto(s, y))
    BY <1>5 DEF LoadKey, r
  <2> HIDE DEF x, y
  <2>3. SyncTypeOK'
    BY <1>0, <2>1, <2>2, SyncMoves
  <2>4. StoreInv'
    BY <2>2, StoreFrame DEF IInv
  <2> QED BY <1>2, <2>2, <2>3, <2>4 DEF IInv, Rest
<1>6. CASE CheckSecret(s)
  <2> DEFINE x == [r EXCEPT !.pc = "put", !.ver = disk, !.found = secret[Here(s)] # 0]
  <2> DEFINE y == [r EXCEPT !.pc = "list"]
  <2>1. x \in SyncState /\ y \in SyncState /\ x.tag = r.tag /\ y.tag = r.tag
        /\ x.pc = "put" /\ y.pc = "list" /\ r.pc = "cert"
    BY <1>0, <1>6 DEF SyncState, CheckSecret, At, r, IInv, Rest
  <2>2. Quiet /\ UNCHANGED <<store, stargazer>> /\ (Fault \/ UNCHANGED faults)
        /\ (Goto(s, x) \/ Goto(s, y))
        /\ (UNCHANGED states \/ Report(s, [states[Here(s)] EXCEPT !.cert = "failed"]))
    BY <1>6 DEF CheckSecret, r
  <2> HIDE DEF x, y
  <2>3. SyncTypeOK'
    BY <1>0, <2>1, <2>2, SyncMoves
  <2>4. StoreInv'
    BY <2>2, StoreFrame DEF IInv
  <2>5. states' \in [Tags -> Status]
    BY <1>0, <1>3, <1>4, <2>1, <2>2 DEF IInv, Rest
  <2> QED BY <1>2, <2>2, <2>3, <2>4, <2>5 DEF IInv, Rest, stargazer
<1>7. CASE WriteSecret(s)
  <2> DEFINE x == [r EXCEPT !.pc = "list", !.ver = 0, !.found = FALSE]
  <2>1. x \in SyncState /\ x.tag = r.tag /\ x.pc = "list" /\ r.pc = "put" /\ r.ver \in Nat
    BY <1>0, <1>7 DEF SyncState, WriteSecret, At, r
  <2>2. Quiet /\ UNCHANGED <<store, disk, signing>> /\ (Fault \/ UNCHANGED faults) /\ Goto(s, x)
        /\ \/ UNCHANGED secret
           \/ secret' = [secret EXCEPT ![Here(s)] = r.ver]
        /\ \/ Report(s, [states[Here(s)] EXCEPT !.cert = "ok"])
           \/ Report(s, [states[Here(s)] EXCEPT !.cert = "failed"])
    BY <1>7 DEF WriteSecret, r
  <2> HIDE DEF x
  <2>3. SyncTypeOK'
    BY <1>0, <2>1, <2>2, SyncMoves
  <2>4. StoreInv'
    BY <2>2, StoreFrame DEF IInv
  <2>5. states' \in [Tags -> Status]
    BY <1>0, <1>3, <1>4, <2>1, <2>2
  <2> QED BY <1>2, <2>1, <2>2, <2>3, <2>4, <2>5 DEF IInv, Rest
<1>8. CASE ListFiles(s)
  <2> DEFINE x == [r EXCEPT !.pc = "files", !.files = Files(Here(s))]
  <2>1. x \in SyncState /\ x.tag = r.tag /\ x.pc = "files" /\ r.pc = "list"
    BY <1>0, <1>8 DEF SyncState, ListFiles, At, r, Files
  <2>2. Quiet /\ UNCHANGED <<store, stargazer>> /\ (Fault \/ UNCHANGED faults)
        /\ (Goto(s, x) \/ Goto(s, After(s)))
        /\ (UNCHANGED states \/ Report(s, [states[Here(s)] EXCEPT !.plots = "failed"]))
    BY <1>8 DEF ListFiles, r
  <2> HIDE DEF x
  <2>3. SyncTypeOK'
    BY <1>0, <1>1, <2>1, <2>2, SyncMoves
  <2>4. StoreInv'
    BY <2>2, StoreFrame DEF IInv
  <2>5. states' \in [Tags -> Status]
    BY <1>0, <1>3, <1>4, <2>1, <2>2 DEF IInv, Rest
  <2> QED BY <1>2, <2>2, <2>3, <2>4, <2>5 DEF IInv, Rest, stargazer
<1>9. CASE FetchFile(s)
  <2>1. r.pc = "files" /\ Quiet /\ UNCHANGED <<store, states, stargazer>>
    BY <1>9 DEF FetchFile, At, r
  <2>2. PICK n \in r.files :
          LET rest == [r EXCEPT !.files = @ \ {n}]
          IN \/ /\ Goto(s, [rest EXCEPT !.pc = "post", !.name = n, !.ver = repo[Here(s)][n]])
                /\ UNCHANGED faults
             \/ Goto(s, rest) /\ (Fault \/ UNCHANGED faults)
    BY <1>9 DEF FetchFile, Fetched, r
  <2> DEFINE rest == [r EXCEPT !.files = @ \ {n}]
  <2> DEFINE x == [rest EXCEPT !.pc = "post", !.name = n, !.ver = repo[Here(s)][n]]
  <2>3. n \in Names /\ repo[Here(s)][n] \in Nat
    BY <1>0, <2>1, <2>2 DEF SyncState, IInv, Rest
  <2>4. rest \in SyncState /\ rest.pc = "files" /\ rest.tag = r.tag
    BY <1>0, <2>1 DEF SyncState
  <2>5. x \in SyncState /\ x.pc = "post" /\ x.tag = r.tag /\ x.name = n
    BY <2>3, <2>4 DEF SyncState
  <2>6. (Goto(s, rest) \/ Goto(s, x)) /\ (Fault \/ UNCHANGED faults)
    BY <2>2
  <2> HIDE DEF x, rest
  <2>7. SyncTypeOK'
    BY <1>0, <2>1, <2>3, <2>4, <2>5, <2>6, SyncMoves
  <2>8. StoreInv'
    BY <2>1, StoreFrame DEF IInv
  <2> QED BY <1>2, <2>1, <2>6, <2>7, <2>8 DEF IInv, Rest, stargazer
<1>10. CASE PostFile(s)
  <2> DEFINE next == [r EXCEPT !.pc = "files", !.name = Nil, !.ver = 0]
  <2> DEFINE x == [next EXCEPT !.count = @ + 1]
  <2>1. r.pc = "post" /\ r.tag \in Tags /\ r.name \in Names /\ r.ver \in Nat
    BY <1>0, <1>10 DEF SyncState, PostFile, At, r
  <2>2. next \in SyncState /\ next.pc = "files" /\ next.tag = r.tag
    BY <1>0, <2>1 DEF SyncState
  <2>3. x \in SyncState /\ x.pc = "files" /\ x.tag = r.tag
    <3>1. next.count \in Nat
      BY <2>2 DEF SyncState
    <3> HIDE DEF next
    <3> QED BY <3>1, <2>2 DEF SyncState
  <2>4. /\ Quiet /\ UNCHANGED <<exempt, states, stargazer>> /\ (Fault \/ UNCHANGED faults)
        /\ Goto(s, x) \/ Goto(s, next)
        /\ Upsert(r.tag, r.name, r.ver) \/ UNCHANGED <<plots, nextId>>
    BY <1>10, <1>0 DEF PostFile, r
  <2> HIDE DEF x, next
  <2>5. SyncTypeOK'
    BY <1>0, <2>1, <2>2, <2>3, <2>4, SyncMoves
  <2>6. StoreInv'
    <3>1. CASE Upsert(r.tag, r.name, r.ver)
      BY <3>1, <2>1, <2>4, UpsertKeeps DEF IInv, Apps
    <3>2. CASE UNCHANGED <<plots, nextId>>
      BY <3>2, <2>4, StoreFrame DEF IInv, store
    <3> QED BY <3>1, <3>2, <2>4
  <2> QED BY <1>2, <2>4, <2>5, <2>6 DEF IInv, Rest, stargazer
<1>11. CASE EndTag(s)
  <2>1. r.pc = "files" /\ r.tag \in Tags /\ r.count \in Nat
    BY <1>0, <1>11 DEF SyncState, EndTag, At, r
  <2>2. Quiet /\ UNCHANGED <<store, stargazer, faults>> /\ Goto(s, After(s))
        /\ Report(s, [states[Here(s)] EXCEPT !.plots = "ok", !.count = r.count])
    BY <1>11 DEF EndTag, r
  <2>3. SyncTypeOK'
    BY <1>0, <1>1, <2>2, SyncMoves
  <2>4. StoreInv'
    BY <2>2, StoreFrame DEF IInv
  <2>5. states' \in [Tags -> Status]
    BY <1>3, <1>4, <2>1, <2>2
  <2> QED BY <1>2, <2>2, <2>3, <2>4, <2>5 DEF IInv, Rest, stargazer
<1> QED BY <1>5, <1>6, <1>7, <1>8, <1>9, <1>10, <1>11 DEF SyncStep

\* The start of a round, or of POST /sync/{tag}; the environment.
LEMMA OtherStep ==
  ASSUME IInv, LoopStep \/ (\E t \in Tags : BeginSync(t)) \/ Commit \/ Rotate \/ ConnieRestart
  PROVE  IInv'
<1>0. SyncIdle \in SyncState /\ SyncIdle.pc = "idle" /\ SyncIdle.tag = Nil /\ Loop \in Syncers
  BY DEF SyncIdle, SyncState, Syncers
<1>1. CASE BeginRound
  <2> DEFINE x == [SyncIdle EXCEPT !.pc = "tags", !.tags = Tags]
  <2>1. x \in SyncState /\ x.pc = "tags"
    BY DEF SyncIdle, SyncState
  <2>2. Goto(Loop, x) /\ Quiet /\ UNCHANGED <<store, states, stargazer, faults>>
    BY <1>1 DEF BeginRound
  <2> HIDE DEF x
  <2>3. SyncTypeOK'
    BY <1>0, <2>1, <2>2, SyncMoves DEF IInv
  <2> QED BY <2>2, <2>3, StoreFrame, IngestFrame DEF IInv, Rest, Quiet, stargazer
<1>2. CASE NextTag
  <2>1. Quiet /\ UNCHANGED <<store, states, stargazer, faults>>
    BY <1>2 DEF NextTag
  <2>2. sync[Loop].tags \subseteq Tags
    BY <1>0 DEF IInv, SyncTypeOK, SyncState
  <2>3. SyncTypeOK'
    <3>1. CASE Goto(Loop, SyncIdle)
      BY <3>1, <1>0, SyncMoves DEF IInv
    <3>2. CASE \E t \in sync[Loop].tags :
                 Goto(Loop, [SyncIdle EXCEPT !.pc = "key", !.tag = t, !.tags = sync[Loop].tags \ {t}])
      <4>1. PICK t \in sync[Loop].tags :
              Goto(Loop, [SyncIdle EXCEPT !.pc = "key", !.tag = t, !.tags = sync[Loop].tags \ {t}])
        BY <3>2
      <4> DEFINE x == [SyncIdle EXCEPT !.pc = "key", !.tag = t, !.tags = sync[Loop].tags \ {t}]
      <4>2. x \in SyncState /\ x.pc = "key" /\ x.tag \in Tags
        BY <2>2 DEF SyncIdle, SyncState
      <4>3. Goto(Loop, x)
        BY <4>1
      <4> HIDE DEF x
      <4> QED BY <1>0, <4>2, <4>3, SyncMoves DEF IInv
    <3> QED BY <1>2, <3>1, <3>2 DEF NextTag
  <2> QED BY <2>1, <2>3, StoreFrame, IngestFrame DEF IInv, Rest, Quiet, stargazer
<1>3. CASE \E t \in Tags : BeginSync(t)
  <2>1. PICK t \in Tags : BeginSync(t)
    BY <1>3
  <2> DEFINE x == [SyncIdle EXCEPT !.pc = "key", !.tag = t]
  <2>2. x \in SyncState /\ x.pc = "key" /\ x.tag \in Tags /\ t \in Syncers
    BY DEF SyncIdle, SyncState, Syncers
  <2>3. /\ Goto(t, x) /\ edits' = edits + 1
        /\ UNCHANGED <<store, ingest, repo, states, stargazer, commits, faults>>
    BY <2>1 DEF BeginSync
  <2> HIDE DEF x
  <2>4. SyncTypeOK'
    BY <2>2, <2>3, SyncMoves DEF IInv
  <2> QED BY <2>3, <2>4, StoreFrame, IngestFrame DEF IInv, Rest, stargazer
<1>4. CASE Commit
  <2>1. PICK t \in Tags, n \in Names, v \in {commits + 2, 0} : repo' = [repo EXCEPT ![t][n] = v]
    BY <1>4 DEF Commit
  <2>2. repo' \in [Tags -> [Names -> Nat]]
    BY <2>1 DEF IInv, Rest
  <2>3. commits' \in Nat /\ UNCHANGED <<store, ingest, sync, states, stargazer, edits, faults>>
    BY <1>4 DEF Commit, IInv, Rest
  <2> QED BY <2>2, <2>3, StoreFrame, IngestFrame, SyncFrame DEF IInv, Rest, stargazer
<1>5. CASE Rotate
  BY <1>5, StoreFrame, IngestFrame, SyncFrame DEF Rotate, IInv, Rest, bounds
<1>6. CASE ConnieRestart
  <2>1. SyncTypeOK'
    BY <1>6, <1>0 DEF ConnieRestart, SyncTypeOK
  <2>2. states' \in [Tags -> Status]
    BY <1>6 DEF ConnieRestart, Status
  <2>3. faults' \in Nat
    BY <1>6, FaultType DEF ConnieRestart, IInv, Rest
  <2>4. signing' = disk /\ UNCHANGED <<store, ingest, repo, disk, secret, edits, commits>>
    BY <1>6 DEF ConnieRestart
  <2> QED BY <2>1, <2>2, <2>3, <2>4, StoreFrame, IngestFrame DEF IInv, Rest
<1> QED BY <1>1, <1>2, <1>3, <1>4, <1>5, <1>6 DEF LoopStep

-----------------------------------------------------------------------------
(* The theorems                                                             *)

LEMMA InitIInv == Init => IInv
<1> SUFFICES ASSUME Init PROVE IInv
  OBVIOUS
<1>1. PICK place \in [DiskNames -> 0 .. Cardinality(DiskNames) - 1] :
        /\ \A m, n \in DiskNames : place[m] = place[n] => m = n
        /\ plots = {New(Self, n, 0, place[n]) : n \in DiskNames}
  BY DEF Init
<1>2. nextId = Cardinality(DiskNames) /\ exempt = {}
  BY DEF Init
<1>3. \A n \in DiskNames :
        LET p == New(Self, n, 0, place[n])
        IN  p \in Plot /\ p.id = place[n] /\ p.name = n /\ place[n] < Cardinality(DiskNames)
  <2> TAKE n \in DiskNames
  <2>1. place[n] \in Nat /\ place[n] < Cardinality(DiskNames)
    BY <1>1, DiskCount
  <2>2. Self \in Apps /\ n \in Names /\ 0 \in Nat
    BY PlotStoreAssumption DEF Apps
  <2> QED BY <2>1, <2>2, NewIsPlot
<1>4. StoreTypeOK
  BY <1>1, <1>2, <1>3, DiskCount DEF StoreTypeOK
<1>5. UpsertsAreUnique
  BY <1>1, <1>3 DEF UpsertsAreUnique
<1>6. IngestTypeOK /\ SyncTypeOK
  BY DEF Init, IngestTypeOK, SyncTypeOK, IngestIdle, SyncIdle, IngestState, SyncState
<1>7. Rest
  BY DEF Init, Rest, Status
<1> QED BY <1>4, <1>5, <1>6, <1>7 DEF IInv, StoreInv

LEMMA NextIInv == IInv /\ [Next]_vars => IInv'
<1> SUFFICES ASSUME IInv, [Next]_vars PROVE IInv'
  OBVIOUS
<1>1. CASE UNCHANGED vars
  BY <1>1, StoreFrame, IngestFrame, SyncFrame DEF IInv, Rest, vars, stargazer, bounds
<1>2. CASE Next
  BY <1>2, EditStep, RestartStep, IngestStepKeeps, SyncStepKeeps, OtherStep DEF Next
<1> QED BY <1>1, <1>2

\* Every variable has its type, IDs are never used twice, and a handler always knows the
\* constellation and the file it is about.
THEOREM PlotStoreTypeCorrect == Spec => []TypeOK
<1>1. IInv => TypeOK
  BY DEF IInv, StoreInv, Rest, TypeOK
<1> QED BY <1>1, InitIInv, NextIInv, PTL DEF Spec

\* The upsert of POST /plots never leaves two plots of one application and name, whatever else
\* is going on.
THEOREM PostedPlotsAreUnique == Spec => []UpsertsAreUnique
<1>1. IInv => UpsertsAreUnique
  BY DEF IInv, StoreInv
<1> QED BY <1>1, InitIInv, NextIInv, PTL DEF Spec
=============================================================================
