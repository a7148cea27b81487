----------------------------- MODULE PlotStore -----------------------------
(***************************************************************************)
(* Plot Store (plot-store/main.go) and the programs that fill it: the      *)
(* rounds of connie-agent (connie-agent/main.go, plots.go, k8s.go), which  *)
(* bring the star-gazer certificate and the plot files of each             *)
(* constellation up to date, and the ingest that Policy asks for when it   *)
(* activates an application.  The store is in memory: a restart leaves the *)
(* plots on its disk, under new IDs.  A plot's content is a version: the   *)
(* number of the commit that wrote its file.                               *)
(***************************************************************************)
EXTENDS Integers, FiniteSets

CONSTANTS
  Tags,        \* constellations in remote-apps.json
  Names,       \* names of plots
  Self,        \* SETI's own application
  DiskNames,   \* names of the plots on Plot Store's disk, all of them SETI's
  Loop,        \* connie-agent's sync loop
  Ingests,     \* slots for concurrent ingest handlers
  Nil,
  MaxEdits, MaxCommits, MaxRotations, MaxFaults  \* bounds on the environment

\* An ingested plot is filed under the ID that Policy gives the application, unless its file
\* names another.
AppId(t) == <<"app", t>>
Apps == {Self} \cup Tags \cup {AppId(t) : t \in Tags}

\* The goroutines that synchronise: the loop, and POST /sync/{tag}, one per tag.
Syncers == {Loop} \cup Tags

ASSUME PlotStoreAssumption ==
  /\ DiskNames \subseteq Names /\ IsFiniteSet(DiskNames)
  /\ Loop \notin Tags /\ Nil \notin Tags \cup Names
  /\ {MaxEdits, MaxCommits, MaxRotations, MaxFaults} \subseteq Nat

VARIABLES
  plots, nextId, \* Plot Store: the plots, and the next ID of generateID
  exempt,        \* history: IDs that an ingest made, or that a PUT gave a name
  ingest,        \* per ingest handler: its step, tag, files to do, version read
  repo,          \* per constellation and name: version of the plot file, 0 if none
  sync,          \* per syncer: its step, tag, tags and files to do, version read
  states,        \* connie-agent: CertStatus, PlotStatus and PlotsCount per tag
  disk,          \* version of the star-gazer key and certificate on disk
  signing,       \* version of the key that connie-agent signs with
  secret,        \* per constellation: version of its seti-stargazer-cert, 0 if none
  edits, commits, faults   \* how often the environment has acted

store == <<plots, nextId, exempt>>
stargazer == <<disk, signing, secret>>
bounds == <<edits, commits, faults>>
vars == <<store, ingest, repo, sync, states, stargazer, bounds>>

Plot == [id : Nat, app : Apps, name : Names, ver : Nat, flagged : BOOLEAN]

IngestIdle == [pc |-> "idle", tag |-> Nil, files |-> {}, ver |-> 0, name |-> Nil]
SyncIdle == [pc |-> "idle", tag |-> Nil, tags |-> {}, files |-> {}, ver |-> 0,
             name |-> Nil, found |-> FALSE, count |-> 0]

IngestState == [pc : {"idle", "list", "files", "store"}, tag : Tags \cup {Nil},
                files : SUBSET Names, ver : Nat, name : Names \cup {Nil}]
SyncState == [pc : {"idle", "tags", "key", "cert", "put", "list", "files", "post"},
              tag : Tags \cup {Nil}, tags : SUBSET Tags, files : SUBSET Names,
              ver : Nat, name : Names \cup {Nil}, found : BOOLEAN, count : Nat]
Status == [cert : {"unknown", "ok", "failed"}, plots : {"unknown", "ok", "failed"},
           count : Nat]

\* No two plots have one ID, and IDs come from generateID.
StoreTypeOK ==
  /\ plots \subseteq Plot /\ nextId \in Nat /\ exempt \subseteq Nat
  /\ \A p, q \in plots : p.id = q.id => p = q
  /\ \A p \in plots : p.id < nextId
  /\ \A i \in exempt : i < nextId

\* An ingest at work knows its constellation, and the name of the file it stores.
IngestTypeOK ==
  /\ ingest \in [Ingests -> IngestState]
  /\ \A h \in Ingests : /\ ingest[h].pc # "idle" => ingest[h].tag \in Tags
                        /\ ingest[h].pc = "store" => ingest[h].name \in Names

\* So does a syncer.
SyncTypeOK ==
  /\ sync \in [Syncers -> SyncState]
  /\ \A s \in Syncers : /\ sync[s].pc \notin {"idle", "tags"} => sync[s].tag \in Tags
                        /\ sync[s].pc = "post" => sync[s].name \in Names

\* Types, with what the handlers rely on when they use an ID, a tag or a name.
TypeOK ==
  /\ StoreTypeOK /\ IngestTypeOK /\ SyncTypeOK
  /\ repo \in [Tags -> [Names -> Nat]]
  /\ states \in [Tags -> Status]
  /\ disk \in Nat /\ signing \in Nat /\ secret \in [Tags -> Nat]
  /\ edits \in Nat /\ commits \in Nat /\ faults \in Nat

\* A call that fails, or a restart.
Fault == faults < MaxFaults /\ faults' = faults + 1

-----------------------------------------------------------------------------
(* Plot Store: one critical section per request                             *)

Is(p, app, name) == p.app = app /\ p.name = name

New(app, name, ver, i) ==
  [id |-> i, app |-> app, name |-> name, ver |-> ver, flagged |-> FALSE]

\* Mutant of Upsert: a plot is always added.
UpsertAdds(app, name, ver) ==
  plots' = plots \cup {New(app, name, ver, nextId)} /\ nextId' = nextId + 1

\* POST /plots: replaces a plot of that application and name, whichever the iteration
\* over the map meets first, or adds one.  No version is kept, and none is refused with 409.
Upsert(app, name, ver) ==
  \/ \E p \in plots :
       /\ Is(p, app, name)
       /\ plots' = (plots \ {p}) \cup {New(app, name, ver, p.id)}
       /\ UNCHANGED nextId
  \/ /\ \A p \in plots : ~Is(p, app, name)
     /\ plots' = plots \cup {New(app, name, ver, nextId)}
     /\ nextId' = nextId + 1

\* A user of the API creates, replaces, flags or deletes a plot.
Edit == edits < MaxEdits /\ edits' = edits + 1
        /\ UNCHANGED <<ingest, repo, sync, states, stargazer, commits, faults>>

PostPlot == Edit /\ (\E app \in Apps, n \in Names : Upsert(app, n, 0)) /\ UNCHANGED exempt

\* PUT replaces everything but the ID; the new name is compared with no other plot's.
PutPlot ==
  /\ Edit
  /\ \E p \in plots, app \in Apps, n \in Names :
       /\ plots' = (plots \ {p}) \cup {New(app, n, 0, p.id)}
       /\ exempt' = exempt \cup {p.id}
  /\ UNCHANGED nextId

FlagPlot ==
  /\ Edit
  /\ \E p \in plots : plots' = (plots \ {p}) \cup {[p EXCEPT !.flagged = TRUE]}
  /\ UNCHANGED <<nextId, exempt>>

DeletePlot == Edit /\ (\E p \in plots : plots' = plots \ {p}) /\ UNCHANGED <<nextId, exempt>>

\* loadPlotsFromDisk gives the n-th file the n-th new ID; the order is the directory's.
StoreRestart ==
  /\ Fault
  /\ \E place \in [DiskNames -> 0 .. Cardinality(DiskNames) - 1] :
       /\ \A m, n \in DiskNames : place[m] = place[n] => m = n
       /\ plots' = {New(Self, n, 0, nextId + place[n]) : n \in DiskNames}
  /\ nextId' = nextId + Cardinality(DiskNames)
  /\ ingest' = [h \in Ingests |-> IngestIdle]
  /\ UNCHANGED <<exempt, repo, sync, states, stargazer, edits, commits>>

-----------------------------------------------------------------------------
(* POST /ingest/{tag}: Plot Store reads the constellation's repository      *)
(* itself, file by file.                                                    *)

\* The plot files that a repository lists, and what can be read of one: nothing, once it
\* has been removed.
Files(t) == {n \in Names : repo[t][n] # 0}
Fetched(t, n) == {repo[t][n]} \ {0}

IngestAt(h, pc) == ingest[h].pc = pc
IngestStep(h, r) ==
  /\ ingest' = [ingest EXCEPT ![h] = r]
  /\ UNCHANGED <<repo, sync, states, stargazer, commits>>

\* Policy activates the application; it does so again after each deactivation.
BeginIngest(h) ==
  /\ IngestAt(h, "idle")
  /\ edits < MaxEdits /\ edits' = edits + 1
  /\ \E t \in Tags : IngestStep(h, [IngestIdle EXCEPT !.pc = "list", !.tag = t])
  /\ UNCHANGED <<store, faults>>

\* The listing of contracts/plots; without it the handler answers 502.
ListIngest(h) ==
  /\ IngestAt(h, "list")
  /\ \/ /\ IngestStep(h, [ingest[h] EXCEPT !.pc = "files", !.files = Files(ingest[h].tag)])
        /\ UNCHANGED faults
     \/ IngestStep(h, IngestIdle) /\ Fault
  /\ UNCHANGED <<store, edits>>

\* The next file is read; one that cannot be read is skipped.
FetchIngest(h) ==
  /\ IngestAt(h, "files")
  /\ \E n \in ingest[h].files :
       LET rest == [ingest[h] EXCEPT !.files = @ \ {n}]
           content == Fetched(ingest[h].tag, n)
       IN \/ /\ \E v \in content :
                  IngestStep(h, [rest EXCEPT !.pc = "store", !.name = n, !.ver = v])
             /\ UNCHANGED faults
          \/ content = {} /\ IngestStep(h, rest) /\ UNCHANGED faults
          \/ IngestStep(h, rest) /\ Fault
  /\ UNCHANGED <<store, edits>>

\* A plot of that application and name is flagged as superseded, the one the iteration
\* over the map meets first; the version ingested is added in any case.
Ingested(app, name, ver) ==
  /\ \/ /\ \A p \in plots : ~Is(p, app, name)
        /\ plots' = plots \cup {New(app, name, ver, nextId)}
     \/ \E p \in plots :
          /\ Is(p, app, name)
          /\ plots' = (plots \ {p}) \cup {[p EXCEPT !.flagged = TRUE], New(app, name, ver, nextId)}
  /\ nextId' = nextId + 1

\* The application is the one that the file names, if it names one.
StoreIngest(h) ==
  /\ IngestAt(h, "store")
  /\ \E app \in {ingest[h].tag, AppId(ingest[h].tag)} :
       Ingested(app, ingest[h].name, ingest[h].ver)
  /\ exempt' = exempt \cup {nextId}
  /\ IngestStep(h, [ingest[h] EXCEPT !.pc = "files"])
  /\ UNCHANGED <<edits, faults>>

EndIngest(h) ==
  /\ IngestAt(h, "files") /\ ingest[h].files = {}
  /\ IngestStep(h, IngestIdle)
  /\ UNCHANGED <<store, edits, faults>>

IngestHandler(h) == \/ BeginIngest(h) \/ ListIngest(h) \/ FetchIngest(h)
                    \/ StoreIngest(h) \/ EndIngest(h)

-----------------------------------------------------------------------------
(* connie-agent: a round of the loop, or of POST /sync/{tag}                *)

At(s, pc) == sync[s].pc = pc
Goto(s, r) == sync' = [sync EXCEPT ![s] = r]
Here(s) == sync[s].tag

\* Only the goroutine of POST /sync/{tag} keeps the status that GET /status answers.
Report(s, f) ==
  states' = IF s = Loop THEN states ELSE [states EXCEPT ![s] = f]

Quiet == UNCHANGED <<ingest, repo, edits, commits>>

\* syncAll at startup and syncNonFederation at every tick: all constellations.
BeginRound ==
  /\ At(Loop, "idle")
  /\ Goto(Loop, [SyncIdle EXCEPT !.pc = "tags", !.tags = Tags])
  /\ Quiet /\ UNCHANGED <<store, states, stargazer, faults>>

NextTag ==
  /\ At(Loop, "tags")
  /\ \/ \E t \in sync[Loop].tags :
          Goto(Loop, [SyncIdle EXCEPT !.pc = "key", !.tag = t, !.tags = sync[Loop].tags \ {t}])
     \/ sync[Loop].tags = {} /\ Goto(Loop, SyncIdle)
  /\ Quiet /\ UNCHANGED <<store, states, stargazer, faults>>

\* POST /sync/{tag}: refused while such a goroutine is at work.
BeginSync(t) ==
  /\ At(t, "idle")
  /\ edits < MaxEdits /\ edits' = edits + 1
  /\ Goto(t, [SyncIdle EXCEPT !.pc = "key", !.tag = t])
  /\ UNCHANGED <<store, ingest, repo, states, stargazer, commits, faults>>

\* Mutant of LoadKey: the key is only loaded when connie-agent starts.
LoadKeyOnce(s) ==
  /\ At(s, "key")
  /\ Goto(s, [sync[s] EXCEPT !.pc = "cert"])
  /\ Quiet /\ UNCHANGED <<store, states, stargazer, faults>>

\* loadStarGazerKey: the key is read again; without it the certificate is left alone.
LoadKey(s) ==
  /\ At(s, "key")
  /\ \/ /\ signing' = disk
        /\ Goto(s, [sync[s] EXCEPT !.pc = "cert"]) /\ UNCHANGED faults
     \/ Goto(s, [sync[s] EXCEPT !.pc = "list"]) /\ Fault /\ UNCHANGED signing
  /\ Quiet /\ UNCHANGED <<store, states, disk, secret>>

\* writeStarGazerCert: the certificate is read, and the namespace asked for the Secret.
CheckSecret(s) ==
  /\ At(s, "cert")
  /\ \/ /\ Goto(s, [sync[s] EXCEPT !.pc = "put", !.ver = disk, !.found = secret[Here(s)] # 0])
        /\ UNCHANGED <<states, faults>>
     \/ /\ Goto(s, [sync[s] EXCEPT !.pc = "list"]) /\ Fault
        /\ Report(s, [states[Here(s)] EXCEPT !.cert = "failed"])
  /\ Quiet /\ UNCHANGED <<store, stargazer>>

\* PUT replaces the Secret that was found; POST creates it, and is refused when another
\* round has created it in between.
WriteSecret(s) ==
  /\ At(s, "put")
  /\ Goto(s, [sync[s] EXCEPT !.pc = "list", !.ver = 0, !.found = FALSE])
  /\ \/ /\ sync[s].found \/ secret[Here(s)] = 0
        /\ secret' = [secret EXCEPT ![Here(s)] = sync[s].ver]
        /\ Report(s, [states[Here(s)] EXCEPT !.cert = "ok"]) /\ UNCHANGED faults
     \/ /\ Report(s, [states[Here(s)] EXCEPT !.cert = "failed"])
        /\ UNCHANGED secret
        /\ \/ ~sync[s].found /\ secret[Here(s)] # 0 /\ UNCHANGED faults
           \/ Fault
  /\ Quiet /\ UNCHANGED <<store, disk, signing>>

\* A round that ends: the loop goes on to its next constellation.
After(s) == IF s = Loop THEN [SyncIdle EXCEPT !.pc = "tags", !.tags = sync[s].tags]
            ELSE SyncIdle

\* listPlotFiles; a failure ends the synchronisation of the constellation.
ListFiles(s) ==
  /\ At(s, "list")
  /\ \/ /\ Goto(s, [sync[s] EXCEPT !.pc = "files", !.files = Files(Here(s))])
        /\ UNCHANGED <<states, faults>>
     \/ /\ Goto(s, After(s)) /\ Fault
        /\ Report(s, [states[Here(s)] EXCEPT !.plots = "failed"])
  /\ Quiet /\ UNCHANGED <<store, stargazer>>

\* The next file is read; one that cannot be read is skipped.
FetchFile(s) ==
  /\ At(s, "files")
  /\ \E n \in sync[s].files :
       LET rest == [sync[s] EXCEPT !.files = @ \ {n}]
           content == Fetched(Here(s), n)
       IN \/ /\ \E v \in content : Goto(s, [rest EXCEPT !.pc = "post", !.name = n, !.ver = v])
             /\ UNCHANGED faults
          \/ content = {} /\ Goto(s, rest) /\ UNCHANGED faults
          \/ Goto(s, rest) /\ Fault
  /\ Quiet /\ UNCHANGED <<store, states, stargazer>>

\* Mutant of PostFile: what was read is only posted when the store knows the plot.
PostFileKnown(s) ==
  /\ At(s, "post")
  /\ LET next == [sync[s] EXCEPT !.pc = "files", !.name = Nil, !.ver = 0]
     IN \/ /\ \E p \in plots : Is(p, Here(s), sync[s].name)
           /\ Upsert(Here(s), sync[s].name, sync[s].ver)
           /\ Goto(s, [next EXCEPT !.count = @ + 1])
        \/ Goto(s, next) /\ UNCHANGED <<plots, nextId>>
  /\ Quiet /\ UNCHANGED <<exempt, states, stargazer, faults>>

\* POST /plots with the tag as application; it can fail before or after the store acts.
PostFile(s) ==
  /\ At(s, "post")
  /\ LET next == [sync[s] EXCEPT !.pc = "files", !.name = Nil, !.ver = 0]
     IN \/ /\ Upsert(Here(s), sync[s].name, sync[s].ver)
           /\ \/ Goto(s, [next EXCEPT !.count = @ + 1]) /\ UNCHANGED faults
              \/ Goto(s, next) /\ Fault
        \/ Goto(s, next) /\ Fault /\ UNCHANGED <<plots, nextId>>
  /\ Quiet /\ UNCHANGED <<exempt, states, stargazer>>

\* All files are done: the synchronisation counts as successful, however many failed.
EndTag(s) ==
  /\ At(s, "files") /\ sync[s].files = {}
  /\ Report(s, [states[Here(s)] EXCEPT !.plots = "ok", !.count = sync[s].count])
  /\ Goto(s, After(s))
  /\ Quiet /\ UNCHANGED <<store, stargazer, faults>>

SyncStep(s) == \/ LoadKey(s) \/ CheckSecret(s) \/ WriteSecret(s) \/ ListFiles(s)
               \/ FetchFile(s) \/ PostFile(s) \/ EndTag(s)
LoopStep == BeginRound \/ NextTag

-----------------------------------------------------------------------------
(* The environment                                                          *)

\* A constellation's team commits a plot file, or removes one.
Commit ==
  /\ commits < MaxCommits /\ commits' = commits + 1
  /\ \E t \in Tags, n \in Names, v \in {commits + 2, 0} :
       repo' = [repo EXCEPT ![t][n] = v]
  /\ UNCHANGED <<store, ingest, sync, states, stargazer, edits, faults>>

\* cert-forge renews the star-gazer key and certificate, both in one directory.
Rotate ==
  /\ disk < MaxRotations + 1 /\ disk' = disk + 1
  /\ UNCHANGED <<store, ingest, repo, sync, states, signing, secret, bounds>>

\* connie-agent restarts: its goroutines and states start anew, the key is loaded.
ConnieRestart ==
  /\ Fault
  /\ sync' = [s \in Syncers |-> SyncIdle]
  /\ states' = [t \in Tags |-> [cert |-> "unknown", plots |-> "unknown", count |-> 0]]
  /\ signing' = disk
  /\ UNCHANGED <<store, ingest, repo, disk, secret, edits, commits>>

Init ==
  /\ \E place \in [DiskNames -> 0 .. Cardinality(DiskNames) - 1] :
       /\ \A m, n \in DiskNames : place[m] = place[n] => m = n
       /\ plots = {New(Self, n, 0, place[n]) : n \in DiskNames}
  /\ nextId = Cardinality(DiskNames) /\ exempt = {}
  /\ ingest = [h \in Ingests |-> IngestIdle]
  /\ repo = [t \in Tags |-> [n \in Names |-> 1]]
  /\ sync = [s \in Syncers |-> SyncIdle]
  /\ states = [t \in Tags |-> [cert |-> "unknown", plots |-> "unknown", count |-> 0]]
  /\ disk = 1 /\ signing = 1 /\ secret = [t \in Tags |-> 0]
  /\ edits = 0 /\ commits = 0 /\ faults = 0

Next ==
  \/ PostPlot \/ PutPlot \/ FlagPlot \/ DeletePlot \/ StoreRestart
  \/ \E h \in Ingests : IngestHandler(h)
  \/ LoopStep
  \/ \E t \in Tags : BeginSync(t)
  \/ \E s \in Syncers : SyncStep(s)
  \/ Commit \/ Rotate \/ ConnieRestart

Spec == Init /\ [][Next]_vars

\* A goroutine that synchronises goes on, and the ticker starts the next round.
Fairness == WF_vars(LoopStep) /\ \A s \in Syncers : WF_vars(SyncStep(s))
FairSpec == Spec /\ Fairness

-----------------------------------------------------------------------------
(* Properties                                                               *)

\* The handler of POST /plots replaces, and so do two at once: however rounds, users and
\* ingests overlap, of two plots of one application and name, an ingest or a PUT made one.
\* This is the upsert of plot-store/main.go:194, which PlotsCatchUp and the rounds of
\* connie-agent rest on; plot-store.yaml:118 promises a second version beside the first.
UpsertsAreUnique ==
  \A p, q \in plots :
    (p # q /\ p.app = q.app /\ p.name = q.name) => (p.id \in exempt \/ q.id \in exempt)

\* Whatever is edited, lost in a restart or posted out of order by overlapping rounds, Plot
\* Store ends up with the last version of each plot file, without being told.
PlotsCatchUp ==
  \A t \in Tags, n \in Names :
    <>[](repo[t][n] # 0 => \E p \in plots : Is(p, t, n) /\ p.ver = repo[t][n])

\* connie-agent ends up signing with the key whose certificate the namespace has, though
\* the key is loaded before the certificate is read and rounds may overwrite each other.
KeysCatchUp == \A t \in Tags : <>[](signing = disk /\ secret[t] = disk)
=============================================================================
