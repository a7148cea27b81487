----------------------------- MODULE CertForge -----------------------------
(***************************************************************************)
(* The constellation's keys: cert-forge (cert-forge/main.go, k8s.go,       *)
(* enrollment.go, selfregister.go) in its Kubernetes mode, the client every *)
(* Job carries (certforge.go) and the check Augur Canis makes of a         *)
(* registration (augur-canis/federation.go).                               *)
(*                                                                         *)
(* A key pair, a CA and an enrollment certificate are numbers, the order   *)
(* they were generated in; a TLS handshake is the comparison of the CA each *)
(* side trusts with the one that signed the other side's certificate.      *)
(* `ca` is read and replaced without one lock for both: x509 refuses the   *)
(* certificate of one CA with the key of another, so an issue that straddles *)
(* a rotation is refused and retried, one of the failures below.           *)
(* Kubernetes is external: it restarts what has died, replaces a pod whose *)
(* deployment was patched and refreshes the Secret a pod has mounted.      *)
(***************************************************************************)
EXTENDS Integers, FiniteSets

CONSTANTS
  Services,     \* the Jobs that enroll
  AugurCanis,   \* the one of them they register with
  Forge,        \* cert-forge's own deployment
  Nil,          \* no Secret
  MaxAttempts,  \* 30 for a Job, 10 for cert-forge's own registration
  MaxRotations, MaxFaults, MaxCrashes   \* bounds on the environment

ASSUME CertForgeAssumption ==
  /\ AugurCanis \in Services
  /\ Forge \notin Services
  /\ MaxAttempts \in Nat \ {0}
  /\ MaxRotations \in Nat /\ MaxFaults \in Nat /\ MaxCrashes \in Nat
  /\ Nil \notin [ca: Nat, enroll: Nat, password: Nat]

\* rotation.deployments of forge.json: cert-forge is the first of the list.
Deployments == {Forge} \cup Services

VARIABLES
  \* cert-forge: where it is, its CA, the CA that signed its own certificate
  \* and is its servers' client pool, its enrollment CA, the symmetric secrets
  \* it loaded, whether its CA is fresh, the deployments still to be patched
  fpc, ca, bootCA, enrollCA, password, fresh, todo,
  keys,       \* instanceKeys: the key on record of each Job's current pod, 0: none
  late,       \* /instance-cert requests given up by a Job and still being served
  secret,     \* the Kubernetes Secret
  selfTries,  \* attempts of selfRegisterWithAC, -1 once it has returned
  \* each Job: where its start is, the attempts made, the CA it trusts, its
  \* certificate, the enrollment certificate it has mounted and the one it loaded,
  \* the key its registration was signed with
  pc, tries, trust, cert, mounted, pair, signedBy,
  rolled,     \* deployments patched and not yet replaced by Kubernetes
  \* numbers given out, and what the environment has done
  cas, boots, issued, rotations, faults, crashes

forgeState == <<fpc, ca, bootCA, enrollCA, password, fresh, todo>>
jobs == <<pc, tries, trust, cert, mounted, pair, signedBy>>
counters == <<cas, boots, issued, rotations, crashes>>
vars == <<forgeState, keys, late, secret, selfTries, jobs, rolled, counters, faults>>

Booting == {"load", "symmetric", "write", "bootRoll", "tls"}
Serving == {"serve", "store", "overlap", "roll"}
JobSteps == {"pending", "ca", "load", "enroll", "sign", "register", "running", "dead"}

\* Augur Canis listens as soon as it has its certificate.
Listening == {"sign", "register", "running"}

TypeOK ==
  /\ fpc \in {"down"} \cup Booting \cup Serving
  /\ ca \in Nat /\ bootCA \in Nat /\ enrollCA \in Nat /\ password \in Nat
  /\ fresh \in BOOLEAN
  /\ todo \subseteq Deployments
  /\ keys \in [Services -> Nat]
  /\ late \in [Services -> Nat]
  /\ secret \in [ca: Nat, enroll: Nat, password: Nat] \cup {Nil}
  /\ selfTries \in Nat \cup {-1}
  /\ pc \in [Services -> JobSteps]
  /\ tries \in [Services -> Nat]
  /\ trust \in [Services -> Nat]
  /\ cert \in [Services -> [ca: Nat, key: Nat]]
  /\ mounted \in [Services -> Nat] /\ pair \in [Services -> Nat]
  /\ signedBy \in [Services -> Nat]
  /\ rolled \subseteq Deployments
  /\ cas \in Nat /\ boots \in Nat /\ issued \in [Services -> Nat]
  /\ rotations \in Nat /\ faults \in Nat /\ crashes \in Nat

NoCert == [ca |-> 0, key |-> 0]

\* Before the first installation: no Secret, nothing runs.
Init ==
  /\ fpc = "down" /\ ca = 0 /\ bootCA = 0 /\ enrollCA = 0 /\ password = 0
  /\ fresh = FALSE /\ todo = {}
  /\ keys = [s \in Services |-> 0] /\ late = [s \in Services |-> 0]
  /\ secret = Nil /\ selfTries = -1
  /\ pc = [s \in Services |-> "pending"] /\ tries = [s \in Services |-> 0]
  /\ trust = [s \in Services |-> 0] /\ cert = [s \in Services |-> NoCert]
  /\ mounted = [s \in Services |-> 0] /\ pair = [s \in Services |-> 0]
  /\ signedBy = [s \in Services |-> 0]
  /\ rolled = {}
  /\ cas = 0 /\ boots = 0 /\ issued = [s \in Services |-> 0]
  /\ rotations = 0 /\ faults = 0 /\ crashes = 0

Fault == faults < MaxFaults /\ faults' = faults + 1

-----------------------------------------------------------------------------
(* cert-forge's startup.                                                    *)

Start ==
  /\ fpc = "down"
  /\ fpc' = "load"
  /\ boots' = boots + 1
  /\ UNCHANGED <<ca, bootCA, enrollCA, password, fresh, todo, keys, late, secret,
                 selfTries, jobs, rolled, cas, issued, rotations, crashes, faults>>

\* generateCA: the new key and certificate are the CA from now on.
GenerateCA == cas' = cas + 1 /\ ca' = cas'

\* generateStaticCert: what the servers show, and let in, depends on the CA of this moment.
GenerateStaticCert == bootCA' = ca'

\* LoadExistingCA, generateCA if there is none or the Secret cannot be read;
\* then cert-forge's own certificate and a new enrollment CA.
LoadCA ==
  /\ fpc = "load"
  /\ \/ /\ secret # Nil
        /\ ca' = secret.ca /\ fresh' = FALSE
        /\ UNCHANGED <<cas, faults>>
     \/ /\ \/ secret = Nil /\ UNCHANGED faults
           \/ secret # Nil /\ Fault
        /\ GenerateCA /\ fresh' = TRUE
  /\ GenerateStaticCert
  /\ enrollCA' = boots
  /\ fpc' = "symmetric"
  /\ UNCHANGED <<password, todo, keys, late, secret, selfTries, jobs, rolled,
                 boots, issued, rotations, crashes>>

\* Mutant of LoadSymmetric: the secrets are generated on every startup.
SymmetricAlwaysFresh ==
  /\ fpc = "symmetric"
  /\ password' = boots
  /\ fpc' = "write"
  /\ UNCHANGED <<ca, bootCA, enrollCA, fresh, todo, keys, late, secret, selfTries,
                 jobs, rolled, counters, faults>>

\* loadOrGenerateSymmetricSecrets reads the Secret again; when that fails it
\* goes on as if there were none.  The two secrets are one value here.
LoadSymmetric ==
  /\ fpc = "symmetric"
  /\ \/ secret # Nil /\ password' = secret.password /\ UNCHANGED faults
     \/ /\ \/ secret = Nil /\ UNCHANGED faults
           \/ secret # Nil /\ Fault
        /\ password' = boots
  /\ fpc' = "write"
  /\ UNCHANGED <<ca, bootCA, enrollCA, fresh, todo, keys, late, secret, selfTries,
                 jobs, rolled, counters>>

\* Mutant of Material: the enrollment certificate of the first startup is kept.
MaterialKeepingEnrollment ==
  [ca |-> ca, enroll |-> IF secret = Nil THEN enrollCA ELSE secret.enroll,
   password |-> password]

Material == [ca |-> ca, enroll |-> enrollCA, password |-> password]

\* The whole process dies, with the keys it held and the requests it served.
Die ==
  /\ fpc' = "down"
  /\ ca' = 0 /\ bootCA' = 0 /\ enrollCA' = 0 /\ password' = 0
  /\ fresh' = FALSE /\ todo' = {}
  /\ keys' = [s \in Services |-> 0] /\ late' = [s \in Services |-> 0]
  /\ selfTries' = -1

\* WriteK8sSecret replaces the whole Secret; an error is fatal, whether or not
\* the request was carried out.  A fresh CA rolls every deployment.
WriteSecret ==
  /\ fpc = "write"
  /\ \/ /\ secret' = Material
        /\ IF fresh
             THEN fpc' = "bootRoll" /\ todo' = Deployments
             ELSE fpc' = "tls" /\ UNCHANGED todo
        /\ UNCHANGED <<ca, bootCA, enrollCA, password, fresh, keys, late, selfTries,
                       faults>>
     \/ Fault /\ secret' \in {secret, Material} /\ Die
  /\ UNCHANGED <<jobs, rolled, counters>>

\* WriteTLSSecret and Traefik's CA Secret, fatal as well; then the servers.
WriteTLS ==
  /\ fpc = "tls"
  /\ \/ /\ fpc' = "serve" /\ selfTries' = 0
        /\ UNCHANGED <<ca, bootCA, enrollCA, password, fresh, todo, keys, late, faults>>
     \/ Fault /\ Die
  /\ UNCHANGED <<secret, jobs, rolled, counters>>

\* Mutant of Patches: cert-forge does not restart itself during rotation.
PatchesSparingForge == Services

\* What rollDeployments patches.
Patches == Deployments

\* rollDeployments, one PatchDeploymentRestart at a time, cert-forge's own first.
\* An error is logged, whether or not the patch was applied.
Patch(d) ==
  /\ fpc \in {"bootRoll", "roll"}
  /\ d \in todo /\ (Forge \in todo => d = Forge)
  /\ todo' = todo \ {d}
  /\ \/ rolled' = rolled \cup {d} /\ UNCHANGED faults
     \/ Fault /\ rolled' \in {rolled, rolled \cup {d}}
  /\ UNCHANGED <<fpc, ca, bootCA, enrollCA, password, fresh, keys, late, secret,
                 selfTries, jobs, counters>>

EndRoll ==
  /\ fpc \in {"bootRoll", "roll"} /\ todo = {}
  /\ fpc' = IF fpc = "bootRoll" THEN "tls" ELSE "serve"
  /\ UNCHANGED <<ca, bootCA, enrollCA, password, fresh, todo, keys, late, secret,
                 selfTries, jobs, rolled, counters, faults>>

-----------------------------------------------------------------------------
(* startRotationLoop: the two tickers.                                      *)

Rotation == rotations < MaxRotations /\ rotations' = rotations + 1

RotateInstances ==
  /\ fpc = "serve" /\ Rotation
  /\ fpc' = "roll" /\ todo' = Patches
  /\ UNCHANGED <<ca, bootCA, enrollCA, password, fresh, keys, late, secret,
                 selfTries, jobs, rolled, cas, boots, issued, crashes, faults>>

\* The new CA is live at once, for /ca and /instance-cert; cert-forge's own
\* certificate and its client pool stay what they were at startup.
RotateCA ==
  /\ fpc = "serve" /\ Rotation
  /\ GenerateCA
  /\ fpc' = "store"
  /\ UNCHANGED <<bootCA, enrollCA, password, fresh, todo, keys, late, secret,
                 selfTries, jobs, rolled, boots, issued, crashes, faults>>

\* The Secret is read and written back with the new CA; errors are logged.
StoreCA ==
  LET updated == [secret EXCEPT !.ca = ca] IN
  /\ fpc = "store"
  /\ \/ secret' = updated /\ UNCHANGED faults
     \/ Fault /\ secret' \in {secret, updated}
  /\ fpc' = "overlap"
  /\ UNCHANGED <<ca, bootCA, enrollCA, password, fresh, todo, keys, late,
                 selfTries, jobs, rolled, counters>>

\* The overlap is over.  It lasts 24 hours and a start a few minutes: no Job is
\* still enrolling with the CA it read before the rotation.
EndOverlap ==
  /\ fpc = "overlap"
  /\ \A s \in Services : pc[s] \in {"load", "enroll"} => trust[s] = ca
  /\ fpc' = "roll" /\ todo' = Patches
  /\ UNCHANGED <<ca, bootCA, enrollCA, password, fresh, keys, late, secret,
                 selfTries, jobs, rolled, counters, faults>>

-----------------------------------------------------------------------------
(* A Job's start: obtainCerts, then selfRegisterWithAC.                     *)

\* The pod mounts the Secret, and its init container waits for /ca.
StartPod(s) ==
  /\ pc[s] = "pending" /\ secret # Nil /\ fpc \in Serving
  /\ pc' = [pc EXCEPT ![s] = "ca"]
  /\ mounted' = [mounted EXCEPT ![s] = secret.enroll]
  /\ UNCHANGED <<forgeState, keys, late, secret, selfTries, tries, trust, cert, pair,
                 signedBy, rolled, counters, faults>>

\* The kubelet brings the mounted Secret up to date.
Sync(s) ==
  /\ pc[s] # "pending" /\ secret # Nil
  /\ mounted[s] # secret.enroll
  /\ mounted' = [mounted EXCEPT ![s] = secret.enroll]
  /\ UNCHANGED <<forgeState, keys, late, secret, selfTries, pc, tries, trust, cert,
                 pair, signedBy, rolled, counters, faults>>

\* The process ends, and what it held in memory with it.
Ends(s, step) ==
  /\ pc' = [pc EXCEPT ![s] = step]
  /\ tries' = [tries EXCEPT ![s] = 0]
  /\ trust' = [trust EXCEPT ![s] = 0]
  /\ cert' = [cert EXCEPT ![s] = NoCert]
  /\ pair' = [pair EXCEPT ![s] = 0]
  /\ signedBy' = [signedBy EXCEPT ![s] = 0]

\* One attempt has failed; the last one is fatal.
Retry(s) ==
  \/ /\ tries[s] + 1 < MaxAttempts
     /\ tries' = [tries EXCEPT ![s] = tries[s] + 1]
     /\ UNCHANGED <<pc, trust, cert, pair, signedBy>>
  \/ tries[s] + 1 >= MaxAttempts /\ Ends(s, "dead")

\* fetchCACert: plain HTTP, from a cert-forge that serves.
FetchCA(s) ==
  /\ pc[s] = "ca" /\ fpc \in Serving
  /\ trust' = [trust EXCEPT ![s] = ca]
  /\ pc' = [pc EXCEPT ![s] = "load"]
  /\ tries' = [tries EXCEPT ![s] = 0]
  /\ UNCHANGED <<forgeState, keys, late, secret, selfTries, cert, mounted, pair,
                 signedBy, rolled, counters, faults>>

FetchCAFails(s) ==
  /\ pc[s] = "ca"
  /\ \/ fpc \notin Serving /\ UNCHANGED faults
     \/ fpc \in Serving /\ Fault
  /\ Retry(s)
  /\ UNCHANGED <<forgeState, keys, late, secret, selfTries, mounted, rolled, counters>>

\* requestInstanceCert loads the enrollment key pair once, before its attempts.
LoadPair(s) ==
  /\ pc[s] = "load"
  /\ pair' = [pair EXCEPT ![s] = mounted[s]]
  /\ pc' = [pc EXCEPT ![s] = "enroll"]
  /\ UNCHANGED <<forgeState, keys, late, secret, selfTries, tries, trust, cert, mounted,
                 signedBy, rolled, counters, faults>>

\* The enrollment port's handshake: the Job checks cert-forge's certificate,
\* cert-forge the enrollment certificate.
Admitted(s) ==
  /\ fpc \in Serving
  /\ trust[s] = bootCA
  /\ pair[s] = enrollCA

\* issueInstanceCert: a new key, on record under the Job's name and pod.
Issue(s) ==
  /\ issued' = [issued EXCEPT ![s] = issued[s] + 1]
  /\ keys' = [keys EXCEPT ![s] = issued[s] + 1]

Enroll(s) ==
  /\ pc[s] = "enroll" /\ Admitted(s)
  /\ Issue(s)
  /\ cert' = [cert EXCEPT ![s] = [ca |-> ca, key |-> issued[s] + 1]]
  /\ pc' = [pc EXCEPT ![s] = "sign"]
  /\ tries' = [tries EXCEPT ![s] = 0]
  /\ UNCHANGED <<forgeState, late, secret, selfTries, trust, mounted, pair, signedBy,
                 rolled, cas, boots, rotations, crashes, faults>>

\* The attempt fails: no handshake, an error, or a client that gives up after ten
\* seconds on a handler that goes on.
EnrollFails(s) ==
  /\ pc[s] = "enroll"
  /\ \/ ~Admitted(s) /\ UNCHANGED <<late, faults>>
     \/ /\ Admitted(s) /\ Fault
        /\ late' \in {late, [late EXCEPT ![s] = late[s] + 1]}
  /\ Retry(s)
  /\ UNCHANGED <<forgeState, keys, secret, selfTries, mounted, rolled, counters>>

\* Such a handler puts its key on record when it is done; nobody gets its answer.
LateIssue(s) ==
  /\ late[s] > 0 /\ fpc \in Serving
  /\ Issue(s)
  /\ late' = [late EXCEPT ![s] = late[s] - 1]
  /\ UNCHANGED <<forgeState, secret, selfTries, jobs, rolled, cas, boots, rotations,
                 crashes, faults>>

\* Mutant of SignHandshake: the sign server does not ask for a certificate.
SignHandshakeOneWay(s) == trust[s] = bootCA

\* The sign port's handshake, with cert-forge's startup CA on both sides.
SignHandshake(s) == trust[s] = bootCA /\ cert[s].ca = bootCA

\* signPayload: /sign uses the key on record, which need not be the certificate's.
\* Every failure is retried for ever; the certificate is not asked for again.
Sign(s) ==
  /\ pc[s] = "sign" /\ fpc \in Serving
  /\ SignHandshake(s)
  /\ keys[s] # 0
  /\ signedBy' = [signedBy EXCEPT ![s] = keys[s]]
  /\ pc' = [pc EXCEPT ![s] = "register"]
  /\ UNCHANGED <<forgeState, keys, late, secret, selfTries, tries, trust, cert, mounted,
                 pair, rolled, counters, faults>>

\* Both sides of a connection from a holder of certificate c that trusts t.
ACTrusts(c, t) ==
  /\ pc[AugurCanis] \in Listening
  /\ t = cert[AugurCanis].ca
  /\ c = trust[AugurCanis]

\* verifyServiceRegistration: the certificate is of Augur Canis' CA and the
\* signature of the certificate's key.
Accepted(s) ==
  /\ ACTrusts(cert[s].ca, trust[s])
  /\ signedBy[s] = cert[s].key

Register(s) ==
  /\ pc[s] = "register"
  /\ pc' = [pc EXCEPT ![s] = IF Accepted(s) THEN "running" ELSE "sign"]
  /\ UNCHANGED <<forgeState, keys, late, secret, selfTries, tries, trust, cert, mounted,
                 pair, signedBy, rolled, counters, faults>>

\* cert-forge's own registration: ten attempts with its startup certificate.
SelfRegister ==
  /\ fpc \in Serving /\ selfTries >= 0
  /\ \/ ACTrusts(bootCA, bootCA) /\ selfTries' = -1
     \/ /\ ~ACTrusts(bootCA, bootCA)
        /\ selfTries' = IF selfTries + 1 < MaxAttempts THEN selfTries + 1 ELSE -1
  /\ UNCHANGED <<forgeState, keys, late, secret, jobs, rolled, counters, faults>>

-----------------------------------------------------------------------------
(* Kubernetes and crashes.                                                  *)

\* A new pod: a new HOSTNAME, so no key is on record for it and no request of the
\* old pod concerns it.
ReplacePod(s) ==
  /\ s \in rolled
  /\ rolled' = rolled \ {s}
  /\ Ends(s, "pending")
  /\ mounted' = [mounted EXCEPT ![s] = 0]
  /\ keys' = [keys EXCEPT ![s] = 0]
  /\ late' = [late EXCEPT ![s] = 0]
  /\ UNCHANGED <<forgeState, secret, selfTries, counters, faults>>

\* cert-forge has no shutdown sequence: it ends wherever it is, also in the middle
\* of rolling the others.
ReplaceForge ==
  /\ Forge \in rolled
  /\ rolled' = rolled \ {Forge}
  /\ Die
  /\ UNCHANGED <<secret, jobs, counters, faults>>

\* log.Fatalf ends the container; Kubernetes starts it again in the same pod.
RestartContainer(s) ==
  /\ pc[s] = "dead"
  /\ pc' = [pc EXCEPT ![s] = "ca"]
  /\ UNCHANGED <<forgeState, keys, late, secret, selfTries, tries, trust, cert, mounted,
                 pair, signedBy, rolled, counters, faults>>

Crash == crashes < MaxCrashes /\ crashes' = crashes + 1

\* A container dies, maybe while cert-forge serves its /instance-cert request.
CrashJob(s) ==
  /\ pc[s] \notin {"pending", "dead"} /\ Crash
  /\ Ends(s, "dead")
  /\ \/ UNCHANGED late
     \/ /\ pc[s] = "enroll" /\ Admitted(s)
        /\ late' = [late EXCEPT ![s] = late[s] + 1]
  /\ UNCHANGED <<forgeState, keys, secret, selfTries, mounted, rolled, cas, boots,
                 issued, rotations, faults>>

CrashForge ==
  /\ fpc # "down" /\ Crash
  /\ Die
  /\ UNCHANGED <<secret, jobs, rolled, cas, boots, issued, rotations, faults>>

-----------------------------------------------------------------------------
Boot == Start \/ LoadCA \/ LoadSymmetric \/ WriteSecret \/ WriteTLS
Roll == EndRoll \/ \E d \in Deployments : Patch(d)
Rotate == RotateInstances \/ RotateCA
Overlap == StoreCA \/ EndOverlap

ObtainCerts(s) ==
  FetchCA(s) \/ FetchCAFails(s) \/ LoadPair(s) \/ Enroll(s) \/ EnrollFails(s)

SelfRegisterWithAC(s) == Sign(s) \/ Register(s)

Kubernetes(s) == StartPod(s) \/ Sync(s) \/ ReplacePod(s) \/ RestartContainer(s)

Next ==
  \/ Boot \/ Roll \/ Rotate \/ Overlap \/ SelfRegister
  \/ \E s \in Services :
       ObtainCerts(s) \/ LateIssue(s) \/ SelfRegisterWithAC(s) \/ Kubernetes(s) \/ CrashJob(s)
  \/ ReplaceForge \/ CrashForge

Spec == Init /\ [][Next]_vars

\* cert-forge's and the Jobs' code runs and Kubernetes does its work; nothing
\* obliges a rotation, a failure or a crash to happen.
FairSpec ==
  /\ Spec
  /\ WF_vars(Boot) /\ WF_vars(Roll) /\ WF_vars(Overlap) /\ WF_vars(SelfRegister)
  /\ WF_vars(ReplaceForge)
  /\ \A s \in Services :
       /\ WF_vars(ObtainCerts(s)) /\ WF_vars(SelfRegisterWithAC(s))
       /\ WF_vars(LateIssue(s))
       /\ WF_vars(StartPod(s)) /\ WF_vars(Sync(s)) /\ WF_vars(ReplacePod(s))
       /\ WF_vars(RestartContainer(s))

-----------------------------------------------------------------------------
\* A restart does not lose the CA: as long as no call has failed, the CA cert-forge
\* signs with is the one in the Secret, except between a rotation's swap and its
\* write, where a crash loses the new CA and whatever it has signed.
UsedCAIsStored ==
  faults = 0 /\ fpc \in Serving \ {"store"} => secret # Nil /\ secret.ca = ca

\* "Generated once on first startup ... they survive cert-forge restarts without
\* changing value" (k8s.go): so it is as long as no read of the Secret fails, over
\* every crash, restart and rotation.
SecretsAreStable ==
  [][faults' = 0 /\ secret # Nil => secret' # Nil /\ secret'.password = secret.password]_vars

\* A Job whose registration is under way or done trusts the CA that signed its own
\* certificate, even when a rotation or a restart of cert-forge came between its
\* reading the CA and its certificate.
RunningIsCoherent ==
  \A s \in Services : pc[s] \in {"register", "running"} => cert[s].ca = trust[s]

\* /ca hands out one CA while another one has signed cert-forge's own certificate:
\* no Job can enroll.
Split == fpc \in Serving /\ ca # bootCA

\* A rotation ends that state (cert-forge restarts itself last of all effects), if
\* no call to Kubernetes fails.
RotationCompletes == Split ~> (~Split \/ faults > 0)

\* What a Job that loops in selfRegisterWithAC may wait for in vain: a key that is
\* gone or replaced, or a CA that has changed.
Stuck(s) ==
  /\ pc[s] \in {"sign", "register"}
  /\ \/ keys[s] # cert[s].key
     \/ ~SignHandshake(s)
     \/ ~ACTrusts(cert[s].ca, trust[s])

\* Every start ends: once cert-forge is consistent for good, a Job is registered
\* or waits for a key or a CA that is gone; none crash-loops for ever.
Settles ==
  \A s \in Services :
    <>[](fpc \in Serving /\ ~Split) => <>[](pc[s] = "running" \/ Stuck(s))

\* "CA rotation uses a 24-hour overlap window during which both CAs are trusted,
\* preventing hard failures mid-rotation" (SETI-GUIDELINES.md): in the overlap no
\* Job's enrollment runs out of attempts.
NoHardFailure ==
  [][\A s \in Services :
       fpc = "overlap" /\ pc[s] = "enroll" => pc'[s] # "dead"]_vars
=============================================================================
