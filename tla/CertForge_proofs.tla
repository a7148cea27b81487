-------------------------- MODULE CertForge_proofs --------------------------
(***************************************************************************)
(* What holds of the constellation's keys for every number of Jobs,        *)
(* attempts, rotations, failures and crashes.                              *)
(***************************************************************************)
EXTENDS CertForge, TLAPS

\* The Secret's type, kept under one name: a leaf that does not look into it
\* does not expand it.
SecretData == [ca: Nat, enroll: Nat, password: Nat]

ForgeType ==
  /\ fpc \in {"down"} \cup Booting \cup Serving
  /\ ca \in Nat /\ bootCA \in Nat /\ enrollCA \in Nat /\ password \in Nat
  /\ fresh \in BOOLEAN
  /\ todo \subseteq Deployments
  /\ secret \in SecretData \cup {Nil}
  /\ selfTries \in Nat \cup {-1}
  /\ rolled \subseteq Deployments
  /\ cas \in Nat /\ boots \in Nat
  /\ rotations \in Nat /\ faults \in Nat /\ crashes \in Nat

JobType ==
  /\ keys \in [Services -> Nat]
  /\ late \in [Services -> Nat]
  /\ pc \in [Services -> JobSteps]
  /\ tries \in [Services -> Nat]
  /\ trust \in [Services -> Nat]
  /\ cert \in [Services -> [ca: Nat, key: Nat]]
  /\ mounted \in [Services -> Nat] /\ pair \in [Services -> Nat]
  /\ signedBy \in [Services -> Nat]
  /\ issued \in [Services -> Nat]

\* Past its startup's write, cert-forge has a Secret; with no failure, the Secret
\* has its CA, and the password about to be written is the one it already holds.
SecretExists == fpc \in Serving \cup {"bootRoll", "tls"} => secret # Nil

Stored ==
  faults = 0 /\ fpc \in (Serving \ {"store"}) \cup {"bootRoll", "tls"}
    => secret.ca = ca

Kept == faults = 0 /\ fpc = "write" /\ secret # Nil => password = secret.password

ForgeInv == ForgeType /\ SecretExists /\ Stored /\ Kept

JobsUnmoved == UNCHANGED <<keys, late, jobs, issued>>

-----------------------------------------------------------------------------
(* cert-forge's part of the invariant.                                      *)

\* A step that leaves cert-forge and the Secret alone keeps its part.
LEMMA ForgeKept ==
  ASSUME ForgeInv, UNCHANGED <<forgeState, secret>>,
         selfTries' \in Nat \cup {-1}, rolled' \subseteq Deployments,
         cas' \in Nat, boots' \in Nat, rotations' \in Nat, crashes' \in Nat,
         faults' \in Nat, faults' = 0 => faults = 0
  PROVE  ForgeInv'
BY DEF ForgeInv, ForgeType, SecretExists, Stored, Kept, forgeState

\* A process that dies leaves nothing to be compared with the Secret.
LEMMA ForgeDied ==
  ASSUME ForgeInv, Die, secret' \in SecretData \cup {Nil},
         rolled' \subseteq Deployments,
         cas' \in Nat, boots' \in Nat, rotations' \in Nat, crashes' \in Nat,
         faults' \in Nat
  PROVE  ForgeInv'
BY DEF ForgeInv, ForgeType, SecretExists, Stored, Kept, Die, Serving, Booting

LEMMA MaterialType ==
  ASSUME ForgeInv
  PROVE  Material \in SecretData /\ Material.ca = ca /\ Material.password = password
BY DEF ForgeInv, ForgeType, SecretData, Material

LEMMA NilIsNoData == Nil \notin SecretData
BY CertForgeAssumption DEF SecretData

LEMMA BootKeepsForge ==
  ASSUME ForgeInv, Boot
  PROVE  ForgeInv'
<1> USE DEF ForgeInv
<1>1. CASE Start
  BY <1>1 DEF Start, ForgeType, SecretExists, Stored, Kept, Serving, Booting, counters
<1>2. CASE LoadCA
  <2>1. secret # Nil => secret.ca \in Nat
    BY DEF ForgeType, SecretData
  <2>2. ca' \in Nat /\ cas' \in Nat /\ fresh' \in BOOLEAN
    <3>1. CASE secret # Nil /\ ca' = secret.ca /\ fresh' = FALSE /\ UNCHANGED cas
      BY <2>1, <3>1 DEF ForgeType
    <3>2. CASE cas' = cas + 1 /\ ca' = cas' /\ fresh' = TRUE
      BY <3>2 DEF ForgeType
    <3> QED
      BY <1>2, <3>1, <3>2 DEF LoadCA, GenerateCA, GenerateStaticCert
  <2>3. bootCA' \in Nat /\ enrollCA' \in Nat /\ faults' \in Nat
    BY <1>2, <2>2 DEF LoadCA, GenerateCA, GenerateStaticCert, Fault, ForgeType
  <2> QED
    BY <1>2, <2>2, <2>3
    DEF LoadCA, GenerateCA, GenerateStaticCert, ForgeType, SecretExists, Stored, Kept, Serving, Booting
<1>3. CASE LoadSymmetric
  <2>1. secret # Nil => secret.password \in Nat
    BY DEF ForgeType, SecretData
  <2>2. password' \in Nat /\ faults' \in Nat
    BY <1>3, <2>1 DEF LoadSymmetric, Fault, ForgeType
  <2>3. faults' = 0 /\ secret # Nil => password' = secret.password
    BY <1>3 DEF LoadSymmetric, Fault, ForgeType
  <2> QED
    BY <1>3, <2>2, <2>3
    DEF LoadSymmetric, ForgeType, SecretExists, Stored, Kept, Serving, Booting, counters
<1>4. CASE WriteSecret
  <2>1. CASE Die
    <3>1. secret' \in SecretData \cup {Nil} /\ faults' \in Nat
      BY <1>4, <2>1, MaterialType DEF WriteSecret, Fault, ForgeType
    <3> QED
      BY <1>4, <2>1, <3>1, ForgeDied DEF WriteSecret, ForgeType, counters
  <2>2. CASE ~Die
    <3>1. /\ secret' = Material /\ faults' = faults
          /\ fpc' \in {"bootRoll", "tls"} /\ todo' \subseteq Deployments
          /\ UNCHANGED <<ca, bootCA, enrollCA, password, fresh, selfTries, rolled, counters>>
      BY <1>4, <2>2 DEF WriteSecret, ForgeType, Deployments
    <3>2. secret' \in SecretData /\ secret' # Nil /\ secret'.ca = ca
      BY <3>1, MaterialType, NilIsNoData
    <3> QED
      BY <3>1, <3>2
      DEF ForgeType, SecretExists, Stored, Kept, Serving, Booting, counters
  <2> QED
    BY <2>1, <2>2
<1>5. CASE WriteTLS
  <2>1. CASE Die
    BY <1>5, <2>1, ForgeDied DEF WriteTLS, ForgeType, Fault, counters
  <2>2. CASE ~Die
    BY <1>5, <2>2
    DEF WriteTLS, ForgeType, SecretExists, Stored, Kept, Serving, Booting, counters
  <2> QED
    BY <2>1, <2>2
<1> QED
  BY <1>1, <1>2, <1>3, <1>4, <1>5 DEF Boot

LEMMA RotationKeepsForge ==
  ASSUME ForgeInv, Roll \/ Rotate \/ Overlap
  PROVE  ForgeInv'
<1> USE DEF ForgeInv
<1>1. ASSUME NEW d \in Deployments, Patch(d)
      PROVE  ForgeInv'
  BY <1>1 DEF Patch, Fault, ForgeType, SecretExists, Stored, Kept, counters, Serving
<1>2. CASE EndRoll
  BY <1>2 DEF EndRoll, ForgeType, SecretExists, Stored, Kept, Serving, Booting, counters
<1>3. CASE RotateInstances
  BY <1>3
  DEF RotateInstances, Rotation, Patches, ForgeType, SecretExists, Stored, Kept, Serving,
      Booting
<1>4. CASE RotateCA
  BY <1>4
  DEF RotateCA, GenerateCA, Rotation, ForgeType, SecretExists, Stored, Kept, Serving, Booting
<1>5. CASE StoreCA
  <2>1. secret \in SecretData
    BY <1>5 DEF StoreCA, ForgeType, SecretExists, Serving
  <2> DEFINE updated == [secret EXCEPT !.ca = ca]
  <2>2. updated \in SecretData /\ updated.ca = ca
    BY <2>1 DEF ForgeType, SecretData
  <2>3. secret' \in {secret, updated} /\ (faults' = 0 => secret' = updated)
        /\ faults' \in Nat
    BY <1>5 DEF StoreCA, Fault, ForgeType
  <2>4. secret' \in SecretData /\ secret' # Nil /\ (faults' = 0 => secret'.ca = ca)
    BY <2>1, <2>2, <2>3, NilIsNoData
  <2> QED
    BY <1>5, <2>3, <2>4
    DEF StoreCA, ForgeType, SecretExists, Stored, Kept, Serving, Booting, counters
<1>6. CASE EndOverlap
  BY <1>6
  DEF EndOverlap, Patches, ForgeType, SecretExists, Stored, Kept, Serving, Booting, counters
<1> QED
  BY <1>1, <1>2, <1>3, <1>4, <1>5, <1>6 DEF Roll, Rotate, Overlap

-----------------------------------------------------------------------------
(* The Jobs' part.                                                          *)

JobInv == JobType /\ RunningIsCoherent

LEMMA JobsKept ==
  ASSUME JobInv, JobsUnmoved
  PROVE  JobInv'
BY DEF JobInv, JobType, RunningIsCoherent, JobsUnmoved, jobs

\* The end of a process, wherever it was.
LEMMA JobEnds ==
  ASSUME JobInv, NEW s \in Services, NEW step \in {"dead", "pending"}, Ends(s, step),
         keys' \in [Services -> Nat], late' \in [Services -> Nat],
         mounted' \in [Services -> Nat], issued' \in [Services -> Nat]
  PROVE  JobInv'
<1>1. cert' \in [Services -> [ca: Nat, key: Nat]]
  BY DEF JobInv, JobType, Ends, NoCert
<1>2. JobType'
  BY <1>1 DEF JobInv, JobType, Ends, JobSteps
<1>3. RunningIsCoherent'
  BY DEF JobInv, JobType, RunningIsCoherent, Ends
<1> QED
  BY <1>2, <1>3 DEF JobInv

LEMMA RetryKeepsJobs ==
  ASSUME JobInv, NEW s \in Services, Retry(s),
         keys' \in [Services -> Nat], late' \in [Services -> Nat],
         mounted' \in [Services -> Nat], issued' \in [Services -> Nat]
  PROVE  JobInv'
<1>1. CASE Ends(s, "dead")
  BY <1>1, JobEnds
<1>2. CASE ~Ends(s, "dead")
  <2>1. /\ tries' = [tries EXCEPT ![s] = tries[s] + 1]
        /\ UNCHANGED <<pc, trust, cert, pair, signedBy>>
    BY <1>2, Zenon DEF Retry
  <2> QED
    BY <2>1 DEF JobInv, JobType, RunningIsCoherent
<1> QED
  BY <1>1, <1>2

LEMMA DeathKeepsJobs ==
  ASSUME JobInv, Die, UNCHANGED jobs, UNCHANGED issued
  PROVE  JobInv'
BY DEF JobInv, JobType, RunningIsCoherent, Die, jobs

LEMMA ForgeStepKeepsJobs ==
  ASSUME JobInv, Boot \/ Roll \/ Rotate \/ Overlap \/ SelfRegister
  PROVE  JobInv'
<1>1. CASE Start
  BY <1>1, JobsKept DEF Start, JobsUnmoved
<1>2. CASE LoadCA
  BY <1>2, JobsKept DEF LoadCA, GenerateCA, GenerateStaticCert, JobsUnmoved
<1>3. CASE LoadSymmetric
  BY <1>3, JobsKept DEF LoadSymmetric, JobsUnmoved, counters
<1>4. CASE WriteSecret
  BY <1>4, JobsKept, DeathKeepsJobs DEF WriteSecret, JobsUnmoved, counters
<1>5. CASE WriteTLS
  BY <1>5, JobsKept, DeathKeepsJobs DEF WriteTLS, JobsUnmoved, counters
<1>6. CASE Roll
  BY <1>6, JobsKept DEF Roll, EndRoll, Patch, JobsUnmoved, counters
<1>7. CASE Rotate
  BY <1>7, JobsKept DEF Rotate, RotateInstances, RotateCA, GenerateCA, JobsUnmoved
<1>8. CASE Overlap
  BY <1>8, JobsKept DEF Overlap, StoreCA, EndOverlap, JobsUnmoved, counters
<1>9. CASE SelfRegister
  BY <1>9, JobsKept DEF SelfRegister, JobsUnmoved, counters
<1> QED
  BY <1>1, <1>2, <1>3, <1>4, <1>5, <1>6, <1>7, <1>8, <1>9 DEF Boot

LEMMA JobStepKeepsJobs ==
  ASSUME JobInv, ForgeType, NEW s \in Services,
         ObtainCerts(s) \/ LateIssue(s) \/ SelfRegisterWithAC(s) \/ Kubernetes(s)
           \/ CrashJob(s)
  PROVE  JobInv'
<1> USE DEF JobInv
<1>1. CASE FetchCA(s)
  BY <1>1 DEF FetchCA, ForgeType, JobType, RunningIsCoherent, JobSteps, counters
<1>2. CASE FetchCAFails(s)
  BY <1>2, RetryKeepsJobs DEF FetchCAFails, JobType, counters
<1>3. CASE LoadPair(s)
  BY <1>3 DEF LoadPair, JobType, RunningIsCoherent, JobSteps, counters
<1>4. CASE Enroll(s)
  <2> DEFINE new == [ca |-> ca, key |-> issued[s] + 1]
  <2>1. new \in [ca: Nat, key: Nat]
    BY DEF ForgeType, JobType
  <2>2. cert' = [cert EXCEPT ![s] = new]
    BY <1>4 DEF Enroll
  <2> HIDE DEF new
  <2>3. cert' \in [Services -> [ca: Nat, key: Nat]]
    BY <2>1, <2>2 DEF JobType
  <2>4. JobType'
    BY <1>4, <2>3 DEF Enroll, Issue, JobType, JobSteps
  <2>5. RunningIsCoherent'
    BY <1>4, <2>2 DEF Enroll, JobType, RunningIsCoherent
  <2> QED
    BY <2>4, <2>5
<1>5. CASE EnrollFails(s)
  <2>1. late' \in [Services -> Nat]
    BY <1>5 DEF EnrollFails, JobType
  <2> QED
    BY <1>5, <2>1, RetryKeepsJobs DEF EnrollFails, JobType, counters
<1>6. CASE LateIssue(s)
  <2>1. late' \in [Services -> Nat]
    BY <1>6 DEF LateIssue, JobType
  <2> QED
    BY <1>6, <2>1 DEF LateIssue, Issue, JobType, RunningIsCoherent, jobs
<1>7. CASE Sign(s)
  BY <1>7 DEF Sign, SignHandshake, JobType, RunningIsCoherent, JobSteps, counters
<1>8. CASE Register(s)
  BY <1>8 DEF Register, JobType, RunningIsCoherent, JobSteps, counters
<1>9. CASE StartPod(s)
  <2>1. mounted' \in [Services -> Nat]
    BY <1>9 DEF StartPod, ForgeType, SecretData, JobType
  <2> QED
    BY <1>9, <2>1 DEF StartPod, JobType, RunningIsCoherent, JobSteps, counters
<1>10. CASE Sync(s)
  <2>1. mounted' \in [Services -> Nat]
    BY <1>10 DEF Sync, ForgeType, SecretData, JobType
  <2> QED
    BY <1>10, <2>1 DEF Sync, JobType, RunningIsCoherent, counters
<1>11. CASE ReplacePod(s)
  <2>1. /\ keys' \in [Services -> Nat] /\ late' \in [Services -> Nat]
        /\ mounted' \in [Services -> Nat] /\ issued' \in [Services -> Nat]
    BY <1>11 DEF ReplacePod, JobType, counters
  <2> QED
    BY <1>11, <2>1, JobEnds DEF ReplacePod
<1>12. CASE RestartContainer(s)
  BY <1>12 DEF RestartContainer, JobType, RunningIsCoherent, JobSteps, counters
<1>13. CASE CrashJob(s)
  <2>1. /\ keys' \in [Services -> Nat] /\ late' \in [Services -> Nat]
        /\ mounted' \in [Services -> Nat] /\ issued' \in [Services -> Nat]
    BY <1>13 DEF CrashJob, JobType
  <2> QED
    BY <1>13, <2>1, JobEnds DEF CrashJob
<1> QED
  BY <1>1, <1>2, <1>3, <1>4, <1>5, <1>6, <1>7, <1>8, <1>9, <1>10, <1>11, <1>12, <1>13
  DEF ObtainCerts, SelfRegisterWithAC, Kubernetes

\* A Job's step leaves cert-forge and the Secret alone.
LEMMA JobStepKeepsForge ==
  ASSUME ForgeInv, NEW s \in Services,
         ObtainCerts(s) \/ LateIssue(s) \/ SelfRegisterWithAC(s) \/ Kubernetes(s)
           \/ CrashJob(s)
  PROVE  ForgeInv'
<1>1. UNCHANGED <<forgeState, secret, selfTries>>
  BY DEF ObtainCerts, FetchCA, FetchCAFails, LoadPair, Enroll, EnrollFails, LateIssue,
         SelfRegisterWithAC, Sign, Register, Kubernetes, StartPod, Sync, ReplacePod,
         RestartContainer, CrashJob
<1>2. rolled' \subseteq Deployments /\ UNCHANGED <<cas, boots, rotations>>
  BY DEF ForgeInv, ForgeType, ObtainCerts, FetchCA, FetchCAFails, LoadPair, Enroll,
         EnrollFails, LateIssue, SelfRegisterWithAC, Sign, Register, Kubernetes, StartPod,
         Sync, ReplacePod, RestartContainer, CrashJob, counters
<1>3. crashes' \in Nat /\ faults' \in Nat /\ (faults' = 0 => faults = 0)
  BY DEF ForgeInv, ForgeType, ObtainCerts, FetchCA, FetchCAFails, LoadPair, Enroll,
         EnrollFails, LateIssue, SelfRegisterWithAC, Sign, Register, Kubernetes, StartPod,
         Sync, ReplacePod, RestartContainer, CrashJob, counters, Fault, Crash
<1>4. /\ selfTries' \in Nat \cup {-1}
      /\ cas' \in Nat /\ boots' \in Nat /\ rotations' \in Nat
  BY <1>1, <1>2 DEF ForgeInv, ForgeType
<1> QED
  BY <1>1, <1>2, <1>3, <1>4, ForgeKept

-----------------------------------------------------------------------------
(* The whole invariant.                                                     *)

IInv == ForgeInv /\ JobInv

LEMMA InitIInv == Init => IInv
<1> SUFFICES ASSUME Init PROVE IInv
  OBVIOUS
<1>1. ForgeInv
  BY DEF Init, ForgeInv, ForgeType, SecretExists, Stored, Kept, Serving, Booting
<1>2. cert \in [Services -> [ca: Nat, key: Nat]]
  BY DEF Init, NoCert
<1>3. JobInv
  BY <1>2 DEF Init, JobInv, JobType, RunningIsCoherent, JobSteps
<1> QED
  BY <1>1, <1>3 DEF IInv

LEMMA NextIInv == IInv /\ [Next]_vars => IInv'
<1> SUFFICES ASSUME IInv, [Next]_vars PROVE IInv'
  OBVIOUS
<1> USE DEF IInv
<1>1. CASE Boot
  BY <1>1, BootKeepsForge, ForgeStepKeepsJobs
<1>2. CASE Roll \/ Rotate \/ Overlap
  BY <1>2, RotationKeepsForge, ForgeStepKeepsJobs
<1>3. CASE SelfRegister
  <2>1. selfTries' \in Nat \cup {-1}
    BY <1>3 DEF SelfRegister, ForgeInv, ForgeType
  <2>2. ForgeInv'
    BY <1>3, <2>1, ForgeKept DEF SelfRegister, ForgeInv, ForgeType, counters
  <2> QED
    BY <1>3, <2>2, ForgeStepKeepsJobs
<1>4. ASSUME NEW s \in Services,
             ObtainCerts(s) \/ LateIssue(s) \/ SelfRegisterWithAC(s) \/ Kubernetes(s)
               \/ CrashJob(s)
      PROVE  IInv'
  BY <1>4, JobStepKeepsForge, JobStepKeepsJobs DEF ForgeInv
<1>5. CASE ReplaceForge
  <2>1. rolled' \subseteq Deployments
    BY <1>5 DEF ReplaceForge, ForgeInv, ForgeType
  <2> QED
    BY <1>5, <2>1, ForgeDied, DeathKeepsJobs DEF ReplaceForge, ForgeInv, ForgeType, counters
<1>6. CASE CrashForge
  BY <1>6, ForgeDied, DeathKeepsJobs DEF CrashForge, Crash, ForgeInv, ForgeType
<1>7. CASE UNCHANGED vars
  <2>1. ForgeInv'
    BY <1>7, ForgeKept DEF vars, ForgeInv, ForgeType, counters
  <2>2. JobInv'
    BY <1>7, JobsKept DEF vars, JobsUnmoved, counters
  <2> QED
    BY <2>1, <2>2
<1> QED
  BY <1>1, <1>2, <1>3, <1>4, <1>5, <1>6, <1>7 DEF Next

LEMMA Inductive == Spec => []IInv
BY InitIInv, NextIInv, PTL DEF Spec

\* Every variable keeps its type, for every number of Jobs.
THEOREM CertForgeTypeCorrect == Spec => []TypeOK
<1>1. IInv => TypeOK
  BY DEF IInv, ForgeInv, JobInv, ForgeType, JobType, SecretData, TypeOK
<1> QED
  BY <1>1, Inductive, PTL

\* With no failed call, cert-forge signs with the CA its next start will load,
\* everywhere but between a rotation's swap and its write.
THEOREM UsedCAIsAlwaysStored == Spec => []UsedCAIsStored
<1>1. IInv => UsedCAIsStored
  BY DEF IInv, ForgeInv, SecretExists, Stored, UsedCAIsStored
<1> QED
  BY <1>1, Inductive, PTL

\* A registered Job trusts the CA of its own certificate.
THEOREM RunningIsAlwaysCoherent == Spec => []RunningIsCoherent
<1>1. IInv => RunningIsCoherent
  BY DEF IInv, JobInv
<1> QED
  BY <1>1, Inductive, PTL

\* With no failed call, the passwords of the first startup are never replaced.
THEOREM SecretsAreAlwaysStable == Spec => SecretsAreStable
<1>1. IInv /\ [Next]_vars =>
        [faults' = 0 /\ secret # Nil
           => secret' # Nil /\ secret'.password = secret.password]_vars
  <2> SUFFICES ASSUME IInv, Next, faults' = 0, secret # Nil
               PROVE  secret' # Nil /\ secret'.password = secret.password
    BY DEF vars
  <2>1. CASE UNCHANGED secret
    BY <2>1
  <2>2. CASE WriteSecret
    <3>1. secret' = Material \/ secret' = secret
      BY <2>2 DEF WriteSecret
    <3>2. faults = 0 /\ fpc = "write"
      BY <2>2 DEF WriteSecret, Fault, IInv, ForgeInv, ForgeType
    <3>3. Material.password = secret.password /\ Material # Nil
      BY <3>2, MaterialType, NilIsNoData DEF IInv, ForgeInv, Kept
    <3> QED
      BY <3>1, <3>3
  <2>3. CASE StoreCA
    <3>1. secret \in SecretData
      BY DEF IInv, ForgeInv, ForgeType
    <3> DEFINE updated == [secret EXCEPT !.ca = ca]
    <3>2. updated \in SecretData /\ updated.password = secret.password
      BY <3>1 DEF SecretData, IInv, ForgeInv, ForgeType
    <3>3. secret' \in {secret, updated}
      BY <2>3 DEF StoreCA
    <3> QED
      BY <3>2, <3>3, NilIsNoData
  <2>4. UNCHANGED secret \/ WriteSecret \/ StoreCA
    BY DEF Next, Boot, Start, LoadCA, LoadSymmetric, WriteTLS, Roll, EndRoll, Patch,
           Rotate, RotateInstances, RotateCA, Overlap, EndOverlap, SelfRegister,
           ObtainCerts, FetchCA, FetchCAFails, LoadPair, Enroll, EnrollFails, LateIssue,
           SelfRegisterWithAC, Sign, Register, Kubernetes, StartPod, Sync, ReplacePod,
           RestartContainer, CrashJob, ReplaceForge, CrashForge
  <2> QED
    BY <2>1, <2>2, <2>3, <2>4
<1> QED
  BY <1>1, Inductive, PTL DEF Spec, SecretsAreStable
=============================================================================
