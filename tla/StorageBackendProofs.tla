------------------------ MODULE StorageBackendProofs ------------------------
(***************************************************************************)
(* Machine-checked proofs about StorageBackend, about a restore beside it  *)
(* (BackendRestore), and about the ArtifactStore that the scripts          *)
(* implement: any number of runs and of failures, any KeepLast, any        *)
(* interleaving.                                                           *)
(***************************************************************************)
EXTENDS BackendRestore, FiniteSetTheorems, WellFoundedInduction, TLAPS

----------------------------------------------------------------------------
(* Sets of runs *)

(* A set of runs that is not empty has a newest member.                     *)
LEMMA NewestIsMaximal ==
    ASSUME NEW S \in SUBSET Runs, S # {}
    PROVE  Newest(S) \in S /\ \A s \in S : s <= Newest(S)
<1> DEFINE T == {MaxRuns - s : s \in S}
<1>1. T \subseteq Nat
  <2>1. ASSUME NEW s \in S PROVE MaxRuns - s \in Nat
    BY BackendAssumption DEF Runs
  <2>2. QED
    BY <2>1
<1>2. T # {}
  OBVIOUS
<1>3. PICK x \in T : \A y \in T : <<y, x>> \notin OpToRel(<, Nat)
  BY <1>1, <1>2, WFMin, NatLessThanWellFounded, Zenon
<1>4. \A y \in T : ~ (y < x)
  <2>1. \A y \in T : <<y, x>> \in Nat \X Nat
    BY <1>1
  <2>2. QED
    BY <1>3, <2>1 DEF OpToRel
<1>5. PICK m \in S : x = MaxRuns - m
  OBVIOUS
<1>6. ASSUME NEW s \in S PROVE s <= m
  <2>1. MaxRuns - s \in T
    OBVIOUS
  <2>2. QED
    BY <1>4, <1>5, <2>1, BackendAssumption DEF Runs
<1>7. QED
  BY <1>6 DEF Newest

(* Runs and its subsets are finite, and a larger set has more newer members. *)
LEMMA SubsetsOfRuns ==
    ASSUME NEW S \in SUBSET Runs
    PROVE  IsFiniteSet(S) /\ Cardinality(S) \in Nat /\ Cardinality(S) <= MaxRuns
<1>1. IsFiniteSet(Runs) /\ Cardinality(Runs) = MaxRuns
  BY BackendAssumption, FS_Interval DEF Runs
<1>2. QED
  BY <1>1, FS_Subset, FS_CardinalityType

LEMMA NewerIsMonotonic ==
    ASSUME NEW S \in SUBSET Runs, NEW T \in SUBSET S, NEW r
    PROVE  /\ Cardinality(Newer(r, T)) <= Cardinality(Newer(r, S))
           /\ Cardinality(Newer(r, T)) \in Nat
           /\ Cardinality(Newer(r, S)) \in Nat
<1>1. Newer(r, T) \in SUBSET Newer(r, S) /\ Newer(r, S) \in SUBSET Runs
  BY DEF Newer
<1>2. QED
  BY <1>1, SubsetsOfRuns, FS_Subset

(* Pruning leaves KeepLast of the artifacts listed.                         *)
LEMMA DoomedLeavesKeepLast ==
    ASSUME NEW S \in SUBSET Runs, Doomed(S) # {}
    PROVE  Cardinality(Doomed(S)) + KeepLast <= MaxRuns
<1> DEFINE D == Doomed(S)
           m == Newest(D)
           N == Newer(m, S)
<1>1. KeepLast # 0 /\ D \in SUBSET Runs
  BY DEF Doomed
<1>2. m \in D /\ \A d \in D : d <= m
  BY <1>1, NewestIsMaximal
<1>3. Cardinality(N) >= KeepLast
  BY <1>1, <1>2 DEF Doomed
<1>4. D \cap N = {} /\ N \in SUBSET Runs
  <2>1. N \in SUBSET Runs
    BY DEF Newer
  <2>2. ASSUME NEW d \in D, d \in N PROVE FALSE
    <3>1. d <= m /\ d > m
      BY <1>2, <2>2 DEF Newer
    <3>2. d \in Nat /\ m \in Nat
      BY <1>1, <1>2 DEF Runs
    <3>3. QED
      BY <3>1, <3>2
  <2>3. QED
    BY <2>1, <2>2
<1>5. /\ IsFiniteSet(D) /\ Cardinality(D) \in Nat
      /\ IsFiniteSet(N) /\ Cardinality(N) \in Nat
  BY <1>1, <1>4, SubsetsOfRuns
<1>6. Cardinality(D \cup N) = Cardinality(D) + Cardinality(N)
  <2>1. Cardinality(D \cap N) = 0
    BY <1>4, FS_EmptySet
  <2>2. Cardinality(D \cup N) = Cardinality(D) + Cardinality(N) - Cardinality(D \cap N)
    BY <1>5, FS_Union
  <2>3. QED
    BY <1>5, <2>1, <2>2
<1>7. Cardinality(D \cup N) <= MaxRuns
  BY <1>1, <1>4, SubsetsOfRuns
<1>8. QED
  BY <1>3, <1>5, <1>6, <1>7, BackendAssumption

----------------------------------------------------------------------------
(* Type correctness *)

LEMMA TypesHold == Types /\ [Next]_vars => Types'
<1> SUFFICES ASSUME Types, [Next]_vars PROVE Types'
  OBVIOUS
<1>0. kind' = kind
  BY DEF Next, vars
<1> USE <1>0 DEF Types, UploadSteps, CleanupSteps, Suffixes
<1>1. ASSUME NEW r \in Runs, UploadStep(r) PROVE Types'
  <2>1. CASE Package(r) \/ CopyLatest(r) \/ Verify(r) \/ Report(r)
    BY <2>1 DEF Package, CopyLatest, Verify, Report, GoTo
  <2>2. CASE CopyArtifact(r)
    <3>1. files' \subseteq Runs \X Suffixes /\ partial' \subseteq Runs
      BY <2>2 DEF CopyArtifact
    <3>2. QED
      BY <2>2, <3>1 DEF CopyArtifact, GoTo
  <2>7. CASE FinishCopy(r)
    BY <2>7 DEF FinishCopy, GoTo
  <2>3. CASE CopyChecksum(r) \/ CopyMetadata(r)
    BY <2>3 DEF CopyChecksum, CopyMetadata, GoTo
  <2>4. CASE List(r)
    <3>1. \A S \in SUBSET Runs : Doomed(S) \in SUBSET Runs
      BY DEF Doomed
    <3>2. PICK listed \in {With("tgz"), {}} :
             /\ listed # With("tgz") => faults < MaxFaults
             /\ faults' = IF listed = With("tgz") THEN faults ELSE faults + 1
             /\ upload' = [upload EXCEPT ![r] = [pc |-> "prune", doomed |-> Doomed(listed)]]
      BY <2>4 DEF List
    <3>3. Doomed(listed) \in SUBSET Runs
      BY <3>1 DEF With
    <3>4. faults' \in 0..MaxFaults
      BY <3>2, BackendAssumption
    <3>5. QED
      BY <2>4, <3>2, <3>3, <3>4 DEF List
  <2>5. CASE Prune(r)
    BY <2>5, BackendAssumption DEF Prune, Remove, Leftovers
  <2>6. QED
    BY <1>1, <2>1, <2>2, <2>3, <2>4, <2>5, <2>7 DEF UploadStep
<1>2. ASSUME NEW r \in Runs, CleanupStep(r) PROVE Types'
  <2>1. CASE StartCleanup(r)
    BY <2>1 DEF StartCleanup
  <2>2. CASE RemoveArtifact(r)
    BY <2>2, BackendAssumption DEF RemoveArtifact, Remove, Leftovers
  <2>3. CASE SkipCleanup(r)
    BY <2>3, BackendAssumption DEF SkipCleanup
  <2>4. CASE ChooseLatest(r)
    <3>1. LatestSource(r) \in Runs \cup {None}
      <4> DEFINE S == With("metadata") \ {r}
      <4>1. S \in SUBSET Runs
        BY DEF With
      <4>2. S # {} => Newest(S) \in Runs
        BY <4>1, NewestIsMaximal
      <4>3. QED
        BY <4>2 DEF LatestSource
    <3>2. QED
      BY <2>4, <3>1, BackendAssumption DEF ChooseLatest
  <2>5. CASE ReplaceLatest(r)
    BY <2>5 DEF ReplaceLatest
  <2>6. QED
    BY <1>2, <2>1, <2>2, <2>3, <2>4, <2>5 DEF CleanupStep
<1>3. ASSUME NEW r \in Runs, Kill(r) PROVE Types'
  BY <1>3, BackendAssumption DEF Kill, GoTo
<1>4. CASE UNCHANGED vars
  BY <1>4 DEF vars
<1>5. QED
  BY <1>1, <1>2, <1>3, <1>4 DEF Next

----------------------------------------------------------------------------
(* The inductive invariant *)

(* Only a copy that is going on or was cut off leaves an archive partial.   *)
PartialIsBusy == \A r \in partial : upload[r].pc \in {"copying", "failed"}

(* Metadata, and with it latest.json, comes after the archive.              *)
MetadataComesLast ==
    \A r \in Runs : r \in With("metadata") \/ r = latest =>
        upload[r].pc \notin {"waiting", "artifact", "copying"} /\ r \notin partial

(* A cleanup comes after its upload, and on NFS passes only what is gone.   *)
CleanupComesLast ==
    \A r \in Runs :
        /\ cleanup[r].pc # "none" => upload[r].pc = "reported"
        /\ kind = "nfs" /\ cleanup[r].pc \in {"list", "latest", "done"}
             => files \cap FilesOf(r) = {}

(* Something is pruned at all, and KeepLast newer runs have packaged their  *)
(* data.                                                                    *)
OldEnough(r) == KeepLast # 0 /\ Cardinality(Newer(r, Packaged)) >= KeepLast

(* What is about to be pruned, or missing without a cleanup, is old enough. *)
PrunedIsOld ==
    /\ With("tgz") \subseteq Packaged
    /\ \A s \in Runs : \A r \in upload[s].doomed : OldEnough(r)
    /\ \A r \in Runs :
          /\ upload[r].pc \notin {"waiting", "artifact", "failed"}
          /\ cleanup[r].pc = "none"
          /\ r \notin With("tgz")
          => OldEnough(r)

Consistent ==
    /\ TypeOK
    /\ PartialIsBusy
    /\ MetadataComesLast
    /\ CleanupComesLast
    /\ PrunedIsOld

(* The bound on what is pruned: a new listing has it, and it only shrinks.  *)
LEMMA TypeOKHolds == TypeOK /\ [Next]_vars => TypeOK'
<1> SUFFICES ASSUME TypeOK, [Next]_vars PROVE TypeOK'
  OBVIOUS
<1>1. Types /\ Types'
  BY TypesHold DEF TypeOK
<1>2. ASSUME NEW s \in Runs, upload'[s].doomed # {}
      PROVE  Cardinality(upload'[s].doomed) + KeepLast <= MaxRuns
  <2> DEFINE Shrunk == upload'[s].doomed \subseteq upload[s].doomed
             Listed == \E S \in SUBSET Runs : upload'[s].doomed = Doomed(S)
  <2>1. CASE Shrunk
    <3>1. upload[s].doomed # {} /\ upload[s].doomed \in SUBSET Runs
      BY <1>1, <1>2, <2>1 DEF Types
    <3>2. /\ Cardinality(upload'[s].doomed) <= Cardinality(upload[s].doomed)
          /\ Cardinality(upload'[s].doomed) \in Nat /\ Cardinality(upload[s].doomed) \in Nat
      BY <2>1, <3>1, SubsetsOfRuns, FS_Subset
    <3>3. Cardinality(upload[s].doomed) + KeepLast <= MaxRuns
      BY <3>1 DEF TypeOK
    <3>4. QED
      BY <3>2, <3>3, BackendAssumption
  <2>2. CASE Listed
    BY <1>2, <2>2, DoomedLeavesKeepLast
  <2>3. Shrunk \/ Listed
    <3>1. ASSUME NEW r \in Runs, List(r) PROVE Listed \/ Shrunk
      <4>1. PICK listed \in {With("tgz"), {}} :
              upload' = [upload EXCEPT ![r] = [pc |-> "prune", doomed |-> Doomed(listed)]]
        BY <3>1 DEF List
      <4>2. listed \in SUBSET Runs
        BY DEF With
      <4>3. s = r => upload'[s].doomed = Doomed(listed)
        BY <1>1, <4>1 DEF Types
      <4>4. s # r => upload'[s] = upload[s]
        BY <1>1, <4>1 DEF Types
      <4>5. QED
        BY <4>2, <4>3, <4>4
    <3>2. ASSUME NEW r \in Runs, Prune(r) PROVE Shrunk
      BY <1>1, <3>2 DEF Prune, Types
    <3>3. ASSUME NEW r \in Runs, NEW pc, GoTo(r, pc)
          PROVE  upload'[s].doomed = upload[s].doomed
      BY <1>1, <3>3 DEF GoTo, Types
    <3>4. CASE \E r \in Runs : UploadStep(r) \/ Kill(r)
      <4>1. PICK r \in Runs : UploadStep(r) \/ Kill(r)
        BY <3>4
      <4>2. CASE Kill(r)
        BY <3>3, <4>2 DEF Kill
      <4>3. CASE UploadStep(r)
        BY <3>1, <3>2, <3>3, <4>3
           DEF UploadStep, Package, CopyArtifact, FinishCopy, CopyChecksum, CopyMetadata,
               CopyLatest, Verify, Report
      <4>4. QED
        BY <4>1, <4>2, <4>3
    <3>5. CASE \E r \in Runs : CleanupStep(r)
      BY <3>5 DEF CleanupStep, StartCleanup, RemoveArtifact, SkipCleanup, ChooseLatest,
                  ReplaceLatest
    <3>6. CASE UNCHANGED vars
      BY <3>6 DEF vars
    <3>7. QED
      BY <3>4, <3>5, <3>6 DEF Next
  <2>4. QED
    BY <2>1, <2>2, <2>3
<1>3. QED
  BY <1>1, <1>2 DEF TypeOK

LEMMA PartialIsBusyHolds == Types /\ PartialIsBusy /\ [Next]_vars => PartialIsBusy'
<1> SUFFICES ASSUME Types, PartialIsBusy, [Next]_vars PROVE PartialIsBusy'
  OBVIOUS
<1> USE DEF PartialIsBusy, Types, UploadSteps
<1>1. ASSUME NEW r \in Runs, UploadStep(r) PROVE PartialIsBusy'
  <2>1. CASE Package(r) \/ CopyLatest(r) \/ Verify(r) \/ Report(r)
    BY <2>1 DEF Package, CopyLatest, Verify, Report, GoTo
  <2>2. CASE CopyArtifact(r)
    <3>1. CASE kind = "nfs"
      BY <2>2, <3>1 DEF CopyArtifact, GoTo
    <3>2. CASE kind # "nfs"
      BY <2>2, <3>2 DEF CopyArtifact, GoTo
    <3>3. QED
      BY <3>1, <3>2
  <2>3. CASE FinishCopy(r) \/ CopyChecksum(r) \/ CopyMetadata(r)
    BY <2>3 DEF FinishCopy, CopyChecksum, CopyMetadata, GoTo
  <2>4. CASE List(r)
    BY <2>4 DEF List
  <2>5. CASE Prune(r)
    <3>1. partial' \subseteq partial
      BY <2>5 DEF Prune, Remove
    <3>2. QED
      BY <2>5, <3>1 DEF Prune
  <2>6. QED
    BY <1>1, <2>1, <2>2, <2>3, <2>4, <2>5 DEF UploadStep
<1>2. ASSUME NEW r \in Runs, CleanupStep(r) PROVE PartialIsBusy'
  <2>1. partial' \subseteq partial /\ upload' = upload
    BY <1>2 DEF CleanupStep, StartCleanup, RemoveArtifact, Remove, SkipCleanup, ChooseLatest,
                ReplaceLatest
  <2>2. QED
    BY <2>1
<1>3. ASSUME NEW r \in Runs, Kill(r) PROVE PartialIsBusy'
  BY <1>3 DEF Kill, GoTo
<1>4. CASE UNCHANGED vars
  BY <1>4 DEF vars
<1>5. QED
  BY <1>1, <1>2, <1>3, <1>4 DEF Next

LEMMA MetadataComesLastHolds ==
    Types /\ PartialIsBusy /\ MetadataComesLast /\ [Next]_vars => MetadataComesLast'
<1> SUFFICES ASSUME Types, PartialIsBusy, MetadataComesLast, [Next]_vars
             PROVE  MetadataComesLast'
  OBVIOUS
<1> USE DEF PartialIsBusy, MetadataComesLast, Types, UploadSteps, With
<1>1. ASSUME NEW r \in Runs, UploadStep(r) PROVE MetadataComesLast'
  <2>1. CASE Package(r)
    BY <2>1 DEF Package, GoTo
  <2>2. CASE CopyArtifact(r)
    <3>1. With("metadata")' = With("metadata") /\ partial' \subseteq partial \cup {r}
      BY <2>2 DEF CopyArtifact
    <3>2. QED
      BY <2>2, <3>1 DEF CopyArtifact, GoTo
  <2>3. CASE FinishCopy(r) \/ CopyLatest(r)
    BY <2>3 DEF FinishCopy, CopyLatest, GoTo
  <2>4. CASE CopyChecksum(r)
    BY <2>4 DEF CopyChecksum, GoTo
  <2>5. CASE CopyMetadata(r)
    BY <2>5 DEF CopyMetadata, GoTo
  <2>6. CASE Verify(r) \/ Report(r)
    BY <2>6 DEF Verify, Report, GoTo
  <2>7. CASE List(r)
    BY <2>7 DEF List
  <2>8. CASE Prune(r)
    <3>1. files' \subseteq files /\ partial' \subseteq partial
      BY <2>8 DEF Prune, Remove, Leftovers
    <3>2. QED
      BY <2>8, <3>1 DEF Prune
  <2>9. QED
    BY <1>1, <2>1, <2>2, <2>3, <2>4, <2>5, <2>6, <2>7, <2>8 DEF UploadStep
<1>2. ASSUME NEW r \in Runs, CleanupStep(r) PROVE MetadataComesLast'
  <2>1. files' \subseteq files /\ partial' \subseteq partial /\ upload' = upload
    BY <1>2 DEF CleanupStep, StartCleanup, RemoveArtifact, Remove, Leftovers, SkipCleanup,
                ChooseLatest, ReplaceLatest
  <2>2. latest' = latest \/ latest' = None \/ latest' \in With("metadata")
    BY <1>2 DEF CleanupStep, StartCleanup, RemoveArtifact, SkipCleanup, ChooseLatest,
                ReplaceLatest
  <2>3. None \notin Runs
    BY DEF None, Runs
  <2>4. QED
    BY <2>1, <2>2, <2>3
<1>3. ASSUME NEW r \in Runs, Kill(r) PROVE MetadataComesLast'
  BY <1>3 DEF Kill, GoTo
<1>4. CASE UNCHANGED vars
  BY <1>4 DEF vars
<1>5. QED
  BY <1>1, <1>2, <1>3, <1>4 DEF Next

LEMMA CleanupComesLastHolds ==
    Types /\ CleanupComesLast /\ [Next]_vars => CleanupComesLast'
<1> SUFFICES ASSUME Types, CleanupComesLast, [Next]_vars PROVE CleanupComesLast'
  OBVIOUS
<1>0. kind' = kind
  BY DEF Next, vars
<1> USE <1>0 DEF CleanupComesLast, Types, UploadSteps, CleanupSteps
<1>1. ASSUME NEW r \in Runs, UploadStep(r) PROVE CleanupComesLast'
  <2>1. cleanup' = cleanup /\ upload[r].pc # "reported"
    BY <1>1 DEF UploadStep, Package, CopyArtifact, FinishCopy, CopyChecksum, CopyMetadata,
                CopyLatest, Verify, List, Prune, Report
  <2>2. \A s \in Runs : s # r => upload'[s] = upload[s]
    BY <1>1 DEF UploadStep, Package, CopyArtifact, FinishCopy, CopyChecksum, CopyMetadata,
                CopyLatest, Verify, List, Prune, Report, GoTo
  <2>3. files' \subseteq files \cup FilesOf(r)
    <3>1. CASE CopyArtifact(r) \/ CopyChecksum(r) \/ CopyMetadata(r)
      BY <3>1 DEF CopyArtifact, CopyChecksum, CopyMetadata, FilesOf, Suffixes
    <3>2. CASE Prune(r)
      BY <3>2 DEF Prune, Remove, Leftovers
    <3>3. QED
      BY <1>1, <3>1, <3>2 DEF UploadStep, Package, FinishCopy, CopyLatest, Verify, List, Report
  <2>4. \A s \in Runs : s # r => FilesOf(s) \cap FilesOf(r) = {}
    BY DEF FilesOf
  <2>5. QED
    BY <2>1, <2>2, <2>3, <2>4
<1>2. ASSUME NEW r \in Runs, CleanupStep(r) PROVE CleanupComesLast'
  <2>1. files' \subseteq files /\ upload' = upload
    BY <1>2 DEF CleanupStep, StartCleanup, RemoveArtifact, Remove, Leftovers, SkipCleanup,
                ChooseLatest, ReplaceLatest
  <2>2. CASE StartCleanup(r) \/ SkipCleanup(r)
    BY <2>1, <2>2 DEF StartCleanup, SkipCleanup
  <2>3. CASE RemoveArtifact(r)
    <3>1. PICK left \in Leftovers(r) :
            /\ files' = (files \ FilesOf(r)) \cup left
            /\ cleanup' = [cleanup EXCEPT ![r].pc =
                             IF left # {} /\ kind = "nfs" THEN "failed" ELSE "list"]
      BY <2>3 DEF RemoveArtifact, Remove
    <3>2. QED
      BY <2>1, <2>3, <3>1 DEF RemoveArtifact
  <2>4. CASE ChooseLatest(r)
    BY <2>1, <2>4 DEF ChooseLatest
  <2>5. CASE ReplaceLatest(r)
    BY <2>1, <2>5 DEF ReplaceLatest
  <2>6. QED
    BY <1>2, <2>2, <2>3, <2>4, <2>5 DEF CleanupStep
<1>3. ASSUME NEW r \in Runs, Kill(r) PROVE CleanupComesLast'
  BY <1>3 DEF Kill, GoTo, Uploading, Cleaning
<1>4. CASE UNCHANGED vars
  BY <1>4 DEF vars, FilesOf
<1>5. QED
  BY <1>1, <1>2, <1>3, <1>4 DEF Next

(* Runs that have packaged their data stay so, and others join them.        *)
LEMMA OldStaysOld ==
    ASSUME Types, [Next]_vars, NEW r, OldEnough(r) PROVE OldEnough(r)'
<1>1. Packaged \subseteq Packaged'
  <2>1. ASSUME NEW s \in Runs, UploadStep(s) \/ Kill(s) PROVE Packaged \subseteq Packaged'
    BY <2>1 DEF Types, Packaged, UploadStep, Package, CopyArtifact, FinishCopy, CopyChecksum,
                CopyMetadata, CopyLatest, Verify, List, Prune, Report, Kill, GoTo
  <2>2. ASSUME NEW s \in Runs, CleanupStep(s) PROVE upload' = upload
    BY <2>2 DEF CleanupStep, StartCleanup, RemoveArtifact, SkipCleanup, ChooseLatest,
                ReplaceLatest
  <2>3. QED
    BY <2>1, <2>2 DEF Next, vars, Packaged
<1>2. Packaged \in SUBSET Packaged' /\ Packaged' \in SUBSET Runs
  BY <1>1 DEF Packaged
<1>3. /\ Cardinality(Newer(r, Packaged)) <= Cardinality(Newer(r, Packaged'))
      /\ Cardinality(Newer(r, Packaged)) \in Nat
      /\ Cardinality(Newer(r, Packaged')) \in Nat
  BY <1>2, NewerIsMonotonic
<1>4. Newer(r, Packaged)' = Newer(r, Packaged')
  BY DEF Newer
<1>5. QED
  BY <1>3, <1>4, BackendAssumption DEF OldEnough

(* Who has KeepLast newer archives in a listing has KeepLast newer runs.    *)
LEMMA DoomedIsOld ==
    ASSUME Types, NEW S \in SUBSET Packaged, NEW r \in Doomed(S) PROVE OldEnough(r)
<1>1. Packaged \in SUBSET Runs
  BY DEF Packaged
<1>2. KeepLast # 0 /\ Cardinality(Newer(r, S)) >= KeepLast
  BY DEF Doomed
<1>3. /\ Cardinality(Newer(r, S)) <= Cardinality(Newer(r, Packaged))
      /\ Cardinality(Newer(r, S)) \in Nat /\ Cardinality(Newer(r, Packaged)) \in Nat
  BY <1>1, NewerIsMonotonic
<1>4. QED
  BY <1>2, <1>3, BackendAssumption DEF OldEnough

LEMMA PrunedIsOldHolds ==
    Types /\ CleanupComesLast /\ PrunedIsOld /\ [Next]_vars => PrunedIsOld'
<1> SUFFICES ASSUME Types, CleanupComesLast, PrunedIsOld, [Next]_vars PROVE PrunedIsOld'
  OBVIOUS
<1>0. \A r : OldEnough(r) => OldEnough(r)'
  BY OldStaysOld
<1>1. ASSUME NEW r \in Runs, UploadStep(r) PROVE PrunedIsOld'
  <2>1. cleanup' = cleanup /\ upload[r].pc # "failed"
    BY <1>1 DEF UploadStep, Package, CopyArtifact, FinishCopy, CopyChecksum, CopyMetadata,
                CopyLatest, Verify, List, Prune, Report
  <2>2. CASE Package(r)
    BY <1>0, <2>1, <2>2 DEF Types, PrunedIsOld, Package, GoTo, Packaged, With
  <2>3. CASE CopyArtifact(r)
    BY <1>0, <2>1, <2>3 DEF Types, PrunedIsOld, CopyArtifact, GoTo, Packaged, With
  <2>4. CASE FinishCopy(r) \/ CopyLatest(r)
    BY <1>0, <2>1, <2>4, SMTT(30)
       DEF Types, PrunedIsOld, FinishCopy, CopyLatest, GoTo, Packaged, With
  <2>8. CASE Verify(r) \/ Report(r)
    <3>1. /\ \A s \in Runs : upload'[s].doomed = upload[s].doomed
          /\ \A s \in Runs : s # r => upload'[s] = upload[s]
          /\ upload[r].pc \in {"verify", "prune"}
          /\ upload'[r].pc \in {"list", "failed", "reported"}
          /\ upload'[r].pc # "failed" => r \in With("tgz") \/ upload[r].pc = "prune"
      BY <2>8 DEF Types, Verify, Report, GoTo
    <3>2. files' = files
      BY <2>8 DEF Verify, Report
    <3>3. Packaged' = Packaged /\ With("tgz")' = With("tgz")
      BY <3>1, <3>2 DEF Packaged, With
    <3>4. QED
      BY <1>0, <2>1, <3>1, <3>3 DEF PrunedIsOld
  <2>5. CASE CopyChecksum(r) \/ CopyMetadata(r)
    BY <1>0, <2>1, <2>5
       DEF Types, PrunedIsOld, CopyChecksum, CopyMetadata, GoTo, Packaged, With
  <2>6. CASE List(r)
    <3>1. PICK listed \in {With("tgz"), {}} :
            upload' = [upload EXCEPT ![r] = [pc |-> "prune", doomed |-> Doomed(listed)]]
      BY <2>6 DEF List
    <3>2. \A s \in Doomed(listed) : OldEnough(s)
      <4>1. listed \in SUBSET Packaged
        BY DEF PrunedIsOld
      <4>2. QED
        BY <4>1, DoomedIsOld
    <3>3. files' = files /\ upload[r].pc = "list"
      BY <2>6 DEF List
    <3>4. QED
      BY <1>0, <2>1, <3>1, <3>2, <3>3 DEF Types, PrunedIsOld, Packaged, With
  <2>7. CASE Prune(r)
    <3> DEFINE old == Newest(upload[r].doomed)
    <3>1. PICK left \in Leftovers(old) :
            /\ files' = (files \ FilesOf(old)) \cup left
            /\ upload' = IF left # {} /\ kind = "nfs"
                         THEN [upload EXCEPT ![r].pc = "failed"]
                         ELSE [upload EXCEPT ![r].doomed = @ \ {old}]
      BY <2>7 DEF Prune, Remove
    <3>2. OldEnough(old)
      <4>1. upload[r].doomed \in SUBSET Runs /\ upload[r].doomed # {}
        BY <2>7 DEF Types, Prune
      <4>2. QED
        BY <4>1, NewestIsMaximal DEF PrunedIsOld
    <3>3. files' \subseteq files /\ \A s \in Runs : s # old => files' \cap FilesOf(s) = files \cap FilesOf(s)
      BY <3>1 DEF Leftovers, FilesOf
    <3>4. \A s \in Runs : s # old /\ s \in With("tgz") => s \in With("tgz")'
      BY <3>3 DEF With, FilesOf, Suffixes
    <3>5. /\ \A s \in Runs : upload'[s].doomed \subseteq upload[s].doomed
          /\ \A s \in Runs : upload'[s].pc \in {upload[s].pc, "failed"}
      BY <3>1 DEF Types
    <3>6. With("tgz")' \subseteq With("tgz") /\ Packaged \subseteq Packaged'
      BY <3>3, <3>5 DEF With, Packaged
    <3>7. QED
      BY <1>0, <2>1, <3>2, <3>4, <3>5, <3>6 DEF PrunedIsOld
  <2>9. QED
    BY <1>1, <2>2, <2>3, <2>4, <2>5, <2>6, <2>7, <2>8 DEF UploadStep
<1>2. ASSUME NEW r \in Runs, CleanupStep(r) PROVE PrunedIsOld'
  <2>1. upload' = upload
    BY <1>2 DEF CleanupStep, StartCleanup, RemoveArtifact, SkipCleanup, ChooseLatest,
                ReplaceLatest
  <2>2. \A s \in Runs : cleanup'[s].pc = "none" => cleanup[s].pc = "none"
    BY <1>2 DEF Types, CleanupStep, StartCleanup, RemoveArtifact, SkipCleanup, ChooseLatest,
                ReplaceLatest
  <2>3. \A s \in Runs : cleanup'[s].pc = "none" /\ s \in With("tgz") => s \in With("tgz")'
    <3>1. CASE RemoveArtifact(r)
      <4>1. cleanup'[r].pc # "none"
        BY <3>1 DEF Types, RemoveArtifact
      <4>2. \A s \in Runs : s # r => files \cap FilesOf(s) \subseteq files'
        BY <3>1 DEF RemoveArtifact, Remove, FilesOf
      <4>3. QED
        BY <4>1, <4>2 DEF With, FilesOf, Suffixes
    <3>2. CASE ~RemoveArtifact(r)
      BY <1>2, <3>2 DEF CleanupStep, StartCleanup, SkipCleanup, ChooseLatest, ReplaceLatest, With
    <3>3. QED
      BY <3>1, <3>2
  <2>4. files' \subseteq files
    BY <1>2 DEF CleanupStep, StartCleanup, RemoveArtifact, Remove, Leftovers, SkipCleanup,
                ChooseLatest, ReplaceLatest
  <2>5. With("tgz")' \subseteq With("tgz") /\ Packaged' = Packaged
    BY <2>1, <2>4 DEF With, Packaged
  <2>6. QED
    BY <1>0, <2>1, <2>2, <2>3, <2>5 DEF PrunedIsOld
<1>3. ASSUME NEW r \in Runs, Kill(r) PROVE PrunedIsOld'
  <2>1. files' = files
    BY <1>3 DEF Kill
  <2>2. /\ \A s \in Runs : upload'[s].doomed = upload[s].doomed
        /\ \A s \in Runs : upload'[s].pc \in {upload[s].pc, "failed"}
        /\ \A s \in Runs : cleanup'[s].pc = "none" => cleanup[s].pc = "none"
    <3>1. CASE GoTo(r, "failed") /\ cleanup' = cleanup
      BY <3>1 DEF GoTo, Types
    <3>2. CASE /\ cleanup' = [cleanup EXCEPT ![r] = [pc |-> "failed", source |-> None]]
               /\ upload' = upload
      BY <3>2 DEF Types
    <3>3. QED
      BY <1>3, <3>1, <3>2 DEF Kill
  <2>3. With("tgz")' = With("tgz") /\ Packaged \subseteq Packaged'
    BY <2>1, <2>2 DEF With, Packaged
  <2>4. QED
    BY <1>0, <2>2, <2>3 DEF PrunedIsOld
<1>4. CASE UNCHANGED vars
  BY <1>0, <1>4 DEF vars, PrunedIsOld, With, Packaged
<1>5. QED
  BY <1>1, <1>2, <1>3, <1>4 DEF Next

----------------------------------------------------------------------------
(* The theorems *)

LEMMA InitIsConsistent == Init => Consistent
<1> SUFFICES ASSUME Init PROVE Consistent
  OBVIOUS
<1>1. TypeOK
  <2>1. Types
    BY BackendAssumption DEF Init, Types
  <2>2. QED
    BY <2>1 DEF Init, TypeOK
<1>2. PartialIsBusy
  BY DEF Init, PartialIsBusy
<1>3. MetadataComesLast
  BY DEF Init, MetadataComesLast, With, None, Runs
<1>4. CleanupComesLast
  BY DEF Init, CleanupComesLast
<1>5. PrunedIsOld
  BY DEF Init, PrunedIsOld, With
<1>6. QED
  BY <1>1, <1>2, <1>3, <1>4, <1>5 DEF Consistent

(* The scripts keep the directory consistent whatever the order of their    *)
(* commands and whichever of them fail.                                     *)
THEOREM BackendIsConsistent == Spec => []Consistent
<1>1. Init => Consistent
  BY InitIsConsistent
<1>2. Consistent /\ [Next]_vars => Consistent'
  BY TypeOKHolds, PartialIsBusyHolds, MetadataComesLastHolds, CleanupComesLastHolds,
     PrunedIsOldHolds
     DEF Consistent, TypeOK
<1>3. QED
  BY <1>1, <1>2, PTL DEF Spec

(* The type invariant, with the bound on what an upload is about to prune.  *)
THEOREM BackendTypeCorrect == Spec => []TypeOK
<1>1. Consistent => TypeOK
  BY DEF Consistent
<1>2. QED
  BY <1>1, BackendIsConsistent, PTL

(* A reported archive, and the one latest.json names, is complete, for any  *)
(* number of concurrent uploads and of failures.                            *)
THEOREM ReferencedArchivesAreWhole == Spec => []ReferencedIsWhole
<1>1. Consistent => ReferencedIsWhole
  <2> SUFFICES ASSUME Consistent, NEW r \in Runs, r \in partial,
                      r \in Reported \/ r = latest
               PROVE  FALSE
    BY DEF ReferencedIsWhole, Reported, Consistent, TypeOK, Types
  <2>1. r \notin Reported
    BY DEF Consistent, PartialIsBusy, Reported
  <2>2. r # latest
    BY DEF Consistent, MetadataComesLast
  <2>3. QED
    BY <2>1, <2>2
<1>2. QED
  BY <1>1, BackendIsConsistent, PTL

(* On NFS a cleanup that has succeeded has left no file of its artifact.    *)
THEOREM CleanedArtifactIsGone == Spec => []CleanedIsGone
<1>1. Consistent => CleanedIsGone
  BY DEF Consistent, CleanupComesLast, CleanedIsGone
<1>2. QED
  BY <1>1, BackendIsConsistent, PTL

(* Pruning takes an artifact with a Snapshot only when KeepLast newer runs  *)
(* have packaged their data.                                                *)
THEOREM PruningTakesOnlyOld == Spec => []PrunesOnlyOld
<1>1. Consistent => PrunesOnlyOld
  <2> SUFFICES ASSUME Consistent, NEW r \in Reported \cap Untouched,
                      KeepLast = 0 \/ Cardinality(Newer(r, Packaged)) < KeepLast,
                      r \notin With("tgz")
               PROVE  FALSE
    BY DEF PrunesOnlyOld
  <2>1. OldEnough(r)
    BY DEF Consistent, PrunedIsOld, Reported, Untouched
  <2>2. Packaged \in SUBSET Runs
    BY DEF Packaged
  <2>3. Cardinality(Newer(r, Packaged)) \in Nat
    BY <2>2, NewerIsMonotonic
  <2>4. QED
    BY <2>1, <2>3, BackendAssumption DEF OldEnough
<1>2. QED
  BY <1>1, BackendIsConsistent, PTL

----------------------------------------------------------------------------
(* A restore beside them: without a lock and without the checksum *)

(* The restore under way is of a run whose artifact was reported.           *)
Downloading ==
    \/ download = NoDownload
    \/ /\ download \in [pc : {"download", "unpack", "missing"}, run : Runs, whole : BOOLEAN]
       /\ download.run \in Reported

(* If the archive was missed, then because of the Snapshot's deletion or of *)
(* retention; what is unpacked was complete.                                *)
Explained ==
    /\ download.pc = "unpack" => download.whole
    /\ download.pc = "missing" =>
          cleanup[download.run].pc # "none" \/ OldEnough(download.run)

(* Together with Consistent, an inductive invariant of the composition.     *)
RestoreInv == Consistent /\ Downloading /\ Explained

(* The invariant of the scripts is not touched by restores.                 *)
LEMMA ConsistentStep ==
    Consistent /\ [Next]_vars => Consistent'
    BY TypeOKHolds, PartialIsBusyHolds, MetadataComesLastHolds, CleanupComesLastHolds,
       PrunedIsOldHolds
       DEF Consistent, TypeOK

(* A reported upload stays reported, and a Snapshot's deletion is final.    *)
LEMMA EndsAreFinal ==
    ASSUME Types, [Next]_vars, NEW r \in Runs
    PROVE  /\ r \in Reported => r \in Reported'
           /\ cleanup[r].pc # "none" => cleanup'[r].pc # "none"
<1>1. ASSUME NEW s \in Runs, NEW pc, upload[s].pc # "reported", GoTo(s, pc)
      PROVE  upload[r].pc = "reported" => upload'[r].pc = "reported"
  BY <1>1 DEF GoTo, Types
<1>2. ASSUME NEW s \in Runs, UploadStep(s)
      PROVE  /\ upload[r].pc = "reported" => upload'[r].pc = "reported"
             /\ UNCHANGED cleanup
  <2>1. ASSUME List(s) \/ Prune(s)
        PROVE  upload[r].pc = "reported" => upload'[r].pc = "reported"
    BY <2>1 DEF List, Prune, Types
  <2>2. QED
    BY <1>1, <1>2, <2>1
       DEF UploadStep, Package, CopyArtifact, FinishCopy, CopyChecksum, CopyMetadata,
           CopyLatest, Verify, List, Prune, Report
<1>3. ASSUME NEW s \in Runs, CleanupStep(s)
      PROVE  UNCHANGED upload /\ (cleanup[r].pc # "none" => cleanup'[r].pc # "none")
  BY <1>3 DEF CleanupStep, StartCleanup, RemoveArtifact, SkipCleanup, ChooseLatest,
              ReplaceLatest, Types
<1>4. ASSUME NEW s \in Runs, Kill(s)
      PROVE  /\ upload[r].pc = "reported" => upload'[r].pc = "reported"
             /\ cleanup[r].pc # "none" => cleanup'[r].pc # "none"
  BY <1>1, <1>4 DEF Kill, Uploading, UploadSteps, Types
<1>5. QED
  BY <1>2, <1>3, <1>4 DEF Next, vars, Reported

(* No step of an upload or a cleanup takes the explanation away.            *)
LEMMA ScriptsKeepExplained ==
    ASSUME RestoreInv, [Next]_vars, UNCHANGED download PROVE RestoreInv'
<1>1. Consistent' /\ Types
  BY ConsistentStep DEF RestoreInv, Consistent, TypeOK
<1>2. Downloading'
  <2>1. CASE download = NoDownload
    BY <2>1 DEF Downloading, NoDownload
  <2>2. CASE download # NoDownload
    BY <1>1, <2>2, EndsAreFinal DEF RestoreInv, Downloading
  <2>3. QED
    BY <2>1, <2>2
<1>3. Explained'
  <2>1. CASE download.pc = "missing"
    <3>1. download.run \in Runs
      BY <2>1 DEF RestoreInv, Downloading, NoDownload
    <3>2. CASE OldEnough(download.run)
      <4>1. OldEnough(download.run)'
        BY <1>1, <3>2, OldStaysOld
      <4>2. QED
        BY <2>1, <4>1 DEF Explained
    <3>3. CASE cleanup[download.run].pc # "none"
      BY <1>1, <2>1, <3>1, <3>3, EndsAreFinal DEF Explained
    <3>4. QED
      BY <2>1, <3>2, <3>3 DEF RestoreInv, Explained
  <2>2. CASE download.pc # "missing"
    BY <2>2 DEF RestoreInv, Explained
  <2>3. QED
    BY <2>1, <2>2
<1>4. QED
  BY <1>1, <1>2, <1>3 DEF RestoreInv

(* A restore finds the archive complete, or misses it for a good reason.    *)
LEMMA RestoreKeepsExplained ==
    ASSUME RestoreInv, RestoreStep, UNCHANGED vars PROVE RestoreInv'
<1>1. Consistent'
  BY DEF RestoreInv, vars, Consistent, TypeOK, Types, PartialIsBusy, MetadataComesLast,
         CleanupComesLast, PrunedIsOld, OldEnough, With, Packaged, Newer, FilesOf,
         Uploading, Cleaning
<1>2. \A r \in Reported : /\ r \notin partial
                          /\ r \notin With("tgz") => cleanup[r].pc # "none" \/ OldEnough(r)
  BY DEF RestoreInv, Consistent, PartialIsBusy, PrunedIsOld, Reported, UploadSteps
<1>3. /\ \A r : OldEnough(r)' = OldEnough(r)
      /\ Reported' = Reported /\ UNCHANGED cleanup
  BY DEF vars, OldEnough, Newer, Packaged, Reported
<1>4. ASSUME NEW r \in Runs, Preflight(r) PROVE Downloading' /\ Explained'
  BY <1>2, <1>3, <1>4 DEF Preflight, Downloading, Explained, Reported
<1>5. ASSUME Download PROVE Downloading' /\ Explained'
  <2>1. /\ download \in [pc : {"download", "unpack", "missing"}, run : Runs, whole : BOOLEAN]
        /\ download.run \in Reported
    BY <1>5 DEF Download, RestoreInv, Downloading, NoDownload
  <2>2. CASE download.run \in With("tgz")
    <3>1. download' = [download EXCEPT !.pc = "unpack", !.whole = TRUE]
      BY <1>2, <1>5, <2>1, <2>2 DEF Download
    <3>2. QED
      BY <1>3, <2>1, <3>1 DEF Downloading, Explained
  <2>3. CASE download.run \notin With("tgz")
    <3>1. download' = [download EXCEPT !.pc = "missing"]
      BY <1>5, <2>3 DEF Download
    <3>2. QED
      BY <1>2, <1>3, <2>1, <2>3, <3>1 DEF Downloading, Explained
  <2>4. QED
    BY <2>2, <2>3
<1>6. ASSUME EndRestore \/ AbortRestore PROVE Downloading' /\ Explained'
  BY <1>6 DEF EndRestore, AbortRestore, Downloading, Explained, NoDownload
<1>7. QED
  BY <1>1, <1>4, <1>5, <1>6 DEF RestoreStep, RestoreInv

(* The scripts keep the directory consistent beside restores as well, and   *)
(* what a restore finds there can be explained.                             *)
LEMMA RestoreInvariant == RestoreSpec => []RestoreInv
<1>1. RestoreInit => RestoreInv
  BY InitIsConsistent
     DEF RestoreInit, RestoreInv, Downloading, Explained, NoDownload
<1>2. RestoreInv /\ [RestoreNext]_restoreVars => RestoreInv'
  BY ScriptsKeepExplained, RestoreKeepsExplained DEF RestoreNext, restoreVars
<1>3. QED
  BY <1>1, <1>2, PTL DEF RestoreSpec

(* A restore never unpacks an archive that was cut off, and misses its      *)
(* archive only when its Snapshot is being deleted or retention, by newer   *)
(* runs, has passed over it.                                                *)
THEOREM RestoresFindWhole == RestoreSpec => []RestoreFindsWhole
<1>1. RestoreInv => RestoreFindsWhole
  <2> SUFFICES ASSUME RestoreInv, download.pc = "missing",
                      cleanup[download.run].pc = "none"
               PROVE  KeepLast # 0 /\ Cardinality(Newer(download.run, Packaged)) >= KeepLast
    BY DEF RestoreInv, Explained, RestoreFindsWhole
  <2>1. OldEnough(download.run)
    BY DEF RestoreInv, Explained
  <2>2. QED
    BY <2>1 DEF OldEnough
<1>2. QED
  BY <1>1, RestoreInvariant, PTL

----------------------------------------------------------------------------
(* The store that the scripts implement *)

(* An archive comes with its copy, and once.                                *)
ArchiveComesOnce ==
    \A r \in Runs : r \in With("tgz") => upload[r].pc \notin {"waiting", "artifact"}

(* Metadata has its archive, as long as nothing may be removed.             *)
MetadataIsBacked ==
    \A r \in Runs :
        r \in With("metadata") /\ cleanup[r].pc = "none" /\ r \notin With("tgz") => OldEnough(r)

(* No cleanup points latest.json to what it removes itself.                 *)
SourceIsAnother == \A r \in Runs : cleanup[r].source # r

(* Together with Consistent, an inductive invariant that shows each step of *)
(* a script to be one of the store, or none.                                *)
StoreInv == Consistent /\ ArchiveComesOnce /\ MetadataIsBacked /\ SourceIsAnother

(* What a command that removes files may leave of them.                     *)
LEMMA LeftoversAre ==
    ASSUME NEW r \in Runs, NEW left \in Leftovers(r)
    PROVE  left \subseteq files /\ left \subseteq FilesOf(r)
  BY DEF Leftovers

(* Only CopyArtifact adds an archive, and no upload goes back to it.         *)
LEMMA ArchiveComesOnceHolds ==
    ASSUME Types, ArchiveComesOnce, [Next]_vars PROVE ArchiveComesOnce'
<1> USE DEF Types, ArchiveComesOnce, With
<1>1. ASSUME NEW r \in Runs, UploadStep(r) PROVE ArchiveComesOnce'
  <2>1. CASE CopyArtifact(r)
    <3>1. upload'[r].pc \in {"copying", "sha256"} /\ \A s \in Runs \ {r} : upload'[s] = upload[s]
      BY <2>1 DEF CopyArtifact, GoTo
    <3>2. QED
      BY <2>1, <3>1 DEF CopyArtifact
  <2>2. CASE Package(r) \/ FinishCopy(r) \/ CopyLatest(r) \/ Verify(r) \/ Report(r)
    BY <2>2 DEF Package, FinishCopy, CopyLatest, Verify, Report, GoTo
  <2>3. CASE CopyChecksum(r) \/ CopyMetadata(r)
    BY <2>3 DEF CopyChecksum, CopyMetadata, GoTo
  <2>4. CASE List(r)
    BY <2>4 DEF List
  <2>5. CASE Prune(r)
    <3>1. files' \subseteq files
      BY <2>5 DEF Prune, Remove, Leftovers
    <3>2. \A s \in Runs : upload'[s].pc \in {upload[s].pc, "failed"}
      BY <2>5 DEF Prune
    <3>3. QED
      BY <3>1, <3>2
  <2>6. QED
    BY <1>1, <2>1, <2>2, <2>3, <2>4, <2>5 DEF UploadStep
<1>2. ASSUME NEW r \in Runs, CleanupStep(r) PROVE ArchiveComesOnce'
  <2>1. files' \subseteq files /\ upload' = upload
    BY <1>2 DEF CleanupStep, StartCleanup, RemoveArtifact, Remove, Leftovers, SkipCleanup,
                ChooseLatest, ReplaceLatest
  <2>2. QED
    BY <2>1
<1>3. ASSUME NEW r \in Runs, Kill(r) PROVE ArchiveComesOnce'
  BY <1>3 DEF Kill, GoTo
<1>4. CASE UNCHANGED vars
  BY <1>4 DEF vars
<1>5. QED
  BY <1>1, <1>2, <1>3, <1>4 DEF Next

(* The source comes from a listing without the run's own metadata.          *)
LEMMA SourceIsAnotherHolds ==
    ASSUME Types, SourceIsAnother, [Next]_vars PROVE SourceIsAnother'
<1>1. ASSUME NEW r \in Runs, UploadStep(r) \/ Kill(r) PROVE SourceIsAnother'
  <2>1. None \notin Runs
    BY DEF None, Runs
  <2>2. CASE UploadStep(r)
    BY <2>2 DEF SourceIsAnother, UploadStep, Package, CopyArtifact, FinishCopy, CopyChecksum,
                CopyMetadata, CopyLatest, Verify, List, Prune, Report
  <2>3. CASE Kill(r)
    BY <2>1, <2>3 DEF Types, SourceIsAnother, Kill
  <2>4. QED
    BY <1>1, <2>2, <2>3
<1>2. ASSUME NEW r \in Runs, CleanupStep(r) PROVE SourceIsAnother'
  <2>1. None \notin Runs
    BY DEF None, Runs
  <2>2. CASE StartCleanup(r) \/ RemoveArtifact(r) \/ SkipCleanup(r)
    <3>1. \A s \in Runs : cleanup'[s].source = cleanup[s].source
      BY <2>2 DEF Types, StartCleanup, RemoveArtifact, SkipCleanup
    <3>2. QED
      BY <3>1 DEF SourceIsAnother
  <2>3. CASE ChooseLatest(r)
    <3>1. LatestSource(r) # r
      <4> DEFINE S == With("metadata") \ {r}
      <4>1. CASE S = {}
        BY <2>1, <4>1 DEF LatestSource
      <4>2. CASE S # {}
        <5>1. S \in SUBSET Runs
          BY DEF With
        <5>2. Newest(S) \in S
          BY <4>2, <5>1, NewestIsMaximal
        <5>3. QED
          BY <4>2, <5>2 DEF LatestSource
      <4>3. QED
        BY <4>1, <4>2
    <3>2. PICK source \in {LatestSource(r), None} :
            cleanup' = [cleanup EXCEPT ![r] = [pc |-> "latest", source |-> source]]
      BY <2>3 DEF ChooseLatest
    <3>3. QED
      BY <2>1, <3>1, <3>2 DEF Types, SourceIsAnother
  <2>4. CASE ReplaceLatest(r)
    BY <2>1, <2>4 DEF Types, SourceIsAnother, ReplaceLatest
  <2>5. QED
    BY <1>2, <2>2, <2>3, <2>4 DEF CleanupStep
<1>3. CASE UNCHANGED vars
  BY <1>3 DEF vars, SourceIsAnother
<1>4. QED
  BY <1>1, <1>2, <1>3 DEF Next

(* Metadata follows an archive that is there or pruned, and only pruning     *)
(* takes the archive from it.                                              *)
LEMMA MetadataIsBackedHolds ==
    ASSUME Consistent, MetadataIsBacked, [Next]_vars PROVE MetadataIsBacked'
<1>0. Types /\ CleanupComesLast /\ PrunedIsOld
  BY DEF Consistent, TypeOK
<1>1. \A r : OldEnough(r) => OldEnough(r)'
  BY <1>0, OldStaysOld
(* It is enough that a step removes only old archives, or those that are     *)
(* cleaned up, and adds metadata only to what is backed.                   *)
<1>2. SUFFICES ASSUME NEW s \in Runs, s \in With("metadata")', cleanup'[s].pc = "none"
               PROVE  /\ cleanup[s].pc = "none"
                      /\ s \in With("metadata") \/ s \in With("tgz") \/ OldEnough(s)
                      /\ s \in With("tgz") => s \in With("tgz")' \/ OldEnough(s)
  BY <1>1 DEF MetadataIsBacked
<1>3. ASSUME NEW r \in Runs, UploadStep(r)
      PROVE  /\ cleanup[s].pc = "none"
             /\ s \in With("metadata") \/ s \in With("tgz") \/ OldEnough(s)
             /\ s \in With("tgz") => s \in With("tgz")' \/ OldEnough(s)
  <2>1. cleanup' = cleanup
    BY <1>3 DEF UploadStep, Package, CopyArtifact, FinishCopy, CopyChecksum, CopyMetadata,
                CopyLatest, Verify, List, Prune, Report
  <2>2. CASE CopyMetadata(r)
    <3>1. files' = files \cup {<<r, "metadata">>} /\ upload[r].pc = "metadata"
      BY <2>2 DEF CopyMetadata
    <3>2. s = r => s \in With("tgz") \/ OldEnough(s)
      BY <1>0, <1>2, <2>1, <3>1 DEF PrunedIsOld
    <3>3. QED
      BY <1>2, <2>1, <3>1, <3>2 DEF With
  <2>3. CASE CopyArtifact(r) \/ CopyChecksum(r)
    BY <1>2, <2>1, <2>3 DEF CopyArtifact, CopyChecksum, With
  <2>4. CASE Prune(r)
    <3> DEFINE old == Newest(upload[r].doomed)
    <3>1. PICK left \in Leftovers(old) : files' = (files \ FilesOf(old)) \cup left
      BY <2>4 DEF Prune, Remove
    <3>2. old \in Runs /\ OldEnough(old)
      <4>1. upload[r].doomed \in SUBSET Runs /\ upload[r].doomed # {}
        BY <1>0, <2>4 DEF Types, Prune
      <4>2. QED
        BY <1>0, <4>1, NewestIsMaximal DEF PrunedIsOld
    <3> HIDE DEF old
    <3>3. files' \subseteq files /\ \A x \in files : x \notin FilesOf(old) => x \in files'
      BY <3>1, <3>2, LeftoversAre
    <3>4. s # old => <<s, "tgz">> \notin FilesOf(old)
      BY DEF FilesOf
    <3>5. QED
      BY <1>2, <2>1, <3>2, <3>3, <3>4 DEF With
  <2>5. CASE files' = files
    BY <1>2, <2>1, <2>5 DEF With
  <2>6. QED
    BY <1>3, <2>2, <2>3, <2>4, <2>5
       DEF UploadStep, Package, FinishCopy, CopyLatest, Verify, List, Report
<1>4. ASSUME NEW r \in Runs, CleanupStep(r)
      PROVE  /\ cleanup[s].pc = "none"
             /\ s \in With("metadata") \/ s \in With("tgz") \/ OldEnough(s)
             /\ s \in With("tgz") => s \in With("tgz")' \/ OldEnough(s)
  <2>1. s # r
    BY <1>0, <1>2, <1>4 DEF Types, CleanupStep, StartCleanup, RemoveArtifact, SkipCleanup,
                            ChooseLatest, ReplaceLatest
  <2>2. cleanup'[s] = cleanup[s]
    BY <1>0, <1>4, <2>1 DEF Types, CleanupStep, StartCleanup, RemoveArtifact, SkipCleanup,
                            ChooseLatest, ReplaceLatest
  <2>3. files' \subseteq files /\ \A x \in files : x \notin FilesOf(r) => x \in files'
    <3>1. CASE RemoveArtifact(r)
      <4>1. PICK left \in Leftovers(r) : files' = (files \ FilesOf(r)) \cup left
        BY <3>1 DEF RemoveArtifact, Remove
      <4>2. QED
        BY <4>1, LeftoversAre
    <3>2. CASE ~RemoveArtifact(r)
      BY <1>4, <3>2 DEF CleanupStep, StartCleanup, SkipCleanup, ChooseLatest, ReplaceLatest
    <3>3. QED
      BY <3>1, <3>2
  <2>4. <<s, "tgz">> \notin FilesOf(r)
    BY <2>1 DEF FilesOf
  <2>5. QED
    BY <1>2, <2>2, <2>3, <2>4 DEF With
<1>5. ASSUME NEW r \in Runs, Kill(r)
      PROVE  /\ cleanup[s].pc = "none"
             /\ s \in With("metadata") \/ s \in With("tgz") \/ OldEnough(s)
             /\ s \in With("tgz") => s \in With("tgz")' \/ OldEnough(s)
  <2>1. files' = files
    BY <1>5 DEF Kill
  <2>2. cleanup[s].pc = "none"
    BY <1>0, <1>2, <1>5 DEF Types, Kill
  <2>3. QED
    BY <1>2, <2>1, <2>2 DEF With
<1>6. CASE UNCHANGED vars
  BY <1>2, <1>6 DEF vars, With
<1>7. QED
  BY <1>3, <1>4, <1>5, <1>6 DEF Next

(* The scripts keep the invariant.                                          *)
LEMMA StoreInvariant == Spec => []StoreInv
<1>1. Init => StoreInv
  <2>1. None \notin Runs
    BY DEF None, Runs
  <2>2. Init => ArchiveComesOnce /\ MetadataIsBacked /\ SourceIsAnother
    BY <2>1 DEF Init, ArchiveComesOnce, MetadataIsBacked, SourceIsAnother, With
  <2>3. QED
    BY <2>2, InitIsConsistent DEF StoreInv
<1>2. StoreInv /\ [Next]_vars => StoreInv'
  BY ConsistentStep, ArchiveComesOnceHolds, MetadataIsBackedHolds, SourceIsAnotherHolds
     DEF StoreInv, Consistent, TypeOK
<1>3. QED
  BY <1>1, <1>2, PTL DEF Spec

(* Where an upload and a cleanup can be.                                    *)
UploadPcs  == UploadSteps \cup {"waiting", "reported", "failed"}
CleanupPcs == CleanupSteps \cup {"none", "done", "failed"}

(* Each state of an upload and of a cleanup is in one phase.                *)
LEMMA PhasesAre ==
    ASSUME NEW u \in UploadPcs, NEW c \in CleanupPcs
    PROVE  /\ PhaseOf(u, c) = "waiting" <=> u = "waiting"
           /\ u \in {"artifact", "copying"} => PhaseOf(u, c) = "uploading"
           /\ u \in {"sha256", "metadata", "latest", "verify", "list", "prune"}
                => PhaseOf(u, c) = "uploaded"
           /\ u = "failed" => PhaseOf(u, c) = "failed"
           /\ u = "reported" /\ c = "none" => PhaseOf(u, c) = "kept"
           /\ u = "reported" /\ c \in {"remove", "list", "latest", "failed"}
                => PhaseOf(u, c) = "released"
           /\ u = "reported" /\ c = "done" => PhaseOf(u, c) = "cleaned"
  BY DEF PhaseOf, UploadPcs, CleanupPcs, UploadSteps, CleanupSteps

(* One run changes its phase, or none does.                                 *)
LEMMA PhaseChanges ==
    ASSUME NEW r \in Runs,
           \A s \in Runs \ {r} : upload'[s].pc = upload[s].pc /\ cleanup'[s].pc = cleanup[s].pc
    PROVE  phase' = [phase EXCEPT ![r] = PhaseOf(upload'[r].pc, cleanup'[r].pc)]
  BY DEF phase

(* Commands that take the run no further change no phase.                   *)
LEMMA PhaseStays ==
    ASSUME NEW r \in Runs,
           \A s \in Runs \ {r} : upload'[s].pc = upload[s].pc /\ cleanup'[s].pc = cleanup[s].pc,
           PhaseOf(upload'[r].pc, cleanup'[r].pc) = PhaseOf(upload[r].pc, cleanup[r].pc)
    PROVE  phase' = phase
  BY DEF phase

(* Removing files takes one archive from the store, or none.                *)
LEMMA RemovalIs ==
    ASSUME NEW o \in Runs, NEW left \in Leftovers(o), Remove(o, left)
    PROVE  stored' = stored \/ (o \in stored /\ stored' = stored \ {o})
<1>1. left \subseteq files /\ left \subseteq FilesOf(o)
  BY LeftoversAre
<1>2. \A s \in Runs \ {o} : s \in With("tgz")' <=> s \in With("tgz")
  BY <1>1 DEF Remove, With, FilesOf
<1>3. CASE <<o, "tgz">> \in left
  <2>1. o \in With("tgz") /\ o \in With("tgz")'
    BY <1>1, <1>3 DEF Remove, With
  <2>2. \A s \in Runs : s \in With("tgz")' <=> s \in With("tgz")
    BY <1>2, <2>1
  <2>3. With("tgz")' = With("tgz")
    BY <2>2 DEF With
  <2>4. partial' = partial
    BY <1>3 DEF Remove
  <2>5. stored' = stored
    BY <2>3, <2>4, Zenon DEF stored
  <2>6. QED
    BY <2>5
<1>4. CASE <<o, "tgz">> \notin left
  <2>1. o \notin With("tgz")' /\ partial' = partial \ {o}
    BY <1>4 DEF Remove, With, FilesOf, Suffixes
  <2>2. stored' = stored \ {o}
    BY <1>2, <2>1 DEF stored, With
  <2>3. QED
    BY <2>2
<1>5. QED
  BY <1>3, <1>4

(* The store and the scripts agree on what is old.                          *)
LEMMA OldIs ==
    ASSUME Types, NEW r \in Runs PROVE Store!Old(r) <=> OldEnough(r)
<1>1. ASSUME NEW s \in Runs PROVE phase[s] # "waiting" <=> upload[s].pc # "waiting"
  <2>1. upload[s].pc \in UploadPcs /\ cleanup[s].pc \in CleanupPcs
    BY DEF Types, UploadPcs, CleanupPcs
  <2>2. phase[s] = PhaseOf(upload[s].pc, cleanup[s].pc)
    BY DEF phase
  <2>3. QED
    BY <2>1, <2>2, PhasesAre
<1>2. {s \in Runs : s > r /\ phase[s] # "waiting"} = Newer(r, Packaged)
  BY <1>1 DEF Newer, Packaged
<1>3. QED
  BY <1>2, Zenon DEF Store!Old, OldEnough, Store!Cardinality, Cardinality

(* Every command of an upload is a step of the store, or changes nothing in *)
(* it.                                                                      *)
LEMMA UploadIsStored ==
    ASSUME StoreInv, NEW r \in Runs, UploadStep(r), UNCHANGED kind
    PROVE  Store!Next \/ UNCHANGED <<reliable, phase, stored, latest>>
<1>0. /\ Types /\ PartialIsBusy /\ CleanupComesLast /\ PrunedIsOld /\ ArchiveComesOnce
      /\ reliable' = reliable
  BY DEF StoreInv, Consistent, TypeOK, reliable
<1>1. cleanup' = cleanup /\ cleanup[r].pc = "none"
  BY <1>0 DEF UploadStep, Package, CopyArtifact, FinishCopy, CopyChecksum, CopyMetadata, UploadSteps,
              CopyLatest, Verify, List, Prune, Report, CleanupComesLast
<1>2. \A s \in Runs : /\ upload[s].pc \in UploadPcs /\ cleanup[s].pc \in CleanupPcs
                      /\ phase[s] = PhaseOf(upload[s].pc, cleanup[s].pc)
  BY <1>0 DEF Types, UploadPcs, CleanupPcs, phase
<1>3. ASSUME NEW pc \in UploadPcs, GoTo(r, pc)
      PROVE  /\ upload'[r].pc = pc
             /\ phase' = [phase EXCEPT ![r] = PhaseOf(pc, "none")]
             /\ PhaseOf(pc, "none") = PhaseOf(upload[r].pc, "none") => phase' = phase
  <2>1. upload'[r].pc = pc /\ \A s \in Runs \ {r} : upload'[s].pc = upload[s].pc
    BY <1>0, <1>3 DEF GoTo, Types
  <2>2. QED
    BY <1>1, <2>1, PhaseChanges, PhaseStays
<1>4. \A s \in Runs : Store!Old(s) <=> OldEnough(s)
  BY <1>0, OldIs
<1>5. ASSUME upload[r].pc \in {"sha256", "metadata", "latest", "verify", "list", "prune"}
      PROVE  r \in stored \/ Store!Old(r)
  BY <1>0, <1>1, <1>4, <1>5 DEF stored, PartialIsBusy, PrunedIsOld
<1>6. CASE Package(r)
  <2>1. phase[r] = "waiting" /\ \A s \in Runs : s < r => phase[s] # "waiting"
    BY <1>2, <1>6, PhasesAre DEF Package
  <2>2. phase' = [phase EXCEPT ![r] = "uploading"]
    BY <1>3, <1>6, PhasesAre DEF Package, UploadPcs, UploadSteps, CleanupPcs
  <2>3. UNCHANGED <<stored, latest>>
    BY <1>6 DEF Package, stored, With
  <2>4. Store!Begin(r)
    BY <2>1, <2>2, <2>3 DEF Store!Begin, Store!Moves
  <2>5. QED
    BY <1>0, <2>4 DEF Store!Next
<1>7. CASE CopyArtifact(r)
  <2>1. phase[r] = "uploading" /\ r \notin With("tgz") /\ latest' = latest
    BY <1>0, <1>1, <1>2, <1>7, PhasesAre DEF CopyArtifact, ArchiveComesOnce
  <2>2. With("tgz")' = With("tgz") \cup {r}
    BY <1>7 DEF CopyArtifact, With
  <2>3. CASE kind = "nfs"
    <3>1. phase' = phase
      BY <1>1, <1>2, <1>3, <1>7, <2>3, PhasesAre DEF CopyArtifact, UploadPcs, UploadSteps, CleanupPcs
    <3>2. stored' = stored
      BY <1>7, <2>1, <2>2, <2>3 DEF CopyArtifact, stored
    <3>3. QED
      BY <1>0, <2>1, <3>1, <3>2
  <2>4. CASE kind # "nfs"
    <3>1. phase' = [phase EXCEPT ![r] = "uploaded"]
      BY <1>3, <1>7, <2>4, PhasesAre DEF CopyArtifact, UploadPcs, UploadSteps, CleanupPcs
    <3>2. r \notin partial /\ partial' = partial
      BY <1>0, <1>7, <2>4 DEF CopyArtifact, PartialIsBusy
    <3>3. stored' = stored \cup {r}
      BY <2>2, <3>2 DEF stored
    <3>4. Store!Store(r)
      BY <2>1, <3>1, <3>3 DEF Store!Store, Store!Moves
    <3>5. QED
      BY <1>0, <3>4 DEF Store!Next
  <2>5. QED
    BY <2>3, <2>4
<1>8. CASE FinishCopy(r)
  <2>1. phase[r] = "uploading" /\ UNCHANGED <<files, latest>> /\ partial' = partial \ {r}
    BY <1>1, <1>2, <1>8, PhasesAre DEF FinishCopy
  <2>2. phase' = [phase EXCEPT ![r] = "uploaded"]
    BY <1>3, <1>8, PhasesAre DEF FinishCopy, UploadPcs, UploadSteps, CleanupPcs
  <2>3. With("tgz")' = With("tgz")
    BY <2>1 DEF With
  <2>4. CASE r \in With("tgz")
    <3>1. stored' = stored \cup {r}
      BY <2>1, <2>3, <2>4 DEF stored
    <3>2. Store!Store(r)
      BY <2>1, <2>2, <3>1 DEF Store!Store, Store!Moves
    <3>3. QED
      BY <1>0, <3>2 DEF Store!Next
  <2>5. CASE r \notin With("tgz")
    <3>1. stored' = stored
      BY <2>1, <2>3, <2>5 DEF stored
    <3>2. Store!Old(r)
      BY <1>0, <1>1, <1>4, <1>8, <2>5 DEF FinishCopy, PrunedIsOld
    <3>3. Store!Store(r)
      BY <2>1, <2>2, <3>1, <3>2 DEF Store!Store, Store!Moves
    <3>4. QED
      BY <1>0, <3>3 DEF Store!Next
  <2>6. QED
    BY <2>4, <2>5
<1>9. CASE CopyChecksum(r) \/ CopyMetadata(r)
  <2>1. With("tgz")' = With("tgz") /\ UNCHANGED <<partial, latest>>
    BY <1>9 DEF CopyChecksum, CopyMetadata, With
  <2>2. phase' = phase
    BY <1>3, <1>9, PhasesAre DEF CopyChecksum, CopyMetadata, UploadPcs, UploadSteps, CleanupPcs
  <2>3. QED
    BY <1>0, <2>1, <2>2 DEF stored
<1>10. CASE CopyLatest(r)
  <2>1. phase[r] = "uploaded" /\ (r \in stored \/ Store!Old(r))
    BY <1>1, <1>2, <1>5, <1>10, PhasesAre DEF CopyLatest
  <2>2. phase' = phase
    BY <1>3, <1>10, PhasesAre DEF CopyLatest, UploadPcs, UploadSteps, CleanupPcs
  <2>3. stored' = stored /\ latest' = r
    BY <1>10 DEF CopyLatest, stored, With
  <2>4. Store!Point(r)
    BY <2>1, <2>2, <2>3 DEF Store!Point
  <2>5. QED
    BY <1>0, <2>4 DEF Store!Next
<1>11. CASE Verify(r)
  <2>1. UNCHANGED <<stored, latest>> /\ phase[r] = "uploaded"
    BY <1>1, <1>2, <1>11, PhasesAre DEF Verify, stored, With
  <2>2. CASE r \in With("tgz")
    <3>1. phase' = phase
      BY <1>3, <1>11, <2>2, PhasesAre DEF Verify, UploadPcs, UploadSteps, CleanupPcs
    <3>2. QED
      BY <1>0, <2>1, <3>1
  <2>3. CASE r \notin With("tgz")
    <3>1. phase' = [phase EXCEPT ![r] = "failed"]
      BY <1>3, <1>11, <2>3, PhasesAre DEF Verify, UploadPcs, CleanupPcs
    <3>2. Store!Fail(r)
      BY <2>1, <3>1 DEF Store!Fail, Store!Moves
    <3>3. QED
      BY <1>0, <3>2 DEF Store!Next
  <2>4. QED
    BY <2>2, <2>3
<1>12. CASE List(r)
  <2>1. UNCHANGED <<stored, latest>>
    BY <1>12 DEF List, stored, With
  <2>2. upload'[r].pc = "prune" /\ \A s \in Runs \ {r} : upload'[s].pc = upload[s].pc
    BY <1>0, <1>12 DEF List, Types
  <2>3. phase' = phase
    <3>1. PhaseOf("prune", "none") = PhaseOf("list", "none")
      BY PhasesAre DEF UploadPcs, UploadSteps, CleanupPcs
    <3>2. upload[r].pc = "list"
      BY <1>12 DEF List
    <3>3. QED
      BY <1>1, <2>2, <3>1, <3>2, PhaseStays
  <2>4. QED
    BY <1>0, <2>1, <2>3
<1>13. CASE Prune(r)
  <2> DEFINE old == Newest(upload[r].doomed)
  <2>1. PICK left \in Leftovers(old) :
          /\ Remove(old, left)
          /\ upload' = IF left # {} /\ kind = "nfs"
                       THEN [upload EXCEPT ![r].pc = "failed"]
                       ELSE [upload EXCEPT ![r].doomed = @ \ {old}]
    BY <1>13 DEF Prune
  <2>2. old \in Runs /\ Store!Old(old)
    <3>1. upload[r].doomed \in SUBSET Runs /\ upload[r].doomed # {}
      BY <1>0, <1>13 DEF Types, Prune
    <3>2. QED
      BY <1>0, <1>4, <3>1, NewestIsMaximal DEF PrunedIsOld
  <2>3. latest' = latest /\ upload[r].pc = "prune" /\ phase[r] = "uploaded"
    BY <1>1, <1>2, <1>13, PhasesAre DEF Prune
  <2> HIDE DEF old
  <2>4. stored' = stored \/ (old \in stored /\ stored' = stored \ {old})
    BY <2>1, <2>2, RemovalIs
  <2>5. CASE upload' = [upload EXCEPT ![r].pc = "failed"]
    <3>0. GoTo(r, "failed") /\ "failed" \in UploadPcs /\ PhaseOf("failed", "none") = "failed"
      BY <2>5, PhasesAre DEF GoTo, UploadPcs, CleanupPcs
    <3>1. phase' = [phase EXCEPT ![r] = "failed"]
      BY <1>3, <3>0
    <3>2. Store!Fail(r)
      BY <2>2, <2>3, <2>4, <3>1 DEF Store!Fail, Store!Moves
    <3>3. QED
      BY <1>0, <3>2 DEF Store!Next
  <2>6. CASE upload' = [upload EXCEPT ![r].doomed = @ \ {old}]
    <3>1. \A s \in Runs : upload'[s].pc = upload[s].pc
      BY <1>0, <2>6 DEF Types
    <3>2. phase' = phase
      BY <1>1, <3>1, PhaseStays
    <3>3. CASE stored' = stored
      BY <1>0, <2>3, <3>2, <3>3
    <3>4. CASE old \in stored /\ stored' = stored \ {old}
      <4>1. Store!Remove(old)
        BY <2>2, <2>3, <3>2, <3>4 DEF Store!Remove
      <4>2. QED
        BY <1>0, <2>2, <4>1 DEF Store!Next
    <3>5. QED
      BY <2>4, <3>3, <3>4
  <2>7. QED
    BY <2>1, <2>5, <2>6
<1>14. CASE Report(r)
  <2>1. phase[r] = "uploaded" /\ (r \in stored \/ Store!Old(r))
    BY <1>1, <1>2, <1>5, <1>14, PhasesAre DEF Report
  <2>2. phase' = [phase EXCEPT ![r] = "kept"]
    BY <1>3, <1>14, PhasesAre DEF Report, UploadPcs, CleanupPcs
  <2>3. UNCHANGED <<stored, latest>>
    BY <1>14 DEF Report, stored, With
  <2>4. Store!Keep(r)
    BY <2>1, <2>2, <2>3 DEF Store!Keep, Store!Moves
  <2>5. QED
    BY <1>0, <2>4 DEF Store!Next
<1>15. QED
  BY <1>6, <1>7, <1>8, <1>9, <1>10, <1>11, <1>12, <1>13, <1>14 DEF UploadStep

(* So is every command of a cleanup.                                        *)
LEMMA CleanupIsStored ==
    ASSUME StoreInv, NEW r \in Runs, CleanupStep(r), UNCHANGED kind
    PROVE  Store!Next \/ UNCHANGED <<reliable, phase, stored, latest>>
<1>0. /\ Types /\ PartialIsBusy /\ CleanupComesLast /\ PrunedIsOld /\ MetadataComesLast
      /\ MetadataIsBacked /\ SourceIsAnother /\ reliable' = reliable
  BY DEF StoreInv, Consistent, TypeOK, reliable
<1>1. upload' = upload /\ upload[r].pc = "reported"
  BY <1>0 DEF CleanupStep, StartCleanup, RemoveArtifact, SkipCleanup, ChooseLatest, ReplaceLatest,
              CleanupComesLast
<1>2. \A s \in Runs : /\ upload[s].pc \in UploadPcs /\ cleanup[s].pc \in CleanupPcs
                      /\ phase[s] = PhaseOf(upload[s].pc, cleanup[s].pc)
  BY <1>0 DEF Types, UploadPcs, CleanupPcs, phase
<1>3. \A s \in Runs \ {r} : upload'[s].pc = upload[s].pc /\ cleanup'[s].pc = cleanup[s].pc
  BY <1>0, <1>1 DEF Types, CleanupStep, StartCleanup, RemoveArtifact, SkipCleanup, ChooseLatest,
                    ReplaceLatest
<1>4. /\ PhaseOf("reported", "none") = "kept" /\ PhaseOf("reported", "done") = "cleaned"
      /\ \A c \in {"remove", "list", "latest", "failed"} : PhaseOf("reported", c) = "released"
  BY PhasesAre DEF UploadPcs, CleanupPcs, CleanupSteps
<1>5. ASSUME cleanup[r].pc \in {"remove", "list", "latest", "failed"},
             cleanup'[r].pc \in {"remove", "list", "latest", "failed"}
      PROVE  phase[r] = "released" /\ phase' = phase
  BY <1>1, <1>2, <1>3, <1>4, <1>5, PhaseStays
<1>6. ASSUME cleanup[r].pc \in {"remove", "list", "latest", "failed"}, cleanup'[r].pc = "done"
      PROVE  phase[r] = "released" /\ phase' = [phase EXCEPT ![r] = "cleaned"]
  BY <1>1, <1>2, <1>3, <1>4, <1>6, PhaseChanges
<1>7. CASE StartCleanup(r)
  <2>1. cleanup[r].pc \in {"none", "failed"} /\ cleanup'[r].pc = "remove"
    BY <1>0, <1>7 DEF Types, StartCleanup
  <2>2. UNCHANGED <<stored, latest>>
    BY <1>7 DEF StartCleanup, stored, With
  <2>3. CASE cleanup[r].pc = "none"
    <3>1. phase[r] = "kept" /\ phase' = [phase EXCEPT ![r] = "released"]
      BY <1>1, <1>2, <1>3, <1>4, <2>1, <2>3, PhaseChanges
    <3>2. Store!Release(r)
      BY <2>2, <3>1 DEF Store!Release, Store!Moves
    <3>3. QED
      BY <1>0, <3>2 DEF Store!Next
  <2>4. CASE cleanup[r].pc = "failed"
    BY <1>0, <1>5, <2>1, <2>2, <2>4
  <2>5. QED
    BY <2>1, <2>3, <2>4
<1>8. CASE RemoveArtifact(r)
  <2>1. PICK left \in Leftovers(r) : Remove(r, left)
    BY <1>8 DEF RemoveArtifact
  <2>2. stored' = stored \/ (r \in stored /\ stored' = stored \ {r})
    BY <2>1, RemovalIs
  <2>3. /\ cleanup[r].pc = "remove" /\ cleanup'[r].pc \in {"list", "failed"}
        /\ latest' = latest
    BY <1>0, <1>8 DEF Types, RemoveArtifact
  <2>4. phase[r] = "released" /\ phase' = phase
    BY <1>5, <2>3
  <2>5. CASE stored' = stored
    BY <1>0, <2>3, <2>4, <2>5
  <2>6. CASE r \in stored /\ stored' = stored \ {r}
    <3>1. Store!Remove(r)
      BY <2>3, <2>4, <2>6 DEF Store!Remove
    <3>2. QED
      BY <1>0, <3>1 DEF Store!Next
  <2>7. QED
    BY <2>2, <2>5, <2>6
<1>9. CASE SkipCleanup(r)
  <2>1. /\ cleanup[r].pc = "remove" /\ cleanup'[r].pc = "done" /\ latest' = latest
        /\ ~reliable /\ stored' = stored
    BY <1>0, <1>9 DEF Types, SkipCleanup, reliable, stored, With
  <2>2. phase[r] = "released" /\ phase' = [phase EXCEPT ![r] = "cleaned"]
    BY <1>6, <2>1
  <2>3. Store!Clean(r)
    BY <2>1, <2>2 DEF Store!Clean, Store!Moves
  <2>4. QED
    BY <1>0, <2>3 DEF Store!Next
<1>10. CASE ChooseLatest(r)
  <2>1. /\ cleanup[r].pc = "list" /\ cleanup'[r].pc = "latest" /\ latest' = latest
        /\ stored' = stored
    BY <1>0, <1>10 DEF Types, ChooseLatest, stored, With
  <2>2. QED
    BY <1>0, <1>5, <2>1
<1>11. CASE ReplaceLatest(r)
  <2> DEFINE source == cleanup[r].source
  <2>1. /\ cleanup[r].pc = "latest" /\ stored' = stored
        /\ \/ /\ source = None \/ source \in With("metadata")
              /\ latest' = source /\ cleanup'[r].pc = "done"
           \/ latest' = latest /\ cleanup'[r].pc = "failed"
    BY <1>0, <1>11 DEF Types, ReplaceLatest, stored, With
  <2>2. CASE latest' = latest /\ cleanup'[r].pc = "failed"
    BY <1>0, <1>5, <2>1, <2>2
  <2>3. CASE /\ source = None \/ source \in With("metadata")
             /\ latest' = source /\ cleanup'[r].pc = "done"
    <3>1. phase[r] = "released" /\ phase' = [phase EXCEPT ![r] = "cleaned"]
      BY <1>6, <2>1, <2>3
    <3>2. reliable => r \notin stored
      BY <1>0, <2>1 DEF reliable, CleanupComesLast, stored, With, FilesOf, Suffixes
    <3>3. CASE source = None
      <4>1. Store!Clean(r)
        BY <2>1, <2>3, <3>1, <3>2, <3>3 DEF Store!Clean, Store!Moves
      <4>2. QED
        BY <1>0, <4>1 DEF Store!Next
    <3>4. CASE source \in With("metadata")
      <4>1. source \in Runs \ {r}
        BY <1>0, <3>4 DEF SourceIsAnother, With
      <4>2. source \in stored \/ Store!Old(source) \/ phase[source] \in {"released", "cleaned"}
        <5>1. CASE source \in With("tgz")
          BY <1>0, <3>4, <4>1, <5>1 DEF MetadataComesLast, stored
        <5>2. CASE source \notin With("tgz") /\ cleanup[source].pc = "none"
          BY <1>0, <3>4, <4>1, <5>2, OldIs DEF MetadataIsBacked
        <5>3. CASE cleanup[source].pc # "none"
          <6>1. upload[source].pc = "reported"
            BY <1>0, <4>1, <5>3 DEF CleanupComesLast
          <6>2. cleanup[source].pc \in {"remove", "list", "latest", "failed", "done"}
            BY <1>2, <4>1, <5>3 DEF CleanupPcs, CleanupSteps
          <6>3. QED
            BY <1>2, <1>4, <4>1, <6>1, <6>2
        <5>4. QED
          BY <5>1, <5>2, <5>3
      <4>3. reliable => phase[source] # "cleaned"
        <5>1. ASSUME reliable, cleanup[source].pc = "done" PROVE FALSE
          BY <1>0, <3>4, <4>1, <5>1 DEF reliable, CleanupComesLast, With, FilesOf, Suffixes
        <5>2. phase[source] = "cleaned" => cleanup[source].pc = "done"
          <6>1. upload[source].pc \in UploadPcs /\ cleanup[source].pc \in CleanupPcs
            BY <1>2, <4>1
          <6>2. QED
            BY <1>2, <4>1, <6>1, PhasesAre DEF UploadPcs, UploadSteps, CleanupPcs, CleanupSteps
        <5>3. QED
          BY <5>1, <5>2
      <4>4. Store!Clean(r)
        BY <2>1, <2>3, <3>1, <3>2, <4>1, <4>2, <4>3 DEF Store!Clean, Store!Moves, Store!Referable
      <4>5. QED
        BY <1>0, <4>4 DEF Store!Next
    <3>5. QED
      BY <2>3, <3>3, <3>4
  <2>4. QED
    BY <2>1, <2>2, <2>3
<1>12. QED
  BY <1>7, <1>8, <1>9, <1>10, <1>11 DEF CleanupStep

(* A script that is killed fails its upload, or leaves its cleanup to the    *)
(* next one.                                                               *)
LEMMA KillIsStored ==
    ASSUME StoreInv, NEW r \in Runs, Kill(r), UNCHANGED kind
    PROVE  Store!Next \/ UNCHANGED <<reliable, phase, stored, latest>>
<1>0. Types /\ CleanupComesLast /\ reliable' = reliable
  BY DEF StoreInv, Consistent, TypeOK, reliable
<1>1. UNCHANGED <<stored, latest>>
  BY DEF Kill, stored, With
<1>2. \A s \in Runs : /\ upload[s].pc \in UploadPcs /\ cleanup[s].pc \in CleanupPcs
                      /\ phase[s] = PhaseOf(upload[s].pc, cleanup[s].pc)
  BY <1>0 DEF Types, UploadPcs, CleanupPcs, phase
<1>3. CASE r \in Uploading /\ GoTo(r, "failed") /\ cleanup' = cleanup
  <2>1. phase[r] \in {"uploading", "uploaded"}
    BY <1>2, <1>3, PhasesAre DEF Uploading, UploadSteps
  <2>2. upload'[r].pc = "failed" /\ \A s \in Runs \ {r} : upload'[s].pc = upload[s].pc
    BY <1>0, <1>3 DEF GoTo, Types
  <2>3. PhaseOf("failed", cleanup[r].pc) = "failed"
    BY <1>2, PhasesAre DEF UploadPcs
  <2>4. phase' = [phase EXCEPT ![r] = "failed"]
    BY <1>3, <2>2, <2>3, PhaseChanges
  <2>5. Store!Fail(r)
    BY <1>1, <2>1, <2>4 DEF Store!Fail, Store!Moves
  <2>6. QED
    BY <1>0, <2>5 DEF Store!Next
<1>4. CASE /\ r \in Cleaning /\ upload' = upload
           /\ cleanup' = [cleanup EXCEPT ![r] = [pc |-> "failed", source |-> None]]
  <2>1. cleanup'[r].pc = "failed" /\ \A s \in Runs \ {r} : cleanup'[s].pc = cleanup[s].pc
    BY <1>0, <1>4 DEF Types
  <2>2. upload[r].pc = "reported" /\ cleanup[r].pc \in CleanupSteps
    BY <1>0, <1>4 DEF Cleaning, CleanupSteps, CleanupComesLast
  <2>3. PhaseOf("reported", "failed") = PhaseOf("reported", cleanup[r].pc)
    BY <2>2, PhasesAre DEF UploadPcs, CleanupPcs, CleanupSteps
  <2>4. phase' = phase
    BY <1>4, <2>1, <2>2, <2>3, PhaseStays
  <2>5. QED
    BY <1>0, <1>1, <2>4
<1>5. QED
  BY <1>3, <1>4 DEF Kill

(* Upload and cleanup scripts implement a store of artifacts that come and  *)
(* go as a whole, for any number of runs and failures, and any interleaving *)
(* of their commands.                                                      *)
THEOREM StoreIsImplemented == Spec => ImplementsStore
<1>1. Init => Store!Init
  <2> SUFFICES ASSUME Init PROVE Store!Init
    OBVIOUS
  <2>1. PhaseOf("waiting", "none") = "waiting"
    BY PhasesAre DEF UploadPcs, CleanupPcs
  <2>2. phase = [r \in Runs |-> "waiting"]
    BY <2>1 DEF Init, phase
  <2>3. reliable \in BOOLEAN /\ stored = {} /\ latest = None
    BY DEF Init, reliable, stored, With
  <2>4. QED
    BY <2>2, <2>3 DEF Store!Init
<1>2. StoreInv /\ [Next]_vars => [UNCHANGED Store!vars \/ Store!Next]_(Store!vars)
  <2> SUFFICES ASSUME StoreInv, [Next]_vars PROVE Store!Next \/ UNCHANGED Store!vars
    OBVIOUS
  <2>1. CASE Next
    BY <2>1, UploadIsStored, CleanupIsStored, KillIsStored DEF Next, Store!vars
  <2>2. CASE UNCHANGED vars
    BY <2>2 DEF vars, Store!vars, reliable, phase, stored, With
  <2>3. QED
    BY <2>1, <2>2
<1>3. QED
  BY <1>1, <1>2, StoreInvariant, PTL DEF Spec, ImplementsStore, Store!Spec

(* Restores only read: beside them, too, the scripts are those of Spec.     *)
LEMMA RestoresOnlyRead == RestoreSpec => Spec
<1>1. RestoreInit => Init
  BY DEF RestoreInit
<1>2. [RestoreNext]_restoreVars => [Next]_vars
  BY DEF RestoreNext, RestoreStep, restoreVars, vars
<1>3. QED
  BY <1>1, <1>2, PTL DEF RestoreSpec, Spec

(* What is old stays so in the store.                                       *)
LEMMA StoreOldStaysOld ==
    ASSUME NEW r \in Runs, Store!Old(r), \A s \in Runs : phase'[s] = "waiting" => phase[s] = "waiting"
    PROVE  Store!Old(r)'
<1> DEFINE S == {s \in Runs : s > r /\ phase[s] # "waiting"}
           T == {s \in Runs : s > r /\ phase'[s] # "waiting"}
<1>1. S \in SUBSET T /\ T \in SUBSET Runs
  OBVIOUS
<1>2. IsFiniteSet(T) /\ Cardinality(T) \in Nat /\ Cardinality(S) \in Nat
  BY <1>1, SubsetsOfRuns
<1>3. Cardinality(S) <= Cardinality(T)
  BY <1>1, <1>2, FS_Subset
<1>4. KeepLast # 0 /\ Cardinality(S) >= KeepLast
  BY Zenon DEF Store!Old, Store!Cardinality, Cardinality
<1>5. Cardinality(T) >= KeepLast
  BY <1>2, <1>3, <1>4, BackendAssumption
<1>6. QED
  BY <1>4, <1>5, Zenon DEF Store!Old, Store!Cardinality, Cardinality

(* Once cleaned up where failures are noticed, an artifact is gone and      *)
(* latest.json does not name it; while a Snapshot keeps it, it is there      *)
(* unless it is old: what the store promises, the scripts keep.             *)
THEOREM ScriptsKeepTheirWord == Spec => []Store!KeepsItsWord
<1>1. Store!Init => Store!KeepsItsWord
  BY DEF Store!Init, Store!KeepsItsWord
<1>2. Store!KeepsItsWord /\ [UNCHANGED Store!vars \/ Store!Next]_(Store!vars) => Store!KeepsItsWord'
  <2> SUFFICES ASSUME Store!KeepsItsWord, Store!Next \/ UNCHANGED Store!vars, NEW q \in Runs
               PROVE  /\ phase'[q] = "kept" => q \in stored' \/ Store!Old(q)'
                      /\ reliable' /\ phase'[q] = "cleaned" => q \notin stored' /\ latest' # q
    BY DEF Store!KeepsItsWord
  <2>0. DOMAIN phase = Runs /\ None \notin Runs
    BY DEF phase, None, Runs
  <2>1. /\ phase[q] = "kept" => q \in stored \/ Store!Old(q)
        /\ reliable /\ phase[q] = "cleaned" => q \notin stored /\ latest # q
    BY DEF Store!KeepsItsWord
  <2>2. CASE UNCHANGED Store!vars
    BY <2>1, <2>2 DEF Store!vars, Store!Old
  <2>3. CASE Store!Next
    <3>1. PICK r \in Runs : \/ Store!Begin(r) \/ Store!Store(r) \/ Store!Point(r) \/ Store!Keep(r)
                            \/ Store!Fail(r) \/ Store!Release(r) \/ Store!Remove(r)
                            \/ Store!Clean(r)
      BY <2>3 DEF Store!Next
    <3>2. reliable' = reliable
      BY <2>3 DEF Store!Next
    <3>3. Store!Old(q) => Store!Old(q)'
      <4>1. \A s \in Runs : phase'[s] = "waiting" => phase[s] = "waiting"
        BY <2>0, <3>1 DEF Store!Begin, Store!Store, Store!Point, Store!Keep, Store!Fail,
                          Store!Release, Store!Remove, Store!Clean, Store!Moves
      <4>2. QED
        BY <4>1, StoreOldStaysOld
    <3>4. CASE Store!Begin(r) \/ Store!Release(r)
      BY <2>0, <2>1, <3>2, <3>3, <3>4 DEF Store!Begin, Store!Release, Store!Moves
    <3>5. CASE Store!Store(r)
      BY <2>0, <2>1, <3>2, <3>3, <3>5 DEF Store!Store, Store!Moves
    <3>6. CASE Store!Point(r)
      BY <2>0, <2>1, <3>2, <3>3, <3>6 DEF Store!Point
    <3>7. CASE Store!Keep(r)
      BY <2>0, <2>1, <3>2, <3>3, <3>7 DEF Store!Keep, Store!Moves
    <3>8. CASE Store!Fail(r)
      BY <2>0, <2>1, <3>2, <3>3, <3>8 DEF Store!Fail, Store!Moves
    <3>9. CASE Store!Remove(r)
      BY <2>0, <2>1, <3>2, <3>3, <3>9 DEF Store!Remove
    <3>10. CASE Store!Clean(r)
      <4>1. /\ phase' = [phase EXCEPT ![r] = "cleaned"] /\ stored' = stored
            /\ reliable => r \notin stored
        BY <3>10 DEF Store!Clean, Store!Moves
      <4>2. reliable => latest' # r /\ \A s \in Runs : latest' = s => phase[s] # "cleaned"
        BY <2>0, <3>10 DEF Store!Clean, Store!Referable
      <4>3. QED
        BY <2>0, <2>1, <3>2, <3>3, <4>1, <4>2
    <3>11. QED
      BY <3>1, <3>4, <3>5, <3>6, <3>7, <3>8, <3>9, <3>10
  <2>4. QED
    BY <2>2, <2>3
<1>3. QED
  BY <1>1, <1>2, StoreIsImplemented, PTL DEF ImplementsStore, Store!Spec
=============================================================================
