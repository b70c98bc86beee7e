--------------------------- MODULE StorageBackend ---------------------------
(***************************************************************************)
(* The directory of one series in a backup storage, and the shell scripts  *)
(* that work on it without any lock: the upload container of each backup   *)
(* run (of the CronJob or of a BackupJob of the same policy), which copies *)
(* an artifact, its checksum and its metadata, points latest.json to it    *)
(* and prunes, and the cleanup Job of a Snapshot that is being deleted.    *)
(*                                                                         *)
(* A name begins with the time at which its run packaged the data, so the  *)
(* runs are numbered in the order of packaging, and sorting by name sorts  *)
(* by number.  The Snapshots appear only as far as they start cleanups.    *)
(***************************************************************************)
EXTENDS Naturals, FiniteSets

CONSTANTS
    MaxRuns,   \* bound: the runs that get as far as packaging
    KeepLast,  \* DP_KEEP_LAST
    MaxFaults  \* bound: commands that fail, scripts that are killed

ASSUME BackendAssumption ==
    /\ MaxRuns \in Nat \ {0}
    /\ KeepLast \in Nat
    /\ MaxFaults \in Nat

VARIABLES
    kind,     \* the type of the storage
    files,    \* the files in snapshots/, by run and suffix
    partial,  \* the archives that are not copied completely
    latest,   \* the run latest.json names
    upload,   \* the upload container of a run, with what it is about to prune
    cleanup,  \* the cleanup Job of a run's Snapshot, with its latest_source
    faults    \* faults so far

vars == <<kind, files, partial, latest, upload, cleanup, faults>>

Runs     == 1..MaxRuns
None     == 0
Suffixes == {"tgz", "sha256", "metadata"}

UploadSteps  == {"artifact", "copying", "sha256", "metadata", "latest", "verify",
                 "list", "prune"}
CleanupSteps == {"remove", "list", "latest"}

Types ==
    /\ kind \in {"nfs", "minio"}
    /\ files \subseteq Runs \X Suffixes
    /\ partial \subseteq Runs
    /\ latest \in Runs \cup {None}
    /\ upload \in [Runs -> [pc : UploadSteps \cup {"waiting", "reported", "failed"},
                            doomed : SUBSET Runs]]
    /\ cleanup \in [Runs -> [pc : CleanupSteps \cup {"none", "done", "failed"},
                             source : Runs \cup {None}]]
    /\ faults \in 0..MaxFaults

(* No upload is about to prune so many artifacts that KeepLast do not stay. *)
TypeOK ==
    /\ Types
    /\ \A r \in Runs : upload[r].doomed # {} =>
            Cardinality(upload[r].doomed) + KeepLast <= MaxRuns

(* A new series.                                                            *)
Init ==
    /\ kind \in {"nfs", "minio"}
    /\ files = {}
    /\ partial = {}
    /\ latest = None
    /\ upload = [r \in Runs |-> [pc |-> "waiting", doomed |-> {}]]
    /\ cleanup = [r \in Runs |-> [pc |-> "none", source |-> None]]
    /\ faults = 0

FilesOf(r)   == {r} \X Suffixes
With(suffix) == {r \in Runs : <<r, suffix>> \in files}
Newest(S)    == CHOOSE r \in S : \A s \in S : s <= r
Newer(r, S)  == {s \in S : s > r}
Uploading    == {r \in Runs : upload[r].pc \in UploadSteps}
Cleaning     == {r \in Runs : cleanup[r].pc \in CleanupSteps}

----------------------------------------------------------------------------
(* The upload script *)

GoTo(r, pc) == upload' = [upload EXCEPT ![r].pc = pc]

(* The package container has named the artifact; the upload goes ahead.     *)
Package(r) ==
    /\ upload[r].pc = "waiting"
    /\ \A s \in Runs : s < r => upload[s].pc # "waiting"
    /\ GoTo(r, "artifact")
    /\ UNCHANGED <<files, partial, latest, cleanup, faults>>

(* Mutant of CopyArtifact: goes on before the copy is complete.             *)
CopyArtifactHastily(r) ==
    /\ upload[r].pc = "artifact"
    /\ files' = files \cup {<<r, "tgz">>}
    /\ partial' = IF kind = "nfs" THEN partial \cup {r} ELSE partial
    /\ GoTo(r, "sha256")
    /\ UNCHANGED <<latest, cleanup, faults>>

(* Mutant of CopyArtifact: the metadata goes first.                         *)
CopyMetadataFirst(r) ==
    /\ upload[r].pc = "artifact"
    /\ files' = files \cup {<<r, "tgz">>, <<r, "metadata">>}
    /\ partial' = IF kind = "nfs" THEN partial \cup {r} ELSE partial
    /\ GoTo(r, IF kind = "nfs" THEN "copying" ELSE "sha256")
    /\ UNCHANGED <<latest, cleanup, faults>>

(* An object appears as a whole; on NFS others see a file while it grows.   *)
CopyArtifact(r) ==
    /\ upload[r].pc = "artifact"
    /\ files' = files \cup {<<r, "tgz">>}
    /\ partial' = IF kind = "nfs" THEN partial \cup {r} ELSE partial
    /\ GoTo(r, IF kind = "nfs" THEN "copying" ELSE "sha256")
    /\ UNCHANGED <<latest, cleanup, faults>>

FinishCopy(r) ==
    /\ upload[r].pc = "copying"
    /\ partial' = partial \ {r}
    /\ GoTo(r, "sha256")
    /\ UNCHANGED <<files, latest, cleanup, faults>>

CopyChecksum(r) ==
    /\ upload[r].pc = "sha256"
    /\ files' = files \cup {<<r, "sha256">>}
    /\ GoTo(r, "metadata")
    /\ UNCHANGED <<partial, latest, cleanup, faults>>

CopyMetadata(r) ==
    /\ upload[r].pc = "metadata"
    /\ files' = files \cup {<<r, "metadata">>}
    /\ GoTo(r, "latest")
    /\ UNCHANGED <<partial, latest, cleanup, faults>>

CopyLatest(r) ==
    /\ upload[r].pc = "latest"
    /\ latest' = r
    /\ GoTo(r, "verify")
    /\ UNCHANGED <<files, partial, cleanup, faults>>

(* The archive has to be there, unless somebody has removed it meanwhile.   *)
Verify(r) ==
    /\ upload[r].pc = "verify"
    /\ GoTo(r, IF r \in With("tgz") THEN "list" ELSE "failed")
    /\ UNCHANGED <<files, partial, latest, cleanup, faults>>

(* Mutant of Doomed: an artifact too many.                                  *)
DoomedEarly(S) == {r \in S : Cardinality(Newer(r, S)) + 1 >= KeepLast}

(* Behind KeepLast others in the listing; 0 keeps everything.               *)
Doomed(S) ==
    IF KeepLast = 0 THEN {} ELSE {r \in S : Cardinality(Newer(r, S)) >= KeepLast}

(* The listing takes every archive for an artifact.  It is the head of a    *)
(* pipeline, so a listing that fails is an empty one.                       *)
List(r) ==
    /\ upload[r].pc = "list"
    /\ \E listed \in {With("tgz"), {}} :
        /\ listed # With("tgz") => faults < MaxFaults
        /\ faults' = IF listed = With("tgz") THEN faults ELSE faults + 1
        /\ upload' = [upload EXCEPT ![r] = [pc |-> "prune", doomed |-> Doomed(listed)]]
    /\ UNCHANGED <<files, partial, latest, cleanup>>

(* What may be left of the files of a run by the commands that remove them: *)
(* nothing, unless one fails.                                               *)
Leftovers(r) == IF faults < MaxFaults THEN SUBSET (files \cap FilesOf(r)) ELSE {{}}

Remove(r, left) ==
    /\ files' = (files \ FilesOf(r)) \cup left
    /\ partial' = IF <<r, "tgz">> \in left THEN partial ELSE partial \ {r}
    /\ faults' = IF left = {} THEN faults ELSE faults + 1

(* One turn of the pruning loop.  A failing rm ends the script on NFS and   *)
(* is ignored on MinIO.                                                     *)
Prune(r) ==
    /\ upload[r].pc = "prune"
    /\ upload[r].doomed # {}
    /\ LET old == Newest(upload[r].doomed) IN
        \E left \in Leftovers(old) :
            /\ Remove(old, left)
            /\ upload' = IF left # {} /\ kind = "nfs"
                         THEN [upload EXCEPT ![r].pc = "failed"]
                         ELSE [upload EXCEPT ![r].doomed = @ \ {old}]
    /\ UNCHANGED <<latest, cleanup>>

(* The termination message makes a Snapshot of the artifact.                *)
Report(r) ==
    /\ upload[r].pc = "prune"
    /\ upload[r].doomed = {}
    /\ GoTo(r, "reported")
    /\ UNCHANGED <<files, partial, latest, cleanup, faults>>

----------------------------------------------------------------------------
(* The cleanup script *)

(* The Snapshot of a reported artifact is deleted, by retention or by a     *)
(* user; a Job that failed is replaced.                                     *)
StartCleanup(r) ==
    /\ upload[r].pc = "reported"
    /\ cleanup[r].pc \in {"none", "failed"}
    /\ cleanup' = [cleanup EXCEPT ![r].pc = "remove"]
    /\ UNCHANGED <<files, partial, latest, upload, faults>>

(* Mutant of RemoveArtifact: rm's failure does not end the script on NFS.   *)
RemoveArtifactLeniently(r) ==
    /\ cleanup[r].pc = "remove"
    /\ \E left \in Leftovers(r) : Remove(r, left)
    /\ cleanup' = [cleanup EXCEPT ![r].pc = "list"]
    /\ UNCHANGED <<latest, upload>>

RemoveArtifact(r) ==
    /\ cleanup[r].pc = "remove"
    /\ \E left \in Leftovers(r) :
        /\ Remove(r, left)
        /\ cleanup' = [cleanup EXCEPT ![r].pc =
                          IF left # {} /\ kind = "nfs" THEN "failed" ELSE "list"]
    /\ UNCHANGED <<latest, upload>>

(* MinIO takes a bucket it cannot look up for one that is gone.             *)
SkipCleanup(r) ==
    /\ kind = "minio"
    /\ cleanup[r].pc = "remove"
    /\ faults < MaxFaults
    /\ faults' = faults + 1
    /\ cleanup' = [cleanup EXCEPT ![r].pc = "done"]
    /\ UNCHANGED <<files, partial, latest, upload>>

(* The newest metadata, the Snapshot's own excepted.                        *)
LatestSource(r) ==
    LET S == With("metadata") \ {r} IN IF S = {} THEN None ELSE Newest(S)

(* A listing that fails finds nothing.                                      *)
ChooseLatest(r) ==
    /\ cleanup[r].pc = "list"
    /\ \E source \in {LatestSource(r), None} :
        /\ source # LatestSource(r) => faults < MaxFaults
        /\ faults' = IF source = LatestSource(r) THEN faults ELSE faults + 1
        /\ cleanup' = [cleanup EXCEPT ![r] = [pc |-> "latest", source |-> source]]
    /\ UNCHANGED <<files, partial, latest, upload>>

(* Mutant of ReplaceLatest: the source is not looked at again.              *)
ReplaceLatestBlindly(r) ==
    /\ cleanup[r].pc = "latest"
    /\ latest' = cleanup[r].source
    /\ cleanup' = [cleanup EXCEPT ![r] = [pc |-> "done", source |-> None]]
    /\ UNCHANGED <<files, partial, upload, faults>>

(* latest.json is overwritten or removed; the copy fails if its source has  *)
(* been removed meanwhile.                                                  *)
ReplaceLatest(r) ==
    /\ cleanup[r].pc = "latest"
    /\ LET source == cleanup[r].source
           found  == source = None \/ source \in With("metadata") IN
        /\ latest' = IF found THEN source ELSE latest
        /\ cleanup' = [cleanup EXCEPT ![r] = [pc |-> IF found THEN "done" ELSE "failed",
                                              source |-> None]]
    /\ UNCHANGED <<files, partial, upload, faults>>

(* A command fails, the deadline passes or a node is lost.  What has been   *)
(* done stays; the artifact of a run that fails is nobody's.                *)
Kill(r) ==
    /\ faults < MaxFaults
    /\ faults' = faults + 1
    /\ \/ /\ r \in Uploading
          /\ GoTo(r, "failed")
          /\ UNCHANGED cleanup
       \/ /\ r \in Cleaning
          /\ cleanup' = [cleanup EXCEPT ![r] = [pc |-> "failed", source |-> None]]
          /\ UNCHANGED upload
    /\ UNCHANGED <<files, partial, latest>>

UploadStep(r) ==
    \/ Package(r) \/ CopyArtifact(r) \/ FinishCopy(r) \/ CopyChecksum(r) \/ CopyMetadata(r)
    \/ CopyLatest(r) \/ Verify(r) \/ List(r) \/ Prune(r) \/ Report(r)

CleanupStep(r) ==
    \/ StartCleanup(r) \/ RemoveArtifact(r) \/ SkipCleanup(r)
    \/ ChooseLatest(r) \/ ReplaceLatest(r)

Next ==
    /\ \E r \in Runs : UploadStep(r) \/ CleanupStep(r) \/ Kill(r)
    /\ UNCHANGED kind

Spec == Init /\ [][Next]_vars

----------------------------------------------------------------------------
(* Properties *)

Reported   == {r \in Runs : upload[r].pc = "reported"}
Packaged   == {r \in Runs : upload[r].pc # "waiting"}
Untouched  == {r \in Runs : cleanup[r].pc = "none"}

(* An archive that a Snapshot or latest.json refers to is complete: however *)
(* often its upload was overtaken, and although a cleanup takes latest.json *)
(* from whatever metadata it finds while other runs upload.                 *)
ReferencedIsWhole == (Reported \cup {latest}) \cap partial = {}

(* Once a cleanup on NFS has succeeded, and the Snapshot is gone with it,   *)
(* no file of the artifact is left in the backend, nor comes back.  On      *)
(* MinIO a passing failure makes the script leave files and succeed.        *)
CleanedIsGone ==
    \A r \in Runs :
        kind = "nfs" /\ cleanup[r].pc = "done" => files \cap FilesOf(r) = {}

(* An artifact with a Snapshot leaves the backend only when KeepLast newer  *)
(* runs have packaged their data, complete or not, or with its Snapshot.    *)
PrunesOnlyOld ==
    \A r \in Reported \cap Untouched :
        KeepLast = 0 \/ Cardinality(Newer(r, Packaged)) < KeepLast => r \in With("tgz")

(* How far a run is, to those who use its artifact, by how far the upload   *)
(* and the cleanup are.                                                     *)
PhaseOf(uploaded, cleaned) ==
    CASE uploaded \in {"waiting", "failed"}   -> uploaded
      [] uploaded \in {"artifact", "copying"} -> "uploading"
      [] uploaded = "reported" -> CASE cleaned = "none" -> "kept"
                                    [] cleaned = "done" -> "cleaned"
                                    [] OTHER            -> "released"
      [] OTHER                                -> "uploaded"

reliable == kind = "nfs"
phase    == [r \in Runs |-> PhaseOf(upload[r].pc, cleanup[r].pc)]
stored   == With("tgz") \ partial

Store == INSTANCE ArtifactStore

(* File by file, without a lock, with commands that fail and scripts that   *)
(* are killed, uploads and cleanups give their users a store of artifacts   *)
(* that come and go as a whole, and go only as the retention or a Snapshot  *)
(* lets them; and on NFS a cleanup never leaves latest.json with an         *)
(* artifact that another cleanup has taken away.                            *)
ImplementsStore == Store!Spec
=============================================================================
