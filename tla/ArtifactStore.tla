--------------------------- MODULE ArtifactStore ---------------------------
(***************************************************************************)
(* What the backend directory of a series is to those who use it: a store  *)
(* of complete artifacts, without the files, listings and commands of the  *)
(* scripts of StorageBackend.  A run adds one artifact, once.  An artifact *)
(* that a Snapshot keeps goes only when it is old, behind KeepLast newer   *)
(* runs, or when its Snapshot lets it go; and latest.json is pointed only  *)
(* to an artifact that is there, or that may go.                           *)
(***************************************************************************)
EXTENDS Naturals, FiniteSets

CONSTANTS
    Runs,      \* numbered in the order of packaging
    KeepLast,
    None       \* no run

VARIABLES
    reliable,  \* a command that fails is noticed: so on NFS
    phase,     \* how far a run is with its artifact
    stored,    \* the runs whose complete artifact is in the store
    latest     \* the run latest.json names

vars == <<reliable, phase, stored, latest>>

Init ==
    /\ reliable \in BOOLEAN
    /\ phase = [r \in Runs |-> "waiting"]
    /\ stored = {}
    /\ latest = None

Old(r) ==
    KeepLast # 0 /\ Cardinality({s \in Runs : s > r /\ phase[s] # "waiting"}) >= KeepLast

Moves(r, from, to) == phase[r] = from /\ phase' = [phase EXCEPT ![r] = to]

Begin(r) ==
    /\ Moves(r, "waiting", "uploading")
    /\ \A s \in Runs : s < r => phase[s] # "waiting"
    /\ UNCHANGED <<stored, latest>>

(* The artifact appears as a whole, unless it was pruned while it came.     *)
Store(r) ==
    /\ Moves(r, "uploading", "uploaded")
    /\ \/ stored' = stored \cup {r}
       \/ Old(r) /\ stored' = stored
    /\ UNCHANGED latest

Point(r) ==
    /\ phase[r] = "uploaded"
    /\ latest' = r
    /\ r \in stored \/ Old(r)
    /\ UNCHANGED <<phase, stored>>

(* A Snapshot is made of the artifact.                                      *)
Keep(r) ==
    /\ Moves(r, "uploaded", "kept")
    /\ r \in stored \/ Old(r)
    /\ UNCHANGED <<stored, latest>>

(* A run that fails may have been about to prune.                           *)
Fail(r) ==
    /\ Moves(r, "uploading", "failed") \/ Moves(r, "uploaded", "failed")
    /\ \/ stored' = stored
       \/ \E s \in stored : Old(s) /\ stored' = stored \ {s}
    /\ UNCHANGED latest

(* The deletion of the Snapshot begins.                                     *)
Release(r) ==
    /\ Moves(r, "kept", "released")
    /\ UNCHANGED <<stored, latest>>

Remove(r) ==
    /\ r \in stored
    /\ stored' = stored \ {r}
    /\ Old(r) \/ phase[r] = "released"
    /\ UNCHANGED <<phase, latest>>

Referable(s) ==
    /\ s \in stored \/ Old(s) \/ phase[s] \in {"released", "cleaned"}
    /\ reliable => phase[s] # "cleaned"

(* The deletion of the Snapshot is through; latest.json names another one.  *)
Clean(r) ==
    /\ Moves(r, "released", "cleaned")
    /\ reliable => r \notin stored
    /\ \/ latest' \in {None} \cup {s \in Runs \ {r} : Referable(s)}
       \/ ~reliable /\ latest' = latest
    /\ UNCHANGED stored

Next ==
    /\ \E r \in Runs :
          \/ Begin(r) \/ Store(r) \/ Point(r) \/ Keep(r) \/ Fail(r)
          \/ Release(r) \/ Remove(r) \/ Clean(r)
    /\ UNCHANGED reliable

(* Most commands that implement the store are stutters of it: they are       *)
(* listed first, where a check of the refinement finds them at once.        *)
Spec == Init /\ [][UNCHANGED vars \/ Next]_vars

----------------------------------------------------------------------------
(* What a Snapshot may count on, and what its deletion leaves: an artifact  *)
(* that is kept is there unless it is old; one that was cleaned up, where   *)
(* failures are noticed, is gone, and latest.json does not name it.         *)
KeepsItsWord ==
    \A r \in Runs :
       /\ phase[r] = "kept" => r \in stored \/ Old(r)
       /\ reliable /\ phase[r] = "cleaned" => r \notin stored /\ latest # r
=============================================================================
