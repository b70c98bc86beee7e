--------------------------- MODULE BackendRestore ---------------------------
(***************************************************************************)
(* A restore from a Snapshot beside the scripts of StorageBackend: the     *)
(* init containers of its Pod check that the artifact is there and then    *)
(* download and unpack it, without a lock and without the checksum that    *)
(* lies next to it, while uploads prune and cleanups remove.               *)
(***************************************************************************)
EXTENDS StorageBackend

VARIABLE download   \* the restore that is going on, of which run, with what archive

restoreVars == <<vars, download>>

NoDownload == [pc |-> "none", run |-> None, whole |-> FALSE]

RestoreInit == Init /\ download = NoDownload

(* The Snapshot of a reported artifact is there until its cleanup is over;  *)
(* that it may be on its way out is not looked at.  The preflight finds the *)
(* artifact, or the Job fails.                                              *)
Preflight(r) ==
    /\ download = NoDownload
    /\ upload[r].pc = "reported" /\ cleanup[r].pc # "done"
    /\ download' = [pc |-> IF r \in With("tgz") THEN "download" ELSE "missing",
                    run |-> r, whole |-> FALSE]

(* The archive is copied as it is by then, and unpacked: tar sees an        *)
(* archive that was cut off.                                                *)
Download ==
    /\ download.pc = "download"
    /\ LET r == download.run
       IN download' = IF r \in With("tgz")
                      THEN [download EXCEPT !.pc = "unpack", !.whole = r \notin partial]
                      ELSE [download EXCEPT !.pc = "missing"]

(* The addon goes on with what was unpacked, or the Job has failed.         *)
EndRestore ==
    /\ download.pc \in {"unpack", "missing"}
    /\ download' = NoDownload

(* A container fails, the deadline passes or the node is lost.              *)
AbortRestore ==
    /\ download.pc = "download"
    /\ download' = NoDownload

RestoreStep == (\E r \in Runs : Preflight(r)) \/ Download \/ EndRestore \/ AbortRestore

RestoreNext ==
    \/ Next /\ UNCHANGED download
    \/ RestoreStep /\ UNCHANGED vars

RestoreSpec == RestoreInit /\ [][RestoreNext]_restoreVars

----------------------------------------------------------------------------
(* Whatever is uploaded, pruned or cleaned up while it goes on, a restore   *)
(* from a Snapshot never unpacks an archive that was cut off; and it misses *)
(* the archive only if its Snapshot is being deleted, or if KeepLast newer  *)
(* runs have packaged their data.                                           *)
RestoreFindsWhole ==
    /\ download.pc = "unpack" => download.whole
    /\ download.pc = "missing" =>
          LET r == download.run
          IN \/ cleanup[r].pc # "none"
             \/ KeepLast # 0 /\ Cardinality(Newer(r, Packaged)) >= KeepLast
=============================================================================
