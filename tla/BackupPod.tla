------------------------------ MODULE BackupPod ------------------------------
(***************************************************************************)
(* The Pod of a native backup Job.  After the preflight, an init           *)
(* container, three containers run side by side: the addon dumps the data, *)
(* one packages the dump, one uploads the package.  They take turns by     *)
(* marker files in a shared volume, which the next one polls for; one that *)
(* is killed leaves no marker, and the Job's deadline has to end the       *)
(* others.  The controller learns what became of the Pod from the Job's    *)
(* conditions and the containers' termination messages.                    *)
(***************************************************************************)
EXTENDS FiniteSets

VARIABLES
    traps,    \* the shells that know the ERR trap, which is not POSIX
    state,    \* of each container
    silent,   \* the containers that ended without a marker (history)
    marks,    \* the marker files
    output,   \* what is in /workspace/output
    archive,  \* what is in /workspace/status/package
    stored,   \* what the upload has put in the backend
    message,  \* the containers' termination messages
    job       \* the condition of the native Job

vars == <<traps, state, silent, marks, output, archive, stored, message, job>>

Shells     == {"addon", "package"}  \* the containers whose scripts set a trap
Parallel   == Shells \cup {"upload"}
Containers == Parallel \cup {"preflight"}
Marks      == {"plugin.done", "plugin.failed", "package.done", "package.failed"}
Contents   == {"none", "partial", "whole"}

Running == {"starting", "polling", "working", "finishing"}

TypeOK ==
    /\ traps \subseteq Shells
    /\ state \in [Containers -> Running \cup {"waiting", "succeeded", "failed"}]
    /\ silent \subseteq Containers
    /\ marks \subseteq Marks
    /\ output \in Contents /\ archive \in Contents /\ stored \in Contents
    /\ message \in [Containers -> {"none", "probe", "artifact"}]
    /\ message["preflight"] # "artifact" /\ message["upload"] # "probe"
    /\ \A c \in Shells : message[c] = "none"
    /\ ~({"plugin.done", "plugin.failed"} \subseteq marks)
    /\ ~({"package.done", "package.failed"} \subseteq marks)
    /\ job \in {"active", "complete", "failed"}

Init ==
    /\ traps \in SUBSET Shells
    /\ state = [c \in Containers |-> IF c = "preflight" THEN "working" ELSE "waiting"]
    /\ silent = {}
    /\ marks = {}
    /\ output = "none" /\ archive = "none" /\ stored = "none"
    /\ message = [c \in Containers |-> "none"]
    /\ job = "active"

Alive(c) == state[c] \in Running
Ended(c) == state[c] \in {"succeeded", "failed"}
Becomes(c, s) == state' = [state EXCEPT ![c] = s]

----------------------------------------------------------------------------
(* The containers *)

(* The preflight has written to the backend, and the others start; or it    *)
(* has not, and they never do.                                              *)
Preflight ==
    /\ state["preflight"] = "working"
    /\ \/ /\ state' = [c \in Containers |->
                          CASE c = "preflight" -> "succeeded"
                            [] c = "upload"    -> "polling"
                            [] OTHER           -> "starting"]
          /\ message' = [message EXCEPT !["preflight"] = "probe"]
       \/ /\ Becomes("preflight", "failed")
          /\ UNCHANGED message
    /\ UNCHANGED <<traps, silent, marks, output, archive, stored, job>>

(* set -e ends a shell that does not know the trap, before any marker.      *)
SetTrap(c) ==
    /\ state[c] = "starting"
    /\ Becomes(c, IF c \notin traps THEN "failed"
                  ELSE IF c = "addon" THEN "working" ELSE "polling")
    /\ silent' = IF c \in traps THEN silent ELSE silent \cup {c}
    /\ UNCHANGED <<traps, marks, output, archive, stored, message, job>>

(* The command dumps the data; anything it leaves before its end is partial. *)
Dump ==
    /\ state["addon"] = "working"
    /\ output' = "partial"
    /\ UNCHANGED <<traps, state, silent, marks, archive, stored, message, job>>

CompleteDump ==
    /\ state["addon"] = "working"
    /\ output' = "whole"
    /\ Becomes("addon", "finishing")
    /\ UNCHANGED <<traps, silent, marks, archive, stored, message, job>>

(* The marker, and the end of the script, which still may be killed.        *)
TouchPluginDone ==
    /\ state["addon"] = "finishing"
    /\ marks' = marks \cup {"plugin.done"}
    /\ Becomes("addon", "succeeded")
    /\ UNCHANGED <<traps, silent, output, archive, stored, message, job>>

(* Mutants of FailDump: no set -e, without a trap and with one; no trap.     *)
FailDumpUnnoticed ==
    /\ state["addon"] = "working"
    /\ Becomes("addon", "finishing")
    /\ UNCHANGED <<traps, silent, marks, output, archive, stored, message, job>>

FailDumpAndGoOn ==
    /\ state["addon"] = "working"
    /\ marks' = marks \cup {"plugin.failed"}
    /\ Becomes("addon", "finishing")
    /\ UNCHANGED <<traps, silent, output, archive, stored, message, job>>

FailDumpWithoutMark ==
    /\ state["addon"] = "working"
    /\ Becomes("addon", "failed")
    /\ UNCHANGED <<traps, silent, marks, output, archive, stored, message, job>>

FailDump ==
    /\ state["addon"] = "working"
    /\ marks' = marks \cup {"plugin.failed"}
    /\ Becomes("addon", "failed")
    /\ UNCHANGED <<traps, silent, output, archive, stored, message, job>>

(* The done marker is looked for first.                                     *)
AwaitDump ==
    /\ state["package"] = "polling"
    /\ \/ /\ "plugin.done" \in marks
          /\ Becomes("package", "working")
          /\ UNCHANGED marks
       \/ /\ "plugin.done" \notin marks /\ "plugin.failed" \in marks
          /\ marks' = marks \cup {"package.failed"}
          /\ Becomes("package", "failed")
    /\ UNCHANGED <<traps, silent, output, archive, stored, message, job>>

(* tar takes what the dump has left.                                        *)
Archive ==
    /\ state["package"] = "working"
    /\ archive' = output
    /\ Becomes("package", "finishing")
    /\ UNCHANGED <<traps, silent, marks, output, stored, message, job>>

TouchPackageDone ==
    /\ state["package"] = "finishing"
    /\ marks' = marks \cup {"package.done"}
    /\ Becomes("package", "succeeded")
    /\ UNCHANGED <<traps, silent, output, archive, stored, message, job>>

(* tar or one of the commands after it fails.                               *)
FailPackage ==
    /\ state["package"] \in {"working", "finishing"}
    /\ archive' \in {archive, "partial"}
    /\ marks' = marks \cup {"package.failed"}
    /\ Becomes("package", "failed")
    /\ UNCHANGED <<traps, silent, output, stored, message, job>>

AwaitPackage ==
    /\ state["upload"] = "polling"
    /\ \/ "package.done" \in marks /\ Becomes("upload", "working")
       \/ "package.done" \notin marks /\ "package.failed" \in marks /\ Becomes("upload", "failed")
    /\ UNCHANGED <<traps, silent, marks, output, archive, stored, message, job>>

(* StorageBackend has the steps of the upload.                              *)
Upload ==
    /\ state["upload"] = "working"
    /\ stored' = archive
    /\ Becomes("upload", "finishing")
    /\ UNCHANGED <<traps, silent, marks, output, archive, message, job>>

(* The summary is the last thing the upload writes.                         *)
Summarize ==
    /\ state["upload"] = "finishing"
    /\ message' = [message EXCEPT !["upload"] = "artifact"]
    /\ Becomes("upload", "succeeded")
    /\ UNCHANGED <<traps, silent, marks, output, archive, stored, job>>

FailUpload ==
    /\ state["upload"] \in {"working", "finishing"}
    /\ Becomes("upload", "failed")
    /\ UNCHANGED <<traps, silent, marks, output, archive, stored, message, job>>

(* A container is out of memory or evicted.  One whose last command has     *)
(* been executed may still fail to exit well.                               *)
Kill(c) ==
    /\ job = "active"
    /\ Alive(c) \/ (c \in Shells /\ state[c] = "succeeded" /\ Alive("upload"))
    /\ Becomes(c, "failed")
    /\ silent' = silent \cup {c}
    /\ UNCHANGED <<traps, marks, output, archive, stored, message, job>>

----------------------------------------------------------------------------
(* Kubernetes *)

PodSucceeded == \A c \in Containers : state[c] = "succeeded"
PodFailed ==
    \/ state["preflight"] = "failed"
    \/ (\A c \in Containers : Ended(c)) /\ \E c \in Containers : state[c] = "failed"

(* One Pod, no retry: the Job ends as its Pod does.                         *)
EndJob ==
    /\ job = "active"
    /\ \/ PodSucceeded /\ job' = "complete"
       \/ PodFailed /\ job' = "failed"
    /\ UNCHANGED <<traps, state, silent, marks, output, archive, stored, message>>

(* activeDeadlineSeconds: the Job fails and its Pod is killed.              *)
Deadline ==
    /\ job = "active"
    /\ job' = "failed"
    /\ state' = [c \in Containers |-> IF Alive(c) THEN "failed" ELSE state[c]]
    /\ UNCHANGED <<traps, silent, marks, output, archive, stored, message>>

Work ==
    \/ Preflight \/ (\E c \in Shells : SetTrap(c))
    \/ CompleteDump \/ TouchPluginDone \/ FailDump
    \/ AwaitDump \/ Archive \/ TouchPackageDone \/ FailPackage
    \/ AwaitPackage \/ Upload \/ Summarize \/ FailUpload

Next == Work \/ Dump \/ (\E c \in Containers : Kill(c)) \/ EndJob \/ Deadline

Spec == Init /\ [][Next]_vars

(* The containers' commands come to an end, and the Job controller notices  *)
(* the Pod's; nothing else is relied on.                                    *)
FairSpec == Spec /\ WF_vars(Work) /\ WF_vars(EndJob)

----------------------------------------------------------------------------
(* Properties *)

Summary == message["upload"] = "artifact" /\ Ended("upload")

(* What gets into the backend is the archive of a complete dump, whatever   *)
(* fails or is killed; the summary speaks of nothing else, and a Job that   *)
(* is complete has left it, so that a Snapshot can be made of it.           *)
StoresWhole ==
    /\ stored \in {"none", "whole"}
    /\ Summary => stored = "whole"
    /\ job = "complete" => Summary

(* A failure that leaves its marker ends the whole Pod without the help of  *)
(* the deadline.                                                            *)
FailureEndsJob ==
    (\E c \in Containers : state[c] = "failed") ~> (job # "active" \/ silent # {})
=============================================================================
