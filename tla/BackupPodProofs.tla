--------------------------- MODULE BackupPodProofs ---------------------------
(***************************************************************************)
(* Machine-checked proofs about BackupPod: the hand-over from container to *)
(* container by marker files.                                              *)
(***************************************************************************)
EXTENDS BackupPod, TLAPS

(* Nothing starts beside the preflight, and a complete Job is at its end.   *)
Bounded ==
    /\ state["preflight"] = "working" => \A c \in Parallel : state[c] = "waiting"
    /\ job = "complete" => \A c \in Containers : state[c] = "succeeded"

(* A marker is the last thing a container does before it ends.              *)
MarksComeLast ==
    /\ marks \cap {"plugin.done", "plugin.failed"} # {} => Ended("addon")
    /\ marks \cap {"package.done", "package.failed"} # {} => Ended("package")

(* Each container hands on what is complete, and waits for what it takes.   *)
HandedOn ==
    /\ state["addon"] = "finishing" => output = "whole"
    /\ "plugin.done" \in marks => output = "whole"
    /\ state["package"] \in {"working", "finishing"} => "plugin.done" \in marks
    /\ state["package"] = "finishing" => archive = "whole"
    /\ "package.done" \in marks => archive = "whole"
    /\ state["upload"] \in {"working", "finishing"} => "package.done" \in marks
    /\ stored \in {"none", "whole"}
    /\ state["upload"] = "finishing" => stored = "whole"
    /\ message["upload"] = "artifact" => stored = "whole"
    /\ state["upload"] = "succeeded" => message["upload"] = "artifact"

(* An inductive invariant.                                                  *)
Orderly == TypeOK /\ Bounded /\ MarksComeLast /\ HandedOn

(* The containers by name, for steps that change the state of one of them.  *)
LEMMA Names ==
    /\ "preflight" \in Containers /\ "addon" \in Containers
    /\ "package" \in Containers /\ "upload" \in Containers
    /\ "addon" \in Parallel /\ "package" \in Parallel /\ "upload" \in Parallel
    /\ "preflight" \notin Parallel
    /\ "addon" \in Shells /\ "package" \in Shells
    /\ Shells \subseteq Parallel /\ Parallel \subseteq Containers
    BY DEF Containers, Parallel, Shells

(* Between a step of one container and the next one the others stay.        *)
LEMMA OneMoves ==
    ASSUME state \in [Containers -> Running \cup {"waiting", "succeeded", "failed"}],
           NEW c \in Containers, NEW s \in Running \cup {"waiting", "succeeded", "failed"},
           Becomes(c, s)
    PROVE  /\ state' \in [Containers -> Running \cup {"waiting", "succeeded", "failed"}]
           /\ state'[c] = s /\ \A d \in Containers \ {c} : state'[d] = state[d]
    BY DEF Becomes

LEMMA OrderlyInit == Init => Orderly
    BY Names DEF Init, Orderly, TypeOK, Bounded, MarksComeLast, HandedOn, Ended, Running,
             Contents, Parallel, Containers, Shells

LEMMA PreflightKeepsOrder == Orderly /\ Preflight => Orderly'
<1> SUFFICES ASSUME Orderly, Preflight PROVE Orderly'
  OBVIOUS
<1>1. /\ state["preflight"] = "working" /\ \A c \in Parallel : state[c] = "waiting"
      /\ job # "complete"
  BY Names DEF Preflight, Orderly, Bounded
<1>2. ~Ended("addon") /\ ~Ended("package")
  BY <1>1, Names DEF Ended
<1>3. marks \cap {"plugin.done", "plugin.failed"} = {}
      /\ marks \cap {"package.done", "package.failed"} = {}
  BY <1>2 DEF Orderly, MarksComeLast
<1>4. /\ state' \in [Containers -> Running \cup {"waiting", "succeeded", "failed"}]
      /\ state'["preflight"] # "working"
      /\ state'["addon"] \in {"starting", "waiting"}
      /\ state'["package"] \in {"starting", "waiting"}
      /\ state'["upload"] \in {"polling", "waiting"}
  BY <1>1, Names DEF Preflight, Becomes, Orderly, TypeOK, Running
<1>5. /\ message' \in [Containers -> {"none", "probe", "artifact"}]
      /\ message'["preflight"] # "artifact" /\ message'["upload"] = message["upload"]
      /\ \A c \in Shells : message'[c] = "none"
  BY Names DEF Preflight, Orderly, TypeOK
<1>6. TypeOK'
  BY <1>4, <1>5 DEF Preflight, Orderly, TypeOK
<1>7. Bounded' /\ MarksComeLast'
  BY <1>1, <1>3, <1>4 DEF Preflight, Bounded, MarksComeLast
<1>8. HandedOn'
  BY <1>3, <1>4, <1>5 DEF Preflight, Orderly, HandedOn
<1>9. QED
  BY <1>6, <1>7, <1>8 DEF Orderly

(* The steps of one container after the preflight.                          *)
Step(c) ==
    \/ c \in Shells /\ SetTrap(c)
    \/ c = "addon" /\ (Dump \/ CompleteDump \/ TouchPluginDone \/ FailDump)
    \/ c = "package" /\ (AwaitDump \/ Archive \/ TouchPackageDone \/ FailPackage)
    \/ c = "upload" /\ (AwaitPackage \/ Upload \/ Summarize \/ FailUpload)

(* What holds while a container takes a step: the preflight is over.        *)
LEMMA AfterPreflight ==
    ASSUME Orderly, NEW c \in Parallel, state[c] # "waiting"
    PROVE  state["preflight"] # "working" /\ c \in Containers
    BY Names DEF Orderly, Bounded

LEMMA AddonKeepsOrder == Orderly /\ Step("addon") => Orderly'
<1> SUFFICES ASSUME Orderly, Step("addon") PROVE Orderly'
  OBVIOUS
<1>1. \/ SetTrap("addon") \/ Dump \/ CompleteDump \/ TouchPluginDone \/ FailDump
  BY Names DEF Step
<1>2. /\ state["addon"] \in {"starting", "working", "finishing"}
      /\ ~Ended("addon") /\ state["preflight"] # "working" /\ job # "complete"
  BY <1>1, AfterPreflight, Names
     DEF SetTrap, Dump, CompleteDump, TouchPluginDone, FailDump, Ended, Orderly, Bounded
<1>3. marks \cap {"plugin.done", "plugin.failed"} = {}
  BY <1>2 DEF Orderly, MarksComeLast
<1>4. state["package"] \notin {"working", "finishing"}
  BY <1>3 DEF Orderly, HandedOn
<1>5. /\ state' \in [Containers -> Running \cup {"waiting", "succeeded", "failed"}]
      /\ \A c \in Containers \ {"addon"} : state'[c] = state[c]
  BY <1>1, Names DEF SetTrap, Dump, CompleteDump, TouchPluginDone, FailDump, Becomes,
                     Orderly, TypeOK, Running
<1>6. TypeOK'
  BY <1>1, <1>3, <1>5, Names, ZenonT(60)
     DEF SetTrap, Dump, CompleteDump, TouchPluginDone, FailDump, Orderly, TypeOK,
         Contents, Marks
<1>7. Bounded'
  BY <1>1, <1>2, <1>5, Names
     DEF SetTrap, Dump, CompleteDump, TouchPluginDone, FailDump, Orderly, Bounded
<1>8. MarksComeLast'
  <2>1. marks' \cap {"package.done", "package.failed"} = marks \cap {"package.done", "package.failed"}
    BY <1>1 DEF SetTrap, Dump, CompleteDump, TouchPluginDone, FailDump
  <2>2. marks' = marks \/ Ended("addon")'
    BY <1>1, Names DEF SetTrap, Dump, CompleteDump, TouchPluginDone, FailDump, Becomes,
                       Ended, Orderly, TypeOK
  <2>3. QED
    BY <1>3, <1>5, <2>1, <2>2, Names DEF Orderly, MarksComeLast, Ended
<1>9. HandedOn'
  <2>1. /\ state'["package"] = state["package"] /\ state'["upload"] = state["upload"]
        /\ UNCHANGED <<archive, stored, message>>
        /\ "package.done" \in marks' <=> "package.done" \in marks
    BY <1>1, <1>5, Names DEF SetTrap, Dump, CompleteDump, TouchPluginDone, FailDump
  <2>2. /\ state'["addon"] = "finishing" => output' = "whole"
        /\ "plugin.done" \in marks' => output' = "whole"
    BY <1>1, <1>2, <1>3, Names
       DEF SetTrap, Dump, CompleteDump, TouchPluginDone, FailDump, Becomes, Orderly,
           TypeOK, HandedOn
  <2>3. QED
    BY <1>4, <2>1, <2>2 DEF Orderly, HandedOn
<1>10. QED
  BY <1>6, <1>7, <1>8, <1>9 DEF Orderly

LEMMA PackageKeepsOrder == Orderly /\ Step("package") => Orderly'
<1> SUFFICES ASSUME Orderly, Step("package") PROVE Orderly'
  OBVIOUS
<1>1. \/ SetTrap("package") \/ AwaitDump \/ Archive \/ TouchPackageDone \/ FailPackage
  BY Names DEF Step
<1>2. /\ state["package"] \in {"starting", "polling", "working", "finishing"}
      /\ ~Ended("package") /\ state["preflight"] # "working" /\ job # "complete"
  BY <1>1, AfterPreflight, Names
     DEF SetTrap, AwaitDump, Archive, TouchPackageDone, FailPackage, Ended, Orderly, Bounded
<1>3. marks \cap {"package.done", "package.failed"} = {}
  BY <1>2 DEF Orderly, MarksComeLast
<1>4. state["upload"] \notin {"working", "finishing"}
  BY <1>3 DEF Orderly, HandedOn
<1>5. /\ state' \in [Containers -> Running \cup {"waiting", "succeeded", "failed"}]
      /\ \A c \in Containers \ {"package"} : state'[c] = state[c]
  BY <1>1, Names DEF SetTrap, AwaitDump, Archive, TouchPackageDone, FailPackage, Becomes,
                     Orderly, TypeOK, Running
<1>6. TypeOK'
  BY <1>1, <1>3, <1>5, Names, ZenonT(60)
     DEF SetTrap, AwaitDump, Archive, TouchPackageDone, FailPackage, Orderly, TypeOK,
         Contents, Marks
<1>7. Bounded'
  BY <1>1, <1>2, <1>5, Names
     DEF SetTrap, AwaitDump, Archive, TouchPackageDone, FailPackage, Orderly, Bounded
<1>8. MarksComeLast'
  <2>1. marks' \cap {"plugin.done", "plugin.failed"} = marks \cap {"plugin.done", "plugin.failed"}
    BY <1>1 DEF SetTrap, AwaitDump, Archive, TouchPackageDone, FailPackage
  <2>2. marks' = marks \/ Ended("package")'
    BY <1>1, Names DEF SetTrap, AwaitDump, Archive, TouchPackageDone, FailPackage, Becomes,
                       Ended, Orderly, TypeOK
  <2>3. QED
    BY <1>3, <1>5, <2>1, <2>2, Names DEF Orderly, MarksComeLast, Ended
<1>9. HandedOn'
  <2>1. /\ state'["addon"] = state["addon"] /\ state'["upload"] = state["upload"]
        /\ UNCHANGED <<output, stored, message>>
        /\ "plugin.done" \in marks' <=> "plugin.done" \in marks
    BY <1>1, <1>5, Names DEF SetTrap, AwaitDump, Archive, TouchPackageDone, FailPackage
  <2>2. /\ state'["package"] \in {"working", "finishing"} => "plugin.done" \in marks
        /\ state'["package"] = "finishing" => archive' = "whole"
        /\ "package.done" \in marks' => archive' = "whole"
    BY <1>1, <1>2, <1>3, Names
       DEF SetTrap, AwaitDump, Archive, TouchPackageDone, FailPackage, Becomes, Orderly,
           TypeOK, HandedOn
  <2>3. QED
    BY <1>4, <2>1, <2>2 DEF Orderly, HandedOn
<1>10. QED
  BY <1>6, <1>7, <1>8, <1>9 DEF Orderly

LEMMA UploadKeepsOrder == Orderly /\ Step("upload") => Orderly'
<1> SUFFICES ASSUME Orderly, Step("upload") PROVE Orderly'
  OBVIOUS
<1>1. AwaitPackage \/ Upload \/ Summarize \/ FailUpload
  BY DEF Step, Shells
<1>2. /\ state["upload"] \in {"polling", "working", "finishing"}
      /\ state["preflight"] # "working" /\ job # "complete"
  BY <1>1, AfterPreflight, Names
     DEF AwaitPackage, Upload, Summarize, FailUpload, Orderly, Bounded
<1>3. /\ state' \in [Containers -> Running \cup {"waiting", "succeeded", "failed"}]
      /\ \A c \in Containers \ {"upload"} : state'[c] = state[c]
      /\ UNCHANGED <<marks, output, archive, job, silent, traps>>
  BY <1>1, Names DEF AwaitPackage, Upload, Summarize, FailUpload, Becomes,
                     Orderly, TypeOK, Running
<1>4. /\ message' \in [Containers -> {"none", "probe", "artifact"}]
      /\ message'["preflight"] = message["preflight"] /\ message'["upload"] # "probe"
      /\ \A c \in Shells : message'[c] = message[c]
  BY <1>1, Names DEF AwaitPackage, Upload, Summarize, FailUpload, Orderly, TypeOK, Shells
<1>5. /\ state'["upload"] \in {"working", "finishing"} => "package.done" \in marks
      /\ stored' \in {"none", "whole"}
      /\ state'["upload"] = "finishing" => stored' = "whole"
      /\ message'["upload"] = "artifact" => stored' = "whole"
      /\ state'["upload"] = "succeeded" => message'["upload"] = "artifact"
  BY <1>1, <1>2, Names
     DEF AwaitPackage, Upload, Summarize, FailUpload, Becomes, Orderly, TypeOK, HandedOn
<1>6. TypeOK'
  BY <1>3, <1>4, <1>5 DEF Orderly, TypeOK, Contents
<1>7. Bounded' /\ MarksComeLast'
  BY <1>2, <1>3, Names DEF Orderly, Bounded, MarksComeLast, Ended
<1>8. HandedOn'
  BY <1>3, <1>5, Names DEF Orderly, HandedOn
<1>9. QED
  BY <1>6, <1>7, <1>8 DEF Orderly

(* A container that is killed leaves what it has done, and no new marker.   *)
LEMMA KillKeepsOrder ==
    ASSUME Orderly, NEW c \in Containers, Kill(c) PROVE Orderly'
<1>1. /\ state' \in [Containers -> Running \cup {"waiting", "succeeded", "failed"}]
      /\ state'[c] = "failed" /\ \A d \in Containers \ {c} : state'[d] = state[d]
      /\ state[c] # "waiting" /\ job = "active"
  BY OneMoves DEF Kill, Alive, Running, Orderly, TypeOK
<1>2. TypeOK'
  BY <1>1 DEF Kill, Orderly, TypeOK
<1>3. Bounded'
  BY <1>1, Names DEF Kill, Orderly, Bounded
<1>4. MarksComeLast'
  BY <1>1, Names DEF Kill, Orderly, MarksComeLast, Ended
<1>5. HandedOn'
  BY <1>1, Names DEF Kill, Orderly, HandedOn
<1>6. QED
  BY <1>2, <1>3, <1>4, <1>5 DEF Orderly

LEMMA KubernetesKeepsOrder == Orderly /\ (EndJob \/ Deadline) => Orderly'
<1> SUFFICES ASSUME Orderly, EndJob \/ Deadline PROVE Orderly'
  OBVIOUS
<1>1. CASE EndJob
  BY <1>1 DEF EndJob, PodSucceeded, Orderly, TypeOK, Bounded, MarksComeLast, HandedOn, Ended
<1>2. CASE Deadline
  <2>1. /\ state' \in [Containers -> Running \cup {"waiting", "succeeded", "failed"}]
        /\ \A c \in Containers : state'[c] \in {"failed", state[c]}
        /\ \A c \in Containers : state'[c] # "working"
    BY <1>2 DEF Deadline, Alive, Running, Orderly, TypeOK
  <2>2. TypeOK' /\ Bounded'
    BY <1>2, <2>1, Names DEF Deadline, Orderly, TypeOK, Bounded
  <2>3. MarksComeLast'
    BY <1>2, <2>1, Names DEF Deadline, Orderly, MarksComeLast, Ended
  <2>4. HandedOn'
    BY <1>2, <2>1, Names DEF Deadline, Orderly, HandedOn
  <2>5. QED
    BY <2>2, <2>3, <2>4 DEF Orderly
<1>3. QED
  BY <1>1, <1>2

LEMMA OrderlyInvariant == Spec => []Orderly
<1>1. Orderly /\ [Next]_vars => Orderly'
  <2> SUFFICES ASSUME Orderly, [Next]_vars PROVE Orderly'
    OBVIOUS
  <2>1. CASE UNCHANGED vars
    BY <2>1 DEF vars, Orderly, TypeOK, Bounded, MarksComeLast, HandedOn, Ended
  <2>2. CASE Work \/ Dump
    <3>1. Preflight \/ Step("addon") \/ Step("package") \/ Step("upload")
      BY <2>2 DEF Work, Step, Shells
    <3>2. QED
      BY <3>1, PreflightKeepsOrder, AddonKeepsOrder, PackageKeepsOrder, UploadKeepsOrder
  <2>3. QED
    BY <2>1, <2>2, KillKeepsOrder, KubernetesKeepsOrder DEF Next
<1>2. QED
  BY OrderlyInit, <1>1, PTL DEF Spec

(* The values stay in their types, and no container says both that it is    *)
(* done and that it failed.                                                 *)
THEOREM TypeCorrect == Spec => []TypeOK
    BY OrderlyInvariant, PTL DEF Orderly

(* Whatever fails, is killed or runs out of time, what a Pod stores is the  *)
(* archive of a complete dump, and a complete Job has left its summary.     *)
THEOREM CompleteDumpsOnly == Spec => []StoresWhole
<1>1. Orderly => StoresWhole
  BY Names DEF Orderly, Bounded, HandedOn, StoresWhole, Summary, Ended
<1>2. QED
  BY <1>1, OrderlyInvariant, PTL
=============================================================================
