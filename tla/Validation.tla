----------------------------- MODULE Validation -----------------------------
(***************************************************************************)
(* What ValidateBasic accepts (validation.go): the fields each rule reads, *)
(* after strings.TrimSpace.  A text is "" or not; a list of references is  *)
(* the sequence of their names; an optional part is None when left out.    *)
(***************************************************************************)
EXTENDS Integers, Sequences

CONSTANT None

(* Two entries of one name; entries without a name do not count. *)
HasDuplicates(names) ==
    \E i, j \in DOMAIN names : i < j /\ names[i] = names[j] /\ names[i] # ""

ValidTemplate(template) == template.image # ""

ValidAddon(spec) ==
    /\ ValidTemplate(spec.backupTemplate)
    /\ spec.restoreTemplate # None => ValidTemplate(spec.restoreTemplate)
    /\ ~HasDuplicates(spec.parameters)

ValidSource(spec) ==
    /\ spec.addonRef # ""
    /\ spec.targetRef # None \/ spec.host # "" \/ spec.serviceRef # None
    /\ ~HasDuplicates(spec.secretRefs)

ValidStorage(spec) ==
    \/ /\ spec.type = "nfs" /\ spec.nfs # None
       /\ spec.nfs.server # "" /\ spec.nfs.path # ""
    \/ /\ spec.type = "minio" /\ spec.minio # None
       /\ spec.minio.endpoint # "" /\ spec.minio.bucket # ""

ValidRetention(spec) ==
    /\ spec.successfulSnapshots >= 0
    /\ spec.failedExecutions >= 0

ValidEndpoint(spec) ==
    /\ spec.url \notin {"", "unparsable"}
    /\ ~HasDuplicates(spec.secretHeaders)
    /\ spec.timeoutSeconds >= 0

(* The webhook-free validation of the five kinds that only configure.       *)
Valid(kind, spec) ==
    CASE kind = "BackupAddon"          -> ValidAddon(spec)
      [] kind = "BackupSource"         -> ValidSource(spec)
      [] kind = "BackupStorage"        -> ValidStorage(spec)
      [] kind = "RetentionPolicy"      -> ValidRetention(spec)
      [] kind = "NotificationEndpoint" -> ValidEndpoint(spec)
=============================================================================
