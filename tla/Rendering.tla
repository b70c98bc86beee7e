----------------------------- MODULE Rendering -----------------------------
(***************************************************************************)
(* What the containers of a backup's and of a restore's Pod are told: their *)
(* environment, put together from the storage, the source, the RestoreJob  *)
(* that may override the source, and the addon's template.                 *)
(*                                                                         *)
(* A text that users choose, and the name of a variable, is a sequence of  *)
(* letters, digits, "_" and others; a longer word may stand for a letter.  *)
(* An environment is a sequence of variables, of which a container sees,   *)
(* for each name, the last one.                                            *)
(***************************************************************************)
EXTENDS Validation, SequencesExt

CONSTANTS
    Others,            \* the characters that are neither letters nor digits
    UpperOf,           \* each lower case letter's upper case
    SortedKeys         \* the keys of parameters, in the order of sort.Strings

ASSUME RenderingAssumption ==
    /\ SortedKeys \in Seq(Range(SortedKeys))
    /\ \A key \in Range(SortedKeys) : key \in Seq(Range(key))

Variable(name, value) == [name |-> name, value |-> value]

(* "DP_" and the words, joined by "_". *)
DP(words) ==
    [i \in 1 .. 2 * Len(words) + 1 |->
       IF i = 1 THEN "DP" ELSE IF i % 2 = 0 THEN "_" ELSE words[(i - 1) \div 2]]

----------------------------------------------------------------------------
(* Environments *)

(* Letters in upper case, a run of anything else as one "_".                *)
Keyed(before, c) ==
    IF c \notin Others THEN Append(before, IF c \in DOMAIN UpperOf THEN UpperOf[c] ELSE c)
    ELSE IF Last(before) = "_" THEN before ELSE Append(before, "_")

(* What is written of raw after the prefix, without a "_" at the end.       *)
EnvKey(prefix, raw) ==
    LET keyed[i \in 0..Len(raw)] ==
            IF i = 0 THEN Append(prefix, "_") ELSE Keyed(keyed[i - 1], raw[i])
        name == keyed[Len(raw)]
    IN IF Last(name) = "_" THEN Front(name) ELSE name

Positions(env, name) == {i \in DOMAIN env : env[i].name = name}

LastOf(positions) == CHOOSE i \in positions : \A j \in positions : j <= i

(* A variable replaces the last one of its name, or is appended.           *)
Put(env, v) ==
    LET at == Positions(env, v.name)
    IN IF at = {} THEN Append(env, v) ELSE [env EXCEPT ![LastOf(at)] = v]

MergeEnvVars(base, overlay) ==
    LET merged[i \in 0..Len(overlay)] ==
            IF i = 0 THEN base ELSE Put(merged[i - 1], overlay[i])
    IN merged[Len(overlay)]

(* Kubernetes *)
Sees(env, name) ==
    LET at == Positions(env, name) IN IF at = {} THEN None ELSE env[LastOf(at)].value

SecretEnv(name, ref) == IF ref = None THEN <<>> ELSE <<Variable(name, ref)>>

StorageEnv(storage) ==
    <<Variable(DP(<<"STORAGE", "TYPE">>), storage.type)>> \o
    IF storage.type = "nfs"
    THEN <<Variable(DP(<<"NFS", "SERVER">>), storage.server),
           Variable(DP(<<"NFS", "PATH">>), storage.path)>>
    ELSE <<Variable(DP(<<"MINIO", "ENDPOINT">>), storage.server),
           Variable(DP(<<"MINIO", "BUCKET">>), storage.path),
           Variable(DP(<<"MINIO", "PREFIX">>), storage.prefix)>>
         \o SecretEnv(DP(<<"MINIO", "ACCESS", "KEY">>), storage.access)

EndpointEnv(endpoint) ==
    <<Variable(DP(<<"SOURCE", "HOST">>), endpoint.host)>>
    \o (IF endpoint.service = None THEN <<>>
        ELSE <<Variable(DP(<<"SOURCE", "SERVICE", "NAME">>), endpoint.service)>>)
    \o SecretEnv(DP(<<"SOURCE", "PASSWORD">>), endpoint.password)

SecretKey(name) == EnvKey(DP(<<"SECRET">>), name)
ParameterKey(key) == EnvKey(DP(<<"PARAM">>), key)

SecretRefsEnv(secretRefs) ==
    FlattenSeq([i \in DOMAIN secretRefs |->
                  SecretEnv(SecretKey(secretRefs[i].name), secretRefs[i].ref)])

SourceEnv(endpoint, secretRefs) == EndpointEnv(endpoint) \o SecretRefsEnv(secretRefs)

TargetEnv(target) ==
    IF target = None THEN <<>> ELSE <<Variable(DP(<<"TARGET", "NAME">>), target)>>

ParameterEnv(parameters) ==
    FlattenSeq([i \in DOMAIN SortedKeys |->
                  LET k == SortedKeys[i]
                  IN IF k \in DOMAIN parameters
                     THEN <<Variable(ParameterKey(k), parameters[k])>> ELSE <<>>])

----------------------------------------------------------------------------
(* Backups *)

BackupEnv(source, execution) ==
    SourceEnv(source.endpoint, source.secretRefs) \o TargetEnv(source.targetRef)
    \o <<Variable(DP(<<"OPERATION">>), "backup")>> \o execution

BackupPod(source, storage, template, execution) ==
    LET env        == MergeEnvVars(BackupEnv(source, execution), ParameterEnv(source.parameters))
        storageEnv == MergeEnvVars(StorageEnv(storage), env)
    IN [preflight |-> storageEnv, addon |-> MergeEnvVars(env, template),
        package |-> env, upload |-> storageEnv]

----------------------------------------------------------------------------
(* Restores *)

(* Mutant of RestoreEndpoint: what a RestoreJob leaves out is the source's. *)
RestoreEndpointByField(source, job) ==
    IF job.endpoint = None THEN source.endpoint
    ELSE [f \in DOMAIN job.endpoint |->
            IF job.endpoint[f] = None THEN source.endpoint[f] ELSE job.endpoint[f]]

RestoreEndpoint(source, job) ==
    IF job.endpoint # None THEN job.endpoint ELSE source.endpoint

(* By name: a RestoreJob's reference takes the place of the source's.       *)
RestoreSecretRefs(source, job) ==
    MergeEnvVars(source.secretRefs, job.secretRefs)

RestoreParameters(source, job) ==
    [k \in DOMAIN source.parameters \cup DOMAIN job.parameters |->
       IF k \in DOMAIN job.parameters THEN job.parameters[k] ELSE source.parameters[k]]

RestoreTargetRef(source, job) ==
    IF job.targetRef # None THEN job.targetRef ELSE source.targetRef

RestoreEnv(source, job, artifact) ==
    SourceEnv(RestoreEndpoint(source, job), RestoreSecretRefs(source, job))
    \o TargetEnv(RestoreTargetRef(source, job))
    \o ParameterEnv(RestoreParameters(source, job))
    \o <<Variable(DP(<<"OPERATION">>), "restore")>> \o artifact

RestorePod(source, job, storage, template, artifact) ==
    LET env        == RestoreEnv(source, job, artifact)
        storageEnv == MergeEnvVars(StorageEnv(storage), env)
    IN [preflight |-> storageEnv, download |-> storageEnv,
        addon |-> MergeEnvVars(env, template)]

----------------------------------------------------------------------------
(* What containers are to see *)

(* What told says is what env says, but for variables that template sets.   *)
SeesAll(env, told, template) ==
    \A i \in DOMAIN told :
        \/ Sees(env, told[i].name) = Sees(told, told[i].name)
        \/ Positions(template, told[i].name) # {}

Alone(k, keys, Key(_)) == \A other \in keys \ {k} : Key(other) # Key(k)

EndpointNames ==
    {DP(<<"SOURCE", "HOST">>), DP(<<"SOURCE", "SERVICE", "NAME">>), DP(<<"SOURCE", "PASSWORD">>)}

NamesOf(refs) == {refs[i].name : i \in DOMAIN refs}

(* Whatever names users choose for parameters and secrets, and whatever an  *)
(* addon's template sets, the containers that read and write a storage see  *)
(* the storage's own settings and the path that was decided for them, in    *)
(* the variables of an execution or of an artifact.                        *)
BackupAsAsked(source, storage, template, execution) ==
    LET backup == BackupPod(source, storage, template, execution)
    IN /\ \A env \in {backup.preflight, backup.upload} :
             SeesAll(env, StorageEnv(storage) \o execution, <<>>)
       /\ SeesAll(backup.package, execution, <<>>)

(* A restore's addon sees one endpoint, the RestoreJob's if it has one, with *)
(* nothing of the other; and it sees each parameter and secret of the       *)
(* RestoreJob, unless another key has the same variable.  Without overrides *)
(* it sees the source as the backup saw it.  Only the template has          *)
(* precedence, in the addon.                                               *)
RestoreAsAsked(source, job, storage, template, artifact) ==
    LET restore  == RestorePod(source, job, storage, template, artifact)
        backup   == BackupPod(source, storage, template, <<>>)
        endpoint == EndpointEnv(IF job.endpoint = None THEN source.endpoint ELSE job.endpoint)
        keys     == DOMAIN source.parameters \cup DOMAIN job.parameters
        secrets  == NamesOf(source.secretRefs) \cup NamesOf(job.secretRefs)
        Wanted(name) == Positions(template, name) = {}
    IN /\ \A env \in {restore.preflight, restore.download} :
             SeesAll(env, StorageEnv(storage) \o artifact, <<>>)
       /\ \A name \in EndpointNames :
             Wanted(name) => Sees(restore.addon, name) = Sees(endpoint, name)
       /\ \A k \in DOMAIN job.parameters :
             Alone(k, keys, ParameterKey) /\ Wanted(ParameterKey(k)) =>
                Sees(restore.addon, ParameterKey(k)) = job.parameters[k]
       /\ \A i \in DOMAIN job.secretRefs :
             LET s == job.secretRefs[i] IN
             Alone(s.name, secrets, SecretKey) /\ Wanted(SecretKey(s.name)) =>
                Sees(restore.addon, SecretKey(s.name)) = s.ref
       /\ (/\ job.endpoint = None /\ job.targetRef = None
           /\ job.parameters = <<>> /\ job.secretRefs = <<>>) =>
             /\ SeesAll(restore.addon,
                        SourceEnv(source.endpoint, source.secretRefs)
                           \o TargetEnv(source.targetRef), template)
             /\ \A k \in keys :
                   Sees(restore.addon, ParameterKey(k)) = Sees(backup.addon, ParameterKey(k))
=============================================================================
