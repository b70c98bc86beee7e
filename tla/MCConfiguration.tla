-------------------------- MODULE MCConfiguration --------------------------
(* Configuration with two storages that share a label; the names of Naming  *)
(* and the paths of ImportPaths over all short inputs and some long ones;   *)
(* the environments of Rendering over keys that share variables, or look    *)
(* like those of a storage.                                                 *)
EXTENDS Configuration, ImportPaths, Rendering, TLC

CONSTANT MaxSegments     \* of a path

ASSUME MaxSegmentsAssumption == MaxSegments \in Nat

MCShortHash(name) == <<"#", ToString(name)>>

Letters == {"a", "b"}

(* All names of up to three characters, and some around the bounds. *)
MCNames ==
    {n \in UNION {[1..k -> Letters \cup {"-", "."}] : k \in 1..3} :
        n[1] \in Letters /\ Last(n) \in Letters}
    \cup {<<"a", "-", "-", "b">>, <<"a", "b", ".", "a", "a">>,
          <<"a", ".", "b", ".", "a", ".", "b", ".", "a">>,
          <<"a", ".", "b", ".", "a", ".", "b", ".", "b">>,
          <<"a", ".", "b", ".", "a", ".", "b", ".", "b", ".", "b">>}

MCBackup   == <<"b">>
MCRestore  == <<"r">>
MCSnapshot == <<"s">>
MCCleanup  == <<"c">>
MCDefault  == <<"d">>

ASSUME MCHashesAssumption == HashesTellApart(MCNames)

Plain  == <<"a", "-", "b">>
Dotted == <<"a", ".", "b">>
MCStorages == {Plain, Dotted}
Mysql  == <<"a">>
MCAddons == {Mysql}
MCSources == {Mysql}
MCRetentions == {Mysql}

MCDeployed == {<<"BackupAddon", Mysql>>, <<"BackupSource", Mysql>>,
               <<"BackupStorage", Dotted>>, <<"RetentionPolicy", Mysql>>}

MCEditable == {<<"BackupAddon", Mysql>>, <<"BackupStorage", Plain>>}

Template(image) == [image |-> image]

SourceSpec(addon, paused) ==
    [addonRef |-> addon, targetRef |-> None, host |-> "db", serviceRef |-> None,
     secretRefs |-> <<"user", "password">>, paused |-> paused]

MCSpecsOf ==
    [kind \in {"BackupAddon", "BackupSource", "BackupStorage", "RetentionPolicy"} |->
       CASE kind = "BackupAddon" ->
              {[backupTemplate |-> Template("mysqldump"), restoreTemplate |-> None,
                parameters |-> <<>>]}
         [] kind = "BackupSource" -> {SourceSpec(Mysql, FALSE), SourceSpec(Mysql, TRUE)}
         [] kind = "BackupStorage" ->
              {[type |-> "nfs", nfs |-> [server |-> "nas", path |-> path], minio |-> None]
                 : path \in {"", "/backups"}}
         [] kind = "RetentionPolicy" ->
              {[successfulSnapshots |-> 2, failedExecutions |-> 0]}]

Run(storage) == [source |-> Mysql, storage |-> storage, policy |-> storage]
MCRuns == {Run(Plain), Run(Dotted)}
MCRetentionOf == [p \in {Plain} |-> Mysql]  @@ [p \in {Dotted} |-> Dotted]

MCUpperOf == [c \in {"a"} |-> "A"]

Dashed == <<"a", "-", "A">>
Underscore == <<"a", "_", "a">>
LikeStorage == DP(<<"NFS", "PATH">>)
MCSortedKeys == <<LikeStorage, Dashed, Underscore>>

ASSUME MCKeysAssumption == Range(MCSortedKeys) \subseteq Range(SortedKeys)

Assigned(keys, value) ==
    UNION {[set -> {value}] : set \in SUBSET keys}

Ref(name, value) == [name |-> name, ref |-> value]

Refs(value) ==
    {<<>>, <<Ref(LikeStorage, value)>>, <<Ref(Dashed, value), Ref(Underscore, value)>>,
     <<Ref(Underscore, value)>>}

Endpoint(value, service, password) ==
    [host |-> value, service |-> service, password |-> password]

MCRenderedSources ==
    [endpoint : {Endpoint("source", None, "source"), Endpoint("source", "source", None)},
     secretRefs : Refs("source"), targetRef : {"source"},
     parameters : Assigned(Range(MCSortedKeys), "source")]

MCRenderedRestores ==
    [endpoint : {None, Endpoint("job", None, None), Endpoint("job", "job", "job")},
     secretRefs : Refs("job"), targetRef : {None, "job"},
     parameters : Assigned({LikeStorage, Underscore}, "job")]

StorageOf(type, access) ==
    [type |-> type, server |-> "server", path |-> "path", prefix |-> "", access |-> access]
MCRenderedStorages == {StorageOf("nfs", None), StorageOf("minio", "key")}

MCTemplateEnvs ==
    {<<>>, <<Variable(LikeStorage, "addon"), Variable(DP(<<"BACKEND", "PATH">>), "addon"),
             Variable(DP(<<"SOURCE", "HOST">>), "addon")>>}

(* The variables of a backup itself, and of the artifact a restore is given. *)
MCExecutionEnv ==
    <<Variable(DP(<<"SERIES">>), "series"), Variable(DP(<<"BACKEND", "PATH">>), "backend"),
      Variable(DP(<<"KEEP", "LAST">>), 3)>>
MCArtifactEnv ==
    <<Variable(DP(<<"BACKEND", "PATH">>), "backend"),
      Variable(DP(<<"ARTIFACT", "PATH">>), "artifact")>>

MCPaths == UNION {[1..n -> {"", ".", "..", "a", "b"}] : n \in 1..MaxSegments}

----------------------------------------------------------------------------
(* Before anything happens, the rules that do not depend on the state are   *)
(* asked about one input at a time, and forget it.                         *)

VARIABLE input

Inputs ==
    [names : {MCNames}] \cup [path : MCPaths]
      \cup [source : MCRenderedSources, storage : MCRenderedStorages, template : MCTemplateEnvs]

MCInit == Init /\ input = <<>>

Ask == Init /\ input = <<>> /\ input' \in Inputs /\ UNCHANGED vars

Forget == input # <<>> /\ input' = <<>> /\ UNCHANGED vars

Act == input = <<>> /\ Next /\ UNCHANGED input

MCSpec == MCInit /\ [][Ask \/ Forget \/ Act]_<<vars, input>> /\ Fairness

Asked(kind) == kind \in DOMAIN input

(* Shortening mixes nothing up: objects share a CronJob, a native Job, a    *)
(* Snapshot, a label or a backend directory when the words of their names   *)
(* agree, in which case they do, and never otherwise (naming.go).  This is  *)
(* less than a CronJob for every backend: see ToldApart.                    *)
NamesTellApart == Asked("names") => ToldApart(input.names)

(* An import is accepted exactly when its path stays below the root of the  *)
(* storage, and is then normalised to the same place (restorejob_types.go,  *)
(* validation.go): see StaysInside.                                        *)
ImportsStayInside == Asked("path") => StaysInside(input.path)

(* The containers of a backup and of any restore of the source see the      *)
(* storage, the artifact, the endpoint, the parameters and the secrets they *)
(* are to see, and no mixture of two (runtime_helpers.go): see              *)
(* BackupAsAsked and RestoreAsAsked.                                        *)
RenderedAsAsked ==
    Asked("source") =>
      /\ BackupAsAsked(input.source, input.storage, input.template, MCExecutionEnv)
      /\ \A job \in MCRenderedRestores :
            RestoreAsAsked(input.source, job, input.storage, input.template, MCArtifactEnv)
=============================================================================
