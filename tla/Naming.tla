------------------------------- MODULE Naming -------------------------------
(***************************************************************************)
(* The names the operator gives to CronJobs, native Jobs, Snapshots and    *)
(* backend directories, and the labels by which it finds them again.  All  *)
(* of them are built from the names of the users' objects, which may be    *)
(* longer than a label and may hold dots.                                  *)
(*                                                                         *)
(* A name is a sequence of characters.  Upper case letters and blanks are  *)
(* left out: Kubernetes rejects them in the names of objects.              *)
(***************************************************************************)
EXTENDS Naturals, SequencesExt

CONSTANTS
    Separators,        \* the characters that are neither letters nor digits
    MaxCronJobName,    \* 52 in the code, scaled down
    MaxName,           \* 63: Jobs, Snapshots and label values
    HashLength,        \* 8
    ShortHash(_),      \* the first characters of a SHA-1 in hexadecimal
    BackupWord,        \* "backup"
    RestoreWord,       \* "restore"
    SnapshotWord,      \* "snapshot"
    CleanupWord,       \* "cleanup"
    DefaultName        \* "dp"

ASSUME NamingAssumption ==
    /\ "-" \in Separators
    /\ HashLength \in Nat \ {0}
    /\ MaxCronJobName \in Nat /\ MaxCronJobName > HashLength + 1
    /\ MaxName \in Nat /\ MaxName >= MaxCronJobName
    /\ DefaultName \in Seq(Range(DefaultName)) /\ DefaultName # <<>>
    /\ Range(DefaultName) \cap Separators = {}
    /\ \A word \in {BackupWord, RestoreWord, SnapshotWord, CleanupWord} : word \in Seq(Range(word))

IsLetter(c) == c \notin Separators

----------------------------------------------------------------------------
(* naming.go *)

(* strings.Trim(name, "-") *)
TrimHyphens(name) ==
    LET letters == {i \in DOMAIN name : name[i] # "-"}
        first   == CHOOSE i \in letters : \A j \in letters : i <= j
        last    == CHOOSE i \in letters : \A j \in letters : j <= i
    IN IF letters = {} THEN <<>> ELSE SubSeq(name, first, last)

OrDefault(name) == IF name = <<>> THEN DefaultName ELSE name

(* Letters are kept, a run of anything else becomes one hyphen.            *)
Written(before, c) ==
    IF IsLetter(c) THEN Append(before, c)
    ELSE IF before = <<>> \/ Last(before) = "-" THEN before
    ELSE Append(before, "-")

SanitizeName(value) ==
    LET written[i \in 0..Len(value)] ==
            IF i = 0 THEN <<>> ELSE Written(written[i - 1], value[i])
    IN OrDefault(TrimHyphens(written[Len(value)]))

(* strings.Join(parts, "-") *)
Hyphenated(parts) ==
    LET joined[i \in 1..Len(parts)] ==
            IF i = 1 THEN parts[1] ELSE joined[i - 1] \o <<"-">> \o parts[i]
    IN joined[Len(parts)]

Joined(parts) == Hyphenated([i \in DOMAIN parts |-> SanitizeName(parts[i])])

(* Mutant of BuildDNSLabelName: a long name is only cut. *)
BuildByCutting(maxLength, parts) ==
    LET name == Joined(parts)
    IN IF Len(name) <= maxLength THEN name
       ELSE TrimHyphens(SubSeq(name, 1, maxLength))

(* A name that is too long keeps a prefix, and the hash of the whole.      *)
Shortened(maxLength, name) ==
    OrDefault(TrimHyphens(SubSeq(name, 1, maxLength - HashLength - 1)))
    \o <<"-">> \o ShortHash(name)

BuildDNSLabelName(maxLength, parts) ==
    LET name == Joined(parts)
    IN IF Len(name) <= maxLength THEN name ELSE Shortened(maxLength, name)

BuildCronJobName(parts)  == BuildDNSLabelName(MaxCronJobName, parts)
BuildJobName(parts)      == BuildDNSLabelName(MaxName, parts)
BuildLabelValue(part)    == BuildDNSLabelName(MaxName, <<part>>)
BuildSnapshotName(parts) == BuildDNSLabelName(MaxName, parts)

----------------------------------------------------------------------------
(* Who is named how *)

BackupJobName(backupJob) == BuildJobName(<<backupJob, BackupWord>>)

CronJobParts(names)  == {<<policy, storage, BackupWord>> : policy \in names, storage \in names}
JobParts(names)      == {<<n, word>> : n \in names, word \in {BackupWord, RestoreWord}}
SnapshotParts(names) ==
    {<<BackupJobName(backupJob), storage, SnapshotWord>> : backupJob \in names, storage \in names}
CleanupParts(names)  ==
    {<<BuildSnapshotName(parts), CleanupWord>> : parts \in SnapshotParts(names)}
LabelParts(names)    == {<<n>> : n \in names}

(* An execution of a policy, or one of a BackupJob without a policy.  All   *)
(* of them are in one namespace.                                           *)
Executions(names) ==
    [kind : {"policy", "manual"}, source : names, name : names, storage : names]

(* Where an execution's artifacts are kept, and which series they form.     *)
BackendPath(e) ==
    <<BuildLabelValue(e.source), e.kind, BuildLabelValue(e.name), BuildLabelValue(e.storage)>>

----------------------------------------------------------------------------
(* What the names are to be *)

(* The longest runs of letters of a name, each with its first and its last  *)
(* position.                                                               *)
LetterRuns(name) ==
    LET Boundary(i) == i = 0 \/ i > Len(name) \/ ~IsLetter(name[i])
    IN {r \in (DOMAIN name) \X (DOMAIN name) :
          /\ r[1] <= r[2]
          /\ \A i \in r[1]..r[2] : IsLetter(name[i])
          /\ Boundary(r[1] - 1) /\ Boundary(r[2] + 1)}

(* The words of a name: what its runs of letters say, from left to right.   *)
Words(name) ==
    LET runs    == LetterRuns(name)
        Nth(k)  == {r \in runs : Cardinality({s \in runs : s[1] < r[1]}) = k - 1}
        Said(k) == {SubSeq(name, r[1], r[2]) : r \in Nth(k)}
    IN IF runs = {} THEN <<DefaultName>>
       ELSE [k \in 1..Cardinality(runs) |-> CHOOSE word \in Said(k) : TRUE]

AllWords(parts) ==
    LET joined[i \in 0..Len(parts)] ==
            IF i = 0 THEN <<>> ELSE joined[i - 1] \o Words(parts[i])
    IN joined[Len(parts)]

(* A DNS label, as Kubernetes wants it. *)
IsLabel(name) ==
    /\ Len(name) \in 1..MaxName
    /\ \A i \in DOMAIN name : IsLetter(name[i]) \/ name[i] = "-"
    /\ name[1] # "-" /\ Last(name) # "-"

(* A name that stands for itself in a label: its words are separated by     *)
(* single hyphens, and it is short enough.                                  *)
IsPlain(name) ==
    /\ IsLabel(name)
    /\ \A i \in 1..(Len(name) - 1) : <<name[i], name[i + 1]>> # <<"-", "-">>

Entry(name, parts) == [name |-> name, words |-> AllWords(parts)]

(* Entries have one name exactly when they have the same words. *)
OneToOne(entries) ==
    /\ Cardinality({b.name : b \in entries}) = Cardinality(entries)
    /\ Cardinality({b.words : b \in entries}) = Cardinality(entries)

CronJobs(names)    == {Entry(BuildCronJobName(parts), parts) : parts \in CronJobParts(names)}
Jobs(names)        == {Entry(BuildJobName(parts), parts) : parts \in JobParts(names)}
Snapshots(names)   == {Entry(BuildSnapshotName(parts), parts) : parts \in SnapshotParts(names)}
Cleanups(names)    == {Entry(BuildJobName(parts), parts) : parts \in CleanupParts(names)}
LabelValues(names) == {Entry(BuildLabelValue(n), <<n>>) : n \in names}

Backends(names) ==
    {[name  |-> BackendPath(e),
      words |-> <<Words(e.source), e.kind, Words(e.name), Words(e.storage)>>]
       : e \in Executions({n \in names : Len(n) = 3})}

(* Which names are shared.  Two executions share a CronJob exactly when the *)
(* words of the policy followed by those of the storage are the same, and   *)
(* likewise for native Jobs, Snapshots and labels; two share a backend      *)
(* directory only when each part has the same words.  So the storages a.b   *)
(* and a-b of one policy share a CronJob, and so do, plain names all of     *)
(* them, the policy a with the storage b-c and the policy a-b with the      *)
(* storage c, although README.md:98 gives every backend a CronJob of its    *)
(* own; beyond that no two names are mixed up, however long they are.       *)
(* Kubernetes accepts whatever is built; and a name that is plain, and no   *)
(* other, is a label of itself, which JobObserver's lookups rest on.        *)
ToldApart(names) ==
    LET cronJobs  == CronJobs(names)
        jobs      == Jobs(names)
        snapshots == Snapshots(names)
        cleanups  == Cleanups(names)
    IN /\ \A entries \in {cronJobs, jobs, snapshots, cleanups, LabelValues(names), Backends(names)} :
             OneToOne(entries)
       /\ \A b \in jobs \cup snapshots \cup cleanups : IsLabel(b.name)
       /\ \A b \in cronJobs : IsLabel(b.name) /\ Len(b.name) <= MaxCronJobName
       /\ \A n \in names : BuildLabelValue(n) = n <=> IsPlain(n)

(* Of the names that are too long, each has a hash of its own, and nobody   *)
(* calls an object what another name is shortened to.                       *)
HashesTell(maxLength, lists) ==
    LET built == {Joined(parts) : parts \in lists}
        long  == {name \in built : Len(name) > maxLength}
    IN /\ \A name \in long :
             /\ ShortHash(name) \in Seq(Range(ShortHash(name)))
             /\ Len(ShortHash(name)) = HashLength
             /\ Range(ShortHash(name)) \cap Separators = {}
       /\ IsInjective([name \in long |-> ShortHash(name)])
       /\ {Shortened(maxLength, name) : name \in long} \cap (built \ long) = {}

HashesTellApart(names) ==
    /\ HashesTell(MaxCronJobName, CronJobParts(names))
    /\ HashesTell(MaxName, JobParts(names))
    /\ HashesTell(MaxName, SnapshotParts(names))
    /\ HashesTell(MaxName, CleanupParts(names))
    /\ HashesTell(MaxName, LabelParts(names))
=============================================================================
