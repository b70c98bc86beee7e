---------------------------- MODULE ImportPaths ----------------------------
(***************************************************************************)
(* The path of an artifact that a RestoreJob imports, relative to the root *)
(* of a storage.  A path is the sequence of its segments, "" standing for  *)
(* nothing between two slashes; an absolute path begins with "".  Slashes  *)
(* and backslashes are the same separator.                                 *)
(***************************************************************************)
EXTENDS Integers, Sequences, FiniteSets

IsAbs(p) == Len(p) > 1 /\ p[1] = ""

(* Mutant of Walked: a ".." takes away whatever precedes it. *)
WalkedPopping(before, segment) ==
    CASE segment \in {"", "."} -> before
      [] segment = ".." /\ before # <<>> -> SubSeq(before, 1, Len(before) - 1)
      [] OTHER -> Append(before, segment)

(* One more segment.  What leads above the start cannot be taken back.      *)
Walked(before, segment) ==
    LET Above == before = <<>> \/ before[Len(before)] = ".."
    IN CASE segment \in {"", "."} -> before
         [] segment = ".." /\ ~Above -> SubSeq(before, 1, Len(before) - 1)
         [] OTHER -> Append(before, segment)

(* path.Clean of a relative path; "." is the empty sequence. *)
Clean(p) ==
    LET cleaned[i \in 0..Len(p)] ==
            IF i = 0 THEN <<>> ELSE Walked(cleaned[i - 1], p[i])
    IN cleaned[Len(p)]

(* RestoreImportSource.NormalizedPath *)
NormalizedPath(p) == Clean(p)

(* RestoreImportSource.ValidateBasic, as far as the path goes. *)
AcceptsPath(p) ==
    /\ p # <<"">>
    /\ ~IsAbs(p)
    /\ NormalizedPath(p) # <<>>
    /\ NormalizedPath(p)[1] # ".."

----------------------------------------------------------------------------
(* Where one stands after the first i segments, in directories below the   *)
(* root, and the segments one is still inside of at the end.               *)
Depth(p, i) ==
    Cardinality({k \in 1..i : p[k] \notin {"", ".", ".."}})
        - Cardinality({k \in 1..i : p[k] = ".."})

Kept(p) ==
    {i \in DOMAIN p : /\ p[i] \notin {"", ".", ".."}
                      /\ \A k \in i..Len(p) : Depth(p, k) >= Depth(p, i)}

(* An import is accepted exactly when its path, walked from the root of the *)
(* storage, never leaves the root and ends below it; what it is normalised  *)
(* to, and the restore then downloads from, is the walk without its         *)
(* detours.                                                                *)
StaysInside(p) ==
    LET inside == (\A i \in DOMAIN p : Depth(p, i) >= 0) /\ Depth(p, Len(p)) > 0
        At(k)  == CHOOSE i \in Kept(p) : Cardinality({j \in Kept(p) : j < i}) = k - 1
    IN /\ AcceptsPath(p) <=> inside /\ ~IsAbs(p)
       /\ AcceptsPath(p) =>
             NormalizedPath(p) = [k \in 1..Cardinality(Kept(p)) |-> p[At(k)]]
=============================================================================
