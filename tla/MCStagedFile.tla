----------------------------- MODULE MCStagedFile -----------------------------
(***************************************************************************)
(* An instance of StagedFile for TLC: the staging root /r, or /r/, with a file and  *)
(* a directory; a FIFO, links out of the tree and a second file that may   *)
(* take the place of either; paths of up to four names.                    *)
(***************************************************************************)
EXTENDS StagedFile

Inodes == {"top", "sub", "f", "g", "fifo", "toFile", "toDir", "out", "secret"}

KindOf == [i \in Inodes |->
    CASE i \in {"top", "sub", "out"} -> "dir"
      [] i \in {"f", "g", "secret"} -> "file"
      [] i = "fifo" -> "fifo"
      [] i \in {"toFile", "toDir"} -> "link"]

TargetOf == [i \in {"toFile", "toDir"} |-> IF i = "toFile" THEN "secret" ELSE "out"]

StartTree == [e \in {"top", "sub", "out"} \X {"a", "s"} |->
    CASE e = <<"top", "a">> -> "f"
      [] e = <<"top", "s">> -> "sub"
      [] e = <<"sub", "a">> -> "g"
      [] e = <<"out", "a">> -> "secret"
      [] OTHER -> None]

StartLength == [i \in {"f", "g", "secret"} |-> IF i = "f" THEN 2 ELSE 1]

\* A slash after the root makes every absolute path one outside of it.
RootPaths == {Absolute(<<"r">>), Absolute(<<"r", "">>)}

\* A path has an empty name only for a slash after another name.
Paths(names, n) == {p \in UNION {[1..k -> names] : k \in 1..n} :
                       \A k \in DOMAIN p : p[k] = "" => k = Len(p) /\ k > 1}

RequestedPaths ==
    {Relative(p) : p \in {<<>>} \cup Paths({"a", "s", ".", "..", ""}, 3)} \cup
    {Absolute(p) : p \in {<<>>} \cup Paths({"a", "r", ".", "..", ""}, 4)}
===============================================================================
