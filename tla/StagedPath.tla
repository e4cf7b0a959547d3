------------------------------ MODULE StagedPath ------------------------------
(***************************************************************************)
(* From the path of a request to a path below the staging root:            *)
(* staged_relative_path of the example service and relative_staged_path of *)
(* the orchestrator.                                                       *)
(*                                                                         *)
(* A path is what std::filesystem::path iterates over: whether it begins   *)
(* with the root directory, and its names; an empty last name stands for a *)
(* trailing slash.                                                         *)
(***************************************************************************)
EXTENDS Naturals, Sequences, SequencesExt

Relative(names) == [absolute |-> FALSE, names |-> names]
Absolute(names) == [absolute |-> TRUE, names |-> names]

\* The values of std::filesystem::path.
IsPath(path) == path \in [absolute : BOOLEAN, names : Seq(STRING)]

\* What the names of an accepted path never are.
Refused == <<"..">>

\* path_component_is_safe
Safe(name) == name \notin {"", ".", ".."}

\* The names before a name, and what is left of them and it.
Put(absolute, names, name) ==
    CASE name \in {"", "."} -> names
      [] name = ".." /\ names # <<>> /\ Last(names) # ".." -> Front(names)
      [] name = ".." /\ names = <<>> /\ absolute -> names
      [] OTHER -> Append(names, name)

Kept(path) == FoldLeft(LAMBDA names, name : Put(path.absolute, names, name), <<>>, path.names)

\* std::filesystem::path::lexically_normal: "." and empty names go, ".." takes
\* the name before it along and cannot leave the root directory; where a last
\* name went, a trailing slash stays.
Normal(path) ==
    LET names == Kept(path)
        slash == path.names # <<>> /\ ~Safe(Last(path.names))
    IN  IF path.names = <<>> THEN path
        ELSE IF names = <<>> THEN [path EXCEPT !.names = IF path.absolute THEN <<>> ELSE <<".">>]
        ELSE [path EXCEPT !.names = IF slash /\ Last(names) # ".." THEN Append(names, "") ELSE names]

\* A relative path is below the root as it stands, an absolute one if its names
\* begin with all of the root's.
Within(root, path) ==
    path.absolute => root.absolute /\ IsPrefix(Normal(root).names, path.names)

Below(root, path) ==
    IF path.absolute
    THEN SubSeq(path.names, Len(Normal(root).names) + 1, Len(path.names))
    ELSE path.names

\* Mutant: the names are looked at before the path is normalised.
StagedRelativePath_Early(root, path) ==
    LET names == Below(root, Normal(path))
    IN  IF ~Within(root, Normal(path)) \/ names = <<>> \/ ".." = Head(path.names)
        THEN Refused
        ELSE names

\* staged_relative_path of the service: the names to open one after the other.
StagedRelativePath(root, path) ==
    LET names == Below(root, Normal(path))
    IN  IF ~Within(root, Normal(path)) \/ names = <<>> \/ \E k \in DOMAIN names : ~Safe(names[k])
        THEN Refused
        ELSE names

\* relative_staged_path of the orchestrator looks at the path as it came too.
RelativeStagedPath(root, path) ==
    IF \E k \in DOMAIN path.names : ~Safe(path.names[k])
    THEN Refused
    ELSE StagedRelativePath(root, path)

\* From a directory to what a name in it denotes.
Go(dir, name) ==
    CASE name \in {"", "."} -> dir
      [] name = ".." -> IF dir = <<>> THEN dir ELSE Front(dir)
      [] OTHER -> Append(dir, name)

\* Where a path leads from the directory `from` if there are no symbolic links:
\* the kernel's rule, which knows nothing of normal forms.
Lookup(from, path) == FoldLeft(Go, IF path.absolute THEN <<>> ELSE from, path.names)
===============================================================================
