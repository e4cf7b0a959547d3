---------------------------- MODULE MCPodmanClient ----------------------------
(***************************************************************************)
(* An instance of PodmanClient for TLC.  Bytes: 1 (a control character),   *)
(* 9 tab, 34 quote, 37 percent, 43 plus, 45 dash, 46 dot, 48 and 50 digits,*)
(* 61 =, 92 backslash, 97 and 98 letters; 195 169 and 226 130 172 are      *)
(* characters in UTF-8, 195 before a letter is not.                        *)
(***************************************************************************)
EXTENDS PodmanClient, TLC

\* Names, one of which could be the escaped form of another.
A == <<97>>
EscapedA == <<37, 54, 49>>
DotDot == <<46, 46>>

Plain == [name |-> A, image |-> <<98>>, command |-> <<>>, env |-> <<>>, labels |-> <<>>,
          read_only_filesystem |-> FALSE, cap_drop |-> <<>>, security_opt |-> <<>>, limits |-> <<>>]

\* Among the texts two that are not ASCII, and one that is not UTF-8.
Limited == [Plain EXCEPT
    !.command = <<<<97, 34, 92>>, <<1, 9, 195, 169>>>>,
    !.env = <<97>> :> <<10, 61, 31>> @@ <<98, 34>> :> <<226, 130, 172>>,
    !.labels = <<98>> :> <<92, 110>>,
    !.read_only_filesystem = TRUE,
    !.cap_drop = <<<<97>>, <<195, 97>>>>,
    !.security_opt = <<<<97>>>>,
    !.limits = [l \in Numbers |-> 1] @@ "cpu.cpus" :> <<48, 45, 50>>]

InvalidSpecs ==
    { [Plain EXCEPT !.name = EscapedA], [Plain EXCEPT !.env = <<9>> :> <<>>],
      [Plain EXCEPT !.limits = "memory.limit" :> 0] }

SomeCalls ==
    {[op |-> "create", spec |-> s] : s \in {Plain, Limited} \cup InvalidSpecs} \cup
    {[op |-> "start", name |-> n] : n \in {A, EscapedA, DotDot}} \cup
    {[op |-> "stop", name |-> A, timeout |-> t] : t \in {-1, 10}} \cup
    {[op |-> "remove", name |-> A, force |-> b] : b \in BOOLEAN} \cup
    {[op |-> "list", all |-> TRUE, filters |-> f] :
        f \in {<<>>, <<<<97, 61, 34, 43>>, <<37, 92>>, <<195, 169>>, <<195, 97>>>>, <<<<1>>>>}} \cup
    {[op |-> "ping"], [op |-> "info"]}

\* Threads are alike.
Threads == Permutations(Callers)
===============================================================================
