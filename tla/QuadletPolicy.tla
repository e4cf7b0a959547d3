--------------------------- MODULE QuadletPolicy ---------------------------
(***************************************************************************)
(* parse_quadlet and validate_quadlet_policy (src/src/quadlet.cpp): the    *)
(* parser as a machine that takes one line per step, and the policy as a   *)
(* predicate on what it has recorded, so that every text within the bounds *)
(* is a reachable state and the verdict on it compared with the text.      *)
(*                                                                         *)
(* A line stands for its class: the trimming, the case folding and the     *)
(* searches the code does on a value decide its class and nothing else.    *)
(***************************************************************************)
EXTENDS Naturals, Sequences, FiniteSets, SequencesExt

CONSTANTS
    Bounds,    \* bounds on texts: lines they are made of, at most so many
    Policies   \* policies a text is judged by: the names of their set flags

Requirements == {"require_container_section", "require_image", "require_managed_label"}
Permissions == {"allow_privileged", "allow_host_network", "allow_host_pid", "allow_host_ipc",
                "allow_host_userns", "allow_devices", "allow_root_mount", "allow_podman_args"}

\* QuadletPolicy as it is constructed.
Default == Requirements

\* validate_allowed_keys
Allowed == [
    Unit      |-> {"Description", "After", "Wants", "Requires", "Documentation"},
    Container |-> {"Image", "ContainerName", "Label", "Environment", "ReadOnly", "NoNewPrivileges",
                   "DropCapability", "Network", "Volume", "Mount", "UserNS", "PID", "IPCHost",
                   "Device", "AddDevice", "Rootfs", "PodmanArgs"},
    Service   |-> {"Restart", "TimeoutStartSec", "TimeoutStopSec"},
    Install   |-> {"WantedBy"}]

\* Classes of values.  "managed" and "mismanaged" are labels with the managed key,
\* with and without its value; "truthy" is what truthy() accepts; "host_path" is
\* what host_path_volume or host_path_mount find.
ValueClasses == {"plain", "empty", "managed", "mismanaged", "host", "truthy", "host_path"}

\* The value of PodmanArgs= is a sequence of pieces: options, words, and the
\* characters split_podman_args looks at.
Options == {"--privileged", "--network", "--net", "--pid", "--ipc", "--userns", "--device",
            "--volume", "-v", "--mount", "--rootfs", "--other"}
Space == " "
Single == "'"
Double == "\""
Backslash == "\\"
Pieces == Options \cup {"host", "/path", "other", "=", Space, Single, Double, Backslash}

Lines == UNION {b.lines : b \in Bounds}

ASSUME PolicyAssumption ==
    /\ Bounds # {}
    /\ \A b \in Bounds : b.most \in Nat
    /\ \A p \in Policies : p \subseteq Requirements \cup Permissions
    /\ \A l \in Lines : l.kind \in {"blank", "section", "entry", "other"}
    /\ \A l \in Lines : l.kind = "entry" =>
          IF l.key = "PodmanArgs" THEN l.value \in Seq(Pieces) ELSE l.value \in ValueClasses

VARIABLES
    text,     \* the lines read so far
    section,  \* section of the line to come, "" before any
    entries,  \* what ParsedQuadlet::add was given, with the line it comes from
    failed    \* parse_quadlet has returned an error

vars == <<text, section, entries, failed>>
-----------------------------------------------------------------------------
Init ==
    /\ text = <<>>
    /\ section = ""
    /\ entries = {}
    /\ failed = FALSE

Within(t) == \E b \in Bounds : Len(t) <= b.most /\ \A i \in DOMAIN t : t[i] \in b.lines

\* One iteration of the loop of parse_quadlet.
Read(l) ==
    /\ ~failed
    /\ text' = Append(text, l)
    /\ Within(text')

\* An empty line or a comment.
SkipLine(l) ==
    /\ l.kind = "blank"
    /\ Read(l)
    /\ UNCHANGED <<section, entries, failed>>

\* Mutant: a section that comes again does not become the current one.
EnterSection_First(l) ==
    /\ l.kind = "section"
    /\ Read(l)
    /\ section' = IF \E k \in 1..Len(text) : text[k] = l THEN section ELSE l.name
    /\ failed' = (l.name = "")
    /\ UNCHANGED entries

\* [name]; nothing is recorded of the section until it has a key.
EnterSection(l) ==
    /\ l.kind = "section"
    /\ Read(l)
    /\ section' = l.name
    /\ failed' = (l.name = "")
    /\ UNCHANGED entries

\* Mutant: a key that comes again replaces the values it had.
AddEntry_Replaces(l) ==
    /\ l.kind = "entry"
    /\ Read(l)
    /\ LET bad == section = "" \/ l.key = ""
       IN  /\ failed' = bad
           /\ entries' = IF bad THEN entries
                         ELSE {e \in entries : e.section # section \/ e.key # l.key}
                              \cup {[line |-> Len(text) + 1, section |-> section,
                                     key |-> l.key, value |-> l.value]}
    /\ UNCHANGED section

\* key=value, an error before any section or without a key.
AddEntry(l) ==
    /\ l.kind = "entry"
    /\ Read(l)
    /\ LET bad == section = "" \/ l.key = ""
       IN  /\ failed' = bad
           /\ entries' = IF bad THEN entries
                         ELSE entries \cup {[line |-> Len(text) + 1, section |-> section,
                                             key |-> l.key, value |-> l.value]}
    /\ UNCHANGED section

\* A line that is neither.
Malformed(l) ==
    /\ l.kind = "other"
    /\ Read(l)
    /\ failed' = TRUE
    /\ UNCHANGED <<section, entries>>

\* The text ends.
Stop == UNCHANGED vars

Next == \/ \E l \in Lines : SkipLine(l) \/ EnterSection(l) \/ AddEntry(l) \/ Malformed(l)
        \/ Stop

Spec == Init /\ [][Next]_vars
-----------------------------------------------------------------------------
\* The policy.

Values(s, k) == {e \in entries : e.section = s /\ e.key = k}

AllowedKeys ==
    \A e \in entries : e.section \in DOMAIN Allowed /\ e.key \in Allowed[e.section]

\* Mutant: only the labels with the right value are counted.
ManagedLabel_MatchesOnly ==
    Cardinality({e \in Values("Container", "Label") : e.value = "managed"}) = 1

\* validate_managed_label
ManagedLabel ==
    LET labels == {e \in Values("Container", "Label") : e.value \in {"managed", "mismanaged"}}
    IN  Cardinality(labels) = 1 /\ \A e \in labels : e.value = "managed"

\* One character in split_podman_args: a backslash outside single quotes takes the
\* next one as it is, quotes may hold each other and white space.
Take(d, c) ==
    IF d.escaped THEN [d EXCEPT !.current = Append(@, c), !.escaped = FALSE]
    ELSE IF c = Backslash /\ d.quote # Single THEN [d EXCEPT !.escaped = TRUE]
    ELSE IF c \in {Single, Double} /\ d.quote \in {"", c}
         THEN [d EXCEPT !.quote = IF d.quote = "" THEN c ELSE ""]
    ELSE IF c = Space /\ d.quote = ""
         THEN [d EXCEPT !.current = <<>>,
                        !.tokens = IF d.current = <<>> THEN @ ELSE Append(@, d.current)]
    ELSE [d EXCEPT !.current = Append(@, c)]

\* split_podman_args: the arguments, each a sequence of pieces.
Split(value) ==
    LET d    == FoldLeft(Take, [tokens |-> <<>>, current |-> <<>>, quote |-> "", escaped |-> FALSE],
                         value)
        last == IF d.escaped THEN Append(d.current, Backslash) ELSE d.current
    IN  IF last = <<>> THEN d.tokens ELSE Append(d.tokens, last)

\* token_has_value, for the value "host"
NamesHost(args, i, option) ==
    \/ args[i] = <<option, "=", "host">>
    \/ args[i] = <<option>> /\ i < Len(args) /\ args[i + 1] = <<"host">>

\* An option with or without "=" and a value.
IsOption(arg, option) ==
    \/ arg = <<option>>
    \/ Len(arg) > 1 /\ arg[1] = option /\ arg[2] = "="

\* denied_podman_arg
DeniedArgs(args, p) ==
    \E i \in 1..Len(args) :
        \/ "allow_privileged" \notin p /\ IsOption(args[i], "--privileged")
        \/ "allow_host_network" \notin p /\ \E o \in {"--network", "--net"} : NamesHost(args, i, o)
        \/ "allow_host_pid" \notin p /\ NamesHost(args, i, "--pid")
        \/ "allow_host_ipc" \notin p /\ NamesHost(args, i, "--ipc")
        \/ "allow_host_userns" \notin p /\ NamesHost(args, i, "--userns")
        \/ "allow_devices" \notin p /\ IsOption(args[i], "--device")
        \/ "allow_root_mount" \notin p /\ \E o \in {"--volume", "-v", "--mount"} : IsOption(args[i], o)

\* Mutant: with PodmanArgs= allowed, its arguments are not looked at.
Denied_ArgsUnchecked(e, p) ==
    \/ "allow_host_network" \notin p /\ e.key = "Network" /\ e.value = "host"
    \/ "allow_host_pid" \notin p /\ e.key = "PID" /\ e.value = "host"
    \/ "allow_host_ipc" \notin p /\ e.key = "IPCHost" /\ e.value = "truthy"
    \/ "allow_host_userns" \notin p /\ e.key = "UserNS" /\ e.value = "host"
    \/ "allow_devices" \notin p /\ e.key \in {"Device", "AddDevice"} /\ e.value # "empty"
    \/ "allow_root_mount" \notin p /\ e.key \in {"Volume", "Mount"} /\ e.value = "host_path"
    \/ "allow_root_mount" \notin p /\ e.key = "Rootfs" /\ e.value # "empty"
    \/ "allow_podman_args" \notin p /\ e.key = "PodmanArgs"

\* Mutant: the flags for the network and for processes are swapped.
Denied_SwappedFlags(e, p) ==
    LET swapped == [f \in Permissions |-> CASE f = "allow_host_network" -> "allow_host_pid"
                                             [] f = "allow_host_pid" -> "allow_host_network"
                                             [] OTHER -> f]
        q == {f \in Permissions : swapped[f] \in p}
    IN  \/ Denied_ArgsUnchecked(e, q)
        \/ e.key = "PodmanArgs" /\ DeniedArgs(Split(e.value), q)

\* What an entry of [Container] may not say.
Denied(e, p) ==
    \/ "allow_host_network" \notin p /\ e.key = "Network" /\ e.value = "host"
    \/ "allow_host_pid" \notin p /\ e.key = "PID" /\ e.value = "host"
    \/ "allow_host_ipc" \notin p /\ e.key = "IPCHost" /\ e.value = "truthy"
    \/ "allow_host_userns" \notin p /\ e.key = "UserNS" /\ e.value = "host"
    \/ "allow_devices" \notin p /\ e.key \in {"Device", "AddDevice"} /\ e.value # "empty"
    \/ "allow_root_mount" \notin p /\ e.key \in {"Volume", "Mount"} /\ e.value = "host_path"
    \/ "allow_root_mount" \notin p /\ e.key = "Rootfs" /\ e.value # "empty"
    \/ e.key = "PodmanArgs" /\ ("allow_podman_args" \notin p \/ DeniedArgs(Split(e.value), p))

\* validate_quadlet_policy, of the text read so far.
Accepts(p) ==
    /\ text # <<>>
    /\ ~failed
    /\ "require_container_section" \in p => \E e \in entries : e.section = "Container"
    /\ "require_image" \in p => Values("Container", "Image") # {}
    /\ AllowedKeys
    /\ "require_managed_label" \in p => ManagedLabel
    /\ \A e \in entries : e.section = "Container" => ~Denied(e, p)
-----------------------------------------------------------------------------
\* Properties.  They speak of the lines of the text, not of what was recorded.

Entries == {i \in 1..Len(text) : text[i].kind = "entry"}

\* The section line i of the text is in.
SectionAt(i) ==
    LET headers == {k \in 1..i : text[k].kind = "section"}
    IN  IF headers = {} THEN "" ELSE text[CHOOSE k \in headers : \A h \in headers : h <= k].name

ContainerLines(k) == {i \in Entries : SectionAt(i) = "Container" /\ text[i].key = k}

\* Type invariant of the parser.
TypeOK ==
    /\ text \in Seq(Lines) /\ Within(text)
    /\ section \in {""} \cup {l.name : l \in {l \in Lines : l.kind = "section"}}
    /\ \A e \in entries : /\ e.line \in Entries
                          /\ e.key = text[e.line].key /\ e.value = text[e.line].value
    /\ failed \in BOOLEAN

\* Whatever the policy and however the sections are split and repeated, an accepted
\* text has only keys that are allowed in the section they stand in, and no line
\* the parser passed over without understanding it.
OnlyAllowedKeys ==
    \A p \in Policies : Accepts(p) =>
        /\ \A i \in Entries : SectionAt(i) \in DOMAIN Allowed /\ text[i].key \in Allowed[SectionAt(i)]
        /\ \A i \in 1..Len(text) : text[i].kind # "other"

\* An accepted text carries the managed label exactly once in all its [Container]
\* sections, and not with another value beside it (README.md:165-168, "missing or
\* duplicate managed labels").
OneManagedLabel ==
    \A p \in Policies : Accepts(p) /\ "require_managed_label" \in p =>
        \E i \in ContainerLines("Label") :
            /\ text[i].value = "managed"
            /\ \A j \in ContainerLines("Label") \ {i} : text[j].value \notin {"managed", "mismanaged"}

\* What the deployment accepts by default asks for nothing of the host, wherever in
\* the text it stands and whatever stands after it (README.md:165-168).
NothingOfTheHost ==
    Accepts(Default) =>
        /\ ContainerLines("Image") # {}
        /\ ContainerLines("PodmanArgs") = {}
        /\ \A k \in {"Network", "PID", "UserNS"} : \A i \in ContainerLines(k) : text[i].value # "host"
        /\ \A i \in ContainerLines("IPCHost") : text[i].value # "truthy"
        /\ \A k \in {"Volume", "Mount"} : \A i \in ContainerLines(k) : text[i].value # "host_path"
        /\ \A k \in {"Device", "AddDevice", "Rootfs"} : \A i \in ContainerLines(k) : text[i].value = "empty"

\* The lines of [Container] and the arguments that ask for what a permission permits.
Keys == [
    allow_privileged   |-> {},
    allow_host_network |-> {<<"Network", "host">>},
    allow_host_pid     |-> {<<"PID", "host">>},
    allow_host_ipc     |-> {<<"IPCHost", "truthy">>},
    allow_host_userns  |-> {<<"UserNS", "host">>},
    allow_devices      |-> {"Device", "AddDevice"} \X (ValueClasses \ {"empty"}),
    allow_root_mount   |-> ({"Volume", "Mount"} \X {"host_path"})
                           \cup ({"Rootfs"} \X (ValueClasses \ {"empty"})),
    allow_podman_args  |-> {}]

Arguments == [
    allow_privileged   |-> {"--privileged"},
    allow_host_network |-> {"--network", "--net"},
    allow_host_pid     |-> {"--pid"},
    allow_host_ipc     |-> {"--ipc"},
    allow_host_userns  |-> {"--userns"},
    allow_devices      |-> {"--device"},
    allow_root_mount   |-> {"--volume", "-v", "--mount"},
    allow_podman_args  |-> {}]

\* These are about the host's own, the others about any.
OfTheHost == {"allow_host_network", "allow_host_pid", "allow_host_ipc", "allow_host_userns"}

AskedByKey(f) ==
    \/ \E k \in Keys[f] : \E i \in ContainerLines(k[1]) : text[i].value = k[2]
    \/ f = "allow_podman_args" /\ ContainerLines("PodmanArgs") # {}

AskedByArgument(args, f) ==
    \E o \in Arguments[f], i \in 1..Len(args) :
        IF f \in OfTheHost THEN NamesHost(args, i, o) ELSE IsOption(args[i], o)

\* The text has a key or an argument that is judged by f, whatever its value.
Names(f) ==
    \/ \E k \in Keys[f] : ContainerLines(k[1]) # {}
    \/ f = "allow_podman_args" /\ ContainerLines("PodmanArgs") # {}
    \/ \E i \in ContainerLines("PodmanArgs") :
          \E k \in 1..Len(Split(text[i].value)) : Split(text[i].value)[k][1] \in Arguments[f]

\* PodmanArgs= is no way round the keys: what an accepted text asks for with
\* --network, --net, --pid, --ipc, --userns, --device, --volume, -v, --mount or
\* --privileged, in one word or two and however quoted, the same policy accepts as a
\* key.  Each line is judged by itself.  Two spellings of Podman's are unknown to
\* denied_podman_arg, and so not claimed here: --rootfs, which asks for what Rootfs=
\* does, and -v with its value attached; a policy with allow_podman_args and without
\* allow_root_mount accepts both.
ArgumentsFollowKeys ==
    \A p \in Policies : Accepts(p) =>
        \A i \in ContainerLines("PodmanArgs"), f \in Permissions :
            AskedByArgument(Split(text[i].value), f) =>
                /\ f \in p
                /\ \A k \in Keys[f] : ~Denied([key |-> k[1], value |-> k[2]], p)

\* A permission decides about what it names and about nothing else: no accepted text
\* has a key that asks for more than the policy permits, and an accepted text stays
\* accepted when the policy requires less, permits more, or loses permissions that no
\* line of the text is judged by.  A flag checked in the place of another, or with the
\* wrong sense, breaks it.
PermissionsAreSeparate ==
    LET accepting == {p \in Policies : Accepts(p)}
    IN  \A p \in accepting :
            /\ \A f \in Permissions : AskedByKey(f) => f \in p
            /\ \A q \in Policies :
                  /\ q \cap Requirements \subseteq p
                  /\ \A f \in (p \cap Permissions) \ q : ~Names(f)
                  => q \in accepting

\* README.md:165: "The MVP policy rejects unsupported sections and keys".
UnsupportedSectionsRejected ==
    Accepts(Default) =>
        \A i \in 1..Len(text) : text[i].kind = "section" => text[i].name \in DOMAIN Allowed
=============================================================================
