--------------------------- MODULE MCQuadletPolicy ---------------------------
(***************************************************************************)
(* Instances of QuadletPolicy for TLC.                                     *)
(***************************************************************************)
EXTENDS QuadletPolicy, TLC

Section(n) == [kind |-> "section", name |-> n]
Entry(k, v) == [kind |-> "entry", key |-> k, value |-> v]
PodmanArgs(pieces) == Entry("PodmanArgs", pieces)

\* The shape of a text: sections, keys in and out of place, labels.
StructureLines ==
    { [kind |-> "blank"], [kind |-> "other"],
      Section("Container"), Section("Service"), Section("Foreign"), Section(""),
      Entry("Image", "plain"), Entry("Label", "managed"), Entry("Label", "mismanaged"),
      Entry("Restart", "plain"), Entry("", "plain") }

\* What a [Container] section may ask for.
ValueLines ==
    { Section("Container"), Entry("Image", "plain"), Entry("Label", "managed"),
      Entry("Network", "host"), Entry("Network", "plain"), Entry("PID", "host"),
      Entry("UserNS", "host"), Entry("IPCHost", "truthy"), Entry("Volume", "host_path"),
      Entry("Mount", "plain"), Entry("AddDevice", "plain"), Entry("Device", "empty"),
      Entry("Rootfs", "plain"),
      PodmanArgs(<<"--network", " ", "host">>),
      PodmanArgs(<<"--rootfs", " ", "/path">>) }

\* What PodmanArgs= may ask for: in one word or two, quoted, escaped, with the value
\* attached, at the end of the line.
ArgumentLines ==
    { Section("Container"), Entry("Image", "plain"), Entry("Label", "managed"),
      PodmanArgs(<<"--other", " ", "host">>),
      PodmanArgs(<<"--privileged", "=", "other">>),
      PodmanArgs(<<"--net", "=", "\"", "host", "\"">>),
      PodmanArgs(<<"--network", " ", "\\", " ", "host">>),
      PodmanArgs(<<"--pid", "=", "host", " ", "--device", "=", "/path">>),
      PodmanArgs(<<"'", "--ipc", "'", " ", " ", "host", "\\">>),
      PodmanArgs(<<"\"", "--ipc", "\"", " ", "\"", "\"", " ", "'", "host", "'">>),
      PodmanArgs(<<"'", "--userns", "=", "\\", "host", "'">>),
      PodmanArgs(<<"\\", "--userns", "=", "\\", "host">>),
      PodmanArgs(<<"--other", "=", "'", " ", "--mount", "\"", "'">>),
      PodmanArgs(<<"--mount", " ", "other">>),
      PodmanArgs(<<"--volume", "=", "/path">>),
      PodmanArgs(<<"-v", "/path">>),
      PodmanArgs(<<"--rootfs", " ", "/path">>),
      PodmanArgs(<<"--network">>), PodmanArgs(<<"host">>) }

StructureBound == [lines |-> StructureLines, most |-> 6]
ShortStructureBound == [lines |-> StructureLines, most |-> 5]
ValueBound == [lines |-> ValueLines, most |-> 5]
ArgumentBound == [lines |-> ArgumentLines, most |-> 4]

Structured == {ShortStructureBound}
AllTexts == {StructureBound, ValueBound, ArgumentBound}

\* The default, each permission on its own, all of them but one, all of them, and
\* nothing required.
SomePolicies ==
    { Default, Default \cup Permissions, {} }
    \cup { Default \cup {"allow_podman_args", f} : f \in Permissions }
    \cup { Default \cup (Permissions \ {f}) : f \in Permissions }
=============================================================================
