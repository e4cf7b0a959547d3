------------------------------ MODULE PolicyProofs ------------------------------
(***************************************************************************)
(* What an accepted Quadlet says, for texts of any lines and any length    *)
(* and for any set of policies.                                            *)
(*                                                                         *)
(* The properties speak of the lines of the text, the policy of what the   *)
(* parser has recorded.  None of them is inductive; the invariant that     *)
(* relates the two is: as long as parsing has not failed, the entries are  *)
(* exactly the lines with a key, each in the section of the last header    *)
(* before it (RecordInv, SectionInv).  After that only the definition of   *)
(* the policy counts.                                                      *)
(***************************************************************************)
EXTENDS QuadletPolicy, FiniteSetTheorems, TLAPS

\* s is the section that line i of the text t is in.
InSection(t, i, s) ==
    \/ s = "" /\ \A k \in 1..i : t[k].kind # "section"
    \/ \E k \in 1..i : /\ t[k].kind = "section" /\ s = t[k].name
                       /\ \A h \in 1..i : t[h].kind = "section" => h <= k

\* SectionAt, of any text.
SectionIn(t, i) ==
    LET headers == {k \in 1..i : t[k].kind = "section"}
    IN  IF headers = {} THEN "" ELSE t[CHOOSE k \in headers : \A h \in headers : h <= k].name

\* What is to be recorded of line i.
Recorded(t, i) == [line |-> i, section |-> SectionIn(t, i), key |-> t[i].key, value |-> t[i].value]

EntriesOf(t) == {i \in 1..Len(t) : t[i].kind = "entry"}

\* Every line is in a section, and a line to come after t is in section s.
Sectioned(t, s) ==
    /\ InSection(t, Len(t), s)
    /\ \A i \in 1..Len(t) : InSection(t, i, SectionIn(t, i))

SectionAfter(l, s) == IF l.kind = "section" THEN l.name ELSE s

SectionInv == Sectioned(text, section)

\* What is recorded is what the text says, unless it is not understood.
RecordInv ==
    /\ IsFiniteSet(entries)
    /\ entries \subseteq {Recorded(text, i) : i \in EntriesOf(text)}
    /\ ~failed => /\ {Recorded(text, i) : i \in EntriesOf(text)} \subseteq entries
                  /\ \A i \in 1..Len(text) : text[i].kind # "other"

IInv == TypeOK /\ SectionInv /\ RecordInv
-----------------------------------------------------------------------------
\* Texts and their sections.

LEMMA SectionOf ==
    ASSUME NEW t, NEW i \in Nat, NEW s, InSection(t, i, s)
    PROVE  SectionIn(t, i) = s
<1> DEFINE headers == {k \in 1..i : t[k].kind = "section"}
<1>1. CASE s = "" /\ \A k \in 1..i : t[k].kind # "section"
  <2>1. headers = {}
    BY <1>1
  <2> QED
    BY <1>1, <2>1 DEF SectionIn
<1>2. CASE \E k \in 1..i : /\ t[k].kind = "section" /\ s = t[k].name
                           /\ \A h \in 1..i : t[h].kind = "section" => h <= k
  <2>1. PICK m \in headers : s = t[m].name /\ \A h \in headers : h <= m
    BY <1>2
  <2>2. \A k \in headers : (\A h \in headers : h <= k) => k = m
    BY <2>1
  <2>3. (CHOOSE k \in headers : \A h \in headers : h <= k) = m
    BY <2>1, <2>2
  <2> QED
    BY <2>1, <2>3 DEF SectionIn
<1> QED
  BY <1>1, <1>2 DEF InSection

LEMMA SectionAtIsIn == \A i : SectionAt(i) = SectionIn(text, i)
BY DEF SectionAt, SectionIn

LEMMA EntriesAreOf == Entries = EntriesOf(text)
BY DEF Entries, EntriesOf

\* u is t with one more line l: what is recorded of the lines before stays what it was.
Longer(t, l, s, u) ==
    /\ u \in Seq(Lines) /\ Len(u) = Len(t) + 1 /\ Len(t) \in Nat
    /\ u[Len(u)] = l
    /\ Sectioned(u, SectionAfter(l, s))
    /\ SectionIn(u, Len(u)) = SectionAfter(l, s)
    /\ \A i \in 1..Len(t) : u[i] = t[i] /\ Recorded(u, i) = Recorded(t, i)
    /\ EntriesOf(u) = EntriesOf(t) \cup {i \in {Len(u)} : l.kind = "entry"}

LEMMA LineAppended ==
    ASSUME NEW t \in Seq(Lines), NEW l \in Lines, NEW s, Sectioned(t, s)
    PROVE  Longer(t, l, s, Append(t, l))
<1> DEFINE n == Len(t) + 1
           u == Append(t, l)
           s2 == SectionAfter(l, s)
<1>1. /\ u \in Seq(Lines) /\ Len(u) = n /\ Len(t) \in Nat /\ u[n] = l
      /\ \A i \in 1..Len(t) : u[i] = t[i]
  OBVIOUS
<1>2. 1..n = 1..Len(t) \cup {n}
  BY <1>1
<1>3. InSection(u, n, s2)
  <2>1. CASE l.kind = "section"
    <3>1. u[n].kind = "section" /\ s2 = u[n].name /\ n \in 1..n /\ \A h \in 1..n : h <= n
      BY <1>1, <2>1 DEF SectionAfter
    <3> QED
      BY <3>1 DEF InSection
  <2>2. CASE l.kind # "section"
    <3>1. s2 = s /\ u[n].kind # "section"
      BY <1>1, <2>2 DEF SectionAfter
    <3>2. CASE s = "" /\ \A k \in 1..Len(t) : t[k].kind # "section"
      BY <1>1, <1>2, <3>1, <3>2 DEF InSection
    <3>3. CASE \E k \in 1..Len(t) : /\ t[k].kind = "section" /\ s = t[k].name
                                    /\ \A h \in 1..Len(t) : t[h].kind = "section" => h <= k
      <4>1. PICK k \in 1..Len(t) : /\ t[k].kind = "section" /\ s = t[k].name
                                   /\ \A h \in 1..Len(t) : t[h].kind = "section" => h <= k
        BY <3>3
      <4>2. k \in 1..n /\ u[k].kind = "section" /\ s2 = u[k].name
        BY <1>1, <1>2, <3>1, <4>1
      <4>3. \A h \in 1..n : u[h].kind = "section" => h <= k
        BY <1>1, <1>2, <3>1, <4>1
      <4> QED
        BY <4>2, <4>3 DEF InSection
    <3> QED
      BY <3>2, <3>3 DEF InSection, Sectioned
  <2> QED
    BY <2>1, <2>2
<1>4. ASSUME NEW i \in 1..Len(t)
      PROVE  InSection(u, i, SectionIn(t, i))
  <2>1. \A k \in 1..i : u[k] = t[k]
    BY <1>1
  <2>2. InSection(t, i, SectionIn(t, i))
    BY DEF Sectioned
  <2> QED
    BY <2>1, <2>2 DEF InSection
<1>5. \A i \in 1..Len(t) : SectionIn(u, i) = SectionIn(t, i)
  BY <1>1, <1>4, SectionOf
<1>6. SectionIn(u, n) = s2
  BY <1>1, <1>3, SectionOf
<1>7. \A i \in 1..n : InSection(u, i, SectionIn(u, i))
  BY <1>2, <1>3, <1>4, <1>5, <1>6
<1>8. \A i \in 1..Len(t) : Recorded(u, i) = Recorded(t, i)
  BY <1>1, <1>5 DEF Recorded
<1>9. EntriesOf(u) = EntriesOf(t) \cup {i \in {n} : l.kind = "entry"}
  BY <1>1, <1>2 DEF EntriesOf
<1> QED
  BY <1>1, <1>3, <1>6, <1>7, <1>8, <1>9 DEF Longer, Sectioned
-----------------------------------------------------------------------------
LEMMA InitInv == Init => IInv
<1> SUFFICES ASSUME Init PROVE IInv
  OBVIOUS
<1>1. text = <<>> /\ Len(text) = 0 /\ section = "" /\ entries = {} /\ failed = FALSE
  BY DEF Init
<1>2. 1..0 = {}
  OBVIOUS
<1>3. InSection(text, Len(text), section) /\ \A i \in 1..Len(text) : FALSE
  BY <1>1, <1>2 DEF InSection
<1>4. SectionInv
  BY <1>3 DEF SectionInv, Sectioned
<1>5. EntriesOf(text) = {}
  BY <1>1, <1>2 DEF EntriesOf
<1>6. RecordInv
  BY <1>1, <1>3, <1>5, FS_EmptySet DEF RecordInv
<1>7. TypeOK
  <2>1. <<>> \in Seq(Lines) /\ DOMAIN <<>> = {} /\ Len(<<>>) = 0
    OBVIOUS
  <2>2. text \in Seq(Lines) /\ \A i \in DOMAIN text : FALSE
    BY <1>1, <2>1, Zenon
  <2>3. PICK b \in Bounds : b.most \in Nat
    BY PolicyAssumption
  <2>4. /\ Len(text) <= b.most
        /\ \A i \in DOMAIN text : text[i] \in b.lines
    <3>1. 0 <= b.most
      BY <2>3
    <3> QED
      BY <1>1, <2>2, <3>1, Zenon
  <2>5. Within(text)
    BY <2>4 DEF Within
  <2> QED
    BY <1>1, <2>2, <2>5 DEF TypeOK
<1> QED
  BY <1>4, <1>6, <1>7 DEF IInv
-----------------------------------------------------------------------------
\* What a line that has been read adds to what is known of the text.
LEMMA ReadKnown ==
    ASSUME IInv, NEW l \in Lines, Read(l), section' = SectionAfter(l, section)
    PROVE  SectionInv' /\ ~failed /\ Within(text)' /\ Longer(text, l, section, text')
<1>1. text \in Seq(Lines) /\ text' = Append(text, l) /\ ~failed /\ Within(text)'
  BY DEF IInv, TypeOK, Read, Within
<1>2. Sectioned(text, section)
  BY DEF IInv, SectionInv
<1>3. Longer(text, l, section, text')
  BY <1>1, <1>2, LineAppended
<1>4. SectionInv'
  BY <1>3 DEF SectionInv, Longer
<1> QED
  BY <1>1, <1>3, <1>4

\* The entries so far are as they were for the longer text, and the type invariant
\* follows from what they are.
LEMMA RecordStep ==
    ASSUME IInv, NEW l \in Lines, Read(l),
           section' = SectionAfter(l, section),
           failed' \in BOOLEAN, l.kind = "other" => failed',
           \/ /\ entries' = entries
              /\ l.kind = "entry" => failed'
           \/ /\ l.kind = "entry"
              /\ entries' = entries \cup {Recorded(text', Len(text'))}
    PROVE  IInv'
<1> DEFINE n == Len(text')
           e == Recorded(text', n)
<1>1. /\ SectionInv' /\ ~failed /\ text' \in Seq(Lines) /\ Within(text)'
      /\ n = Len(text) + 1 /\ Len(text) \in Nat /\ text'[n] = l
      /\ \A i \in 1..Len(text) : text'[i] = text[i] /\ Recorded(text', i) = Recorded(text, i)
      /\ EntriesOf(text') = EntriesOf(text) \cup {i \in {n} : l.kind = "entry"}
  BY ReadKnown DEF Longer
<1>2. EntriesOf(text) \subseteq 1..Len(text)
  BY DEF EntriesOf
<1>3. {Recorded(text', i) : i \in EntriesOf(text')} =
          {Recorded(text, i) : i \in EntriesOf(text)} \cup {x \in {e} : l.kind = "entry"}
  BY <1>1, <1>2
<1>4. entries = {Recorded(text, i) : i \in EntriesOf(text)}
  BY <1>1 DEF IInv, RecordInv
<1>5. IsFiniteSet(entries')
  BY FS_AddElement DEF IInv, RecordInv
<1>6. entries' \subseteq {Recorded(text', i) : i \in EntriesOf(text')}
  BY <1>3, <1>4
<1>7. ~failed' => {Recorded(text', i) : i \in EntriesOf(text')} \subseteq entries'
  BY <1>3, <1>4
<1>8. ~failed' => \A i \in 1..n : text'[i].kind # "other"
  BY <1>1 DEF IInv, RecordInv
<1>9. RecordInv'
  BY <1>5, <1>6, <1>7, <1>8 DEF RecordInv
<1>10. section' \in {""} \cup {x.name : x \in {y \in Lines : y.kind = "section"}}
  BY DEF IInv, TypeOK, SectionAfter
<1>11. \A x \in entries' : x.line \in EntriesOf(text') /\ x.key = text'[x.line].key
                           /\ x.value = text'[x.line].value
  BY <1>6 DEF Recorded
<1>12. TypeOK'
  BY <1>1, <1>10, <1>11 DEF TypeOK, Entries, EntriesOf
<1> QED
  BY <1>1, <1>9, <1>12 DEF IInv

LEMMA NextInv == IInv /\ [Next]_vars => IInv'
<1> SUFFICES ASSUME IInv, [Next]_vars PROVE IInv'
  OBVIOUS
<1>1. ASSUME NEW l \in Lines, SkipLine(l) PROVE IInv'
  <2>1. Read(l) /\ l.kind = "blank" /\ UNCHANGED <<section, entries, failed>> /\ failed' \in BOOLEAN
    BY <1>1 DEF SkipLine, IInv, TypeOK
  <2> QED
    BY <2>1, RecordStep DEF SectionAfter
<1>2. ASSUME NEW l \in Lines, EnterSection(l) PROVE IInv'
  <2>1. Read(l) /\ l.kind = "section" /\ section' = l.name /\ entries' = entries /\ failed' \in BOOLEAN
    BY <1>2 DEF EnterSection
  <2> QED
    BY <2>1, RecordStep DEF SectionAfter
<1>3. ASSUME NEW l \in Lines, AddEntry(l) PROVE IInv'
  <2>1. Read(l) /\ l.kind = "entry" /\ section' = section /\ failed' \in BOOLEAN
        /\ \/ failed' /\ entries' = entries
           \/ entries' = entries \cup {[line |-> Len(text) + 1, section |-> section,
                                        key |-> l.key, value |-> l.value]}
    BY <1>3 DEF AddEntry
  <2>2. [line |-> Len(text) + 1, section |-> section, key |-> l.key, value |-> l.value]
            = Recorded(text', Len(text'))
    BY <2>1, ReadKnown DEF Recorded, Longer, SectionAfter
  <2> QED
    BY <2>1, <2>2, RecordStep DEF SectionAfter
<1>4. ASSUME NEW l \in Lines, Malformed(l) PROVE IInv'
  <2>1. Read(l) /\ l.kind = "other" /\ failed' = TRUE /\ UNCHANGED <<section, entries>>
    BY <1>4 DEF Malformed
  <2> QED
    BY <2>1, RecordStep DEF SectionAfter
<1>5. ASSUME UNCHANGED vars PROVE IInv'
  BY <1>5 DEF vars, IInv, TypeOK, Within, Entries, SectionInv, RecordInv
<1> QED
  BY <1>1, <1>2, <1>3, <1>4, <1>5 DEF Next, Stop
-----------------------------------------------------------------------------
\* From the entries to the lines.

\* A line with a key that was parsed has been recorded, in its section.
LEMMA LineRecorded ==
    ASSUME IInv, ~failed, NEW i \in Entries
    PROVE  \E e \in entries : /\ e.line = i /\ e.section = SectionAt(i)
                              /\ e.key = text[i].key /\ e.value = text[i].value
<1>1. Recorded(text, i) \in entries
  BY EntriesAreOf DEF IInv, RecordInv
<1> QED
  BY <1>1, SectionAtIsIn DEF Recorded

\* What was recorded is a line of the text, in its section.
LEMMA EntryIsLine ==
    ASSUME IInv, NEW e \in entries
    PROVE  /\ e.line \in Entries /\ e.section = SectionAt(e.line)
           /\ e.key = text[e.line].key /\ e.value = text[e.line].value
           /\ e = Recorded(text, e.line)
<1>1. PICK i \in EntriesOf(text) : e = Recorded(text, i)
  BY DEF IInv, RecordInv
<1> QED
  BY <1>1, SectionAtIsIn, EntriesAreOf DEF Recorded

LEMMA KeysAllowed == IInv => OnlyAllowedKeys
<1> SUFFICES ASSUME IInv, NEW p \in Policies, Accepts(p)
             PROVE  /\ \A i \in Entries : /\ SectionAt(i) \in DOMAIN Allowed
                                         /\ text[i].key \in Allowed[SectionAt(i)]
                    /\ \A i \in 1..Len(text) : text[i].kind # "other"
  BY DEF OnlyAllowedKeys
<1>1. ~failed /\ AllowedKeys
  BY DEF Accepts
<1>2. \A i \in 1..Len(text) : text[i].kind # "other"
  BY <1>1 DEF IInv, RecordInv
<1>3. ASSUME NEW i \in Entries
      PROVE  SectionAt(i) \in DOMAIN Allowed /\ text[i].key \in Allowed[SectionAt(i)]
  <2>1. PICK e \in entries : e.section = SectionAt(i) /\ e.key = text[i].key
    BY <1>1, LineRecorded
  <2>2. e.section \in DOMAIN Allowed /\ e.key \in Allowed[e.section]
    BY <1>1 DEF AllowedKeys
  <2> QED
    BY <2>1, <2>2
<1> QED
  BY <1>2, <1>3

\* validate_managed_label counts the labels of all [Container] sections.
LEMMA LabelManaged == IInv => OneManagedLabel
<1> SUFFICES ASSUME IInv, NEW p \in Policies, Accepts(p), "require_managed_label" \in p
             PROVE  \E i \in ContainerLines("Label") :
                        /\ text[i].value = "managed"
                        /\ \A j \in ContainerLines("Label") \ {i} : text[j].value \notin {"managed", "mismanaged"}
  BY DEF OneManagedLabel
<1> DEFINE labels == {e \in Values("Container", "Label") : e.value \in {"managed", "mismanaged"}}
<1>1. ~failed /\ Cardinality(labels) = 1 /\ \A e \in labels : e.value = "managed"
  BY DEF Accepts, ManagedLabel
<1>2. IsFiniteSet(labels)
  <2>1. labels \in SUBSET entries
    BY DEF Values
  <2> QED
    BY <2>1, FS_Subset DEF IInv, RecordInv
<1> HIDE DEF labels
<1>3. PICK e : labels = {e}
  BY <1>1, <1>2, FS_Singleton
<1>4. e \in entries /\ e.section = "Container" /\ e.key = "Label" /\ e.value = "managed"
  BY <1>1, <1>3 DEF labels, Values
<1>5. e.line \in ContainerLines("Label") /\ text[e.line].value = "managed"
  BY <1>4, EntryIsLine DEF ContainerLines
<1>6. ASSUME NEW j \in ContainerLines("Label"), text[j].value \in {"managed", "mismanaged"}
      PROVE  j = e.line
  <2>1. j \in Entries /\ SectionAt(j) = "Container" /\ text[j].key = "Label"
    BY DEF ContainerLines
  <2>2. PICK d \in entries : /\ d.line = j /\ d.section = SectionAt(j)
                             /\ d.key = text[j].key /\ d.value = text[j].value
    BY <1>1, <2>1, LineRecorded
  <2>3. d \in labels
    BY <1>6, <2>1, <2>2 DEF labels, Values
  <2> QED
    BY <1>3, <2>2, <2>3
<1> QED
  BY <1>5, <1>6

\* No line of an accepted text says what its policy denies.
LEMMA LineNotDenied ==
    ASSUME IInv, NEW p, Accepts(p), NEW k, NEW i \in ContainerLines(k)
    PROVE  \E e \in entries : e.key = k /\ e.value = text[i].value /\ ~Denied(e, p)
<1>1. i \in Entries /\ SectionAt(i) = "Container" /\ text[i].key = k /\ ~failed
  BY DEF ContainerLines, Accepts
<1>2. PICK e \in entries : e.section = SectionAt(i) /\ e.key = text[i].key /\ e.value = text[i].value
  BY <1>1, LineRecorded
<1> QED
  BY <1>1, <1>2 DEF Accepts

LEMMA HostUntouched == IInv => NothingOfTheHost
<1> SUFFICES ASSUME IInv, Accepts(Default) PROVE NothingOfTheHost
  BY DEF NothingOfTheHost
<1>1. \A f \in Permissions : f \notin Default
  BY DEF Permissions, Default, Requirements
<1>2. ContainerLines("Image") # {}
  <2>1. PICK e \in entries : e.section = "Container" /\ e.key = "Image"
    BY DEF Accepts, Default, Requirements, Values
  <2>2. e.line \in ContainerLines("Image")
    BY <2>1, EntryIsLine DEF ContainerLines
  <2> QED
    BY <2>2
<1>3. ASSUME NEW i \in ContainerLines("PodmanArgs") PROVE FALSE
  BY <1>1, <1>3, LineNotDenied DEF Denied, Permissions
<1>4. ASSUME NEW k \in {"Network", "PID", "UserNS"}, NEW i \in ContainerLines(k)
      PROVE  text[i].value # "host"
  BY <1>1, <1>4, LineNotDenied DEF Denied, Permissions
<1>5. ASSUME NEW i \in ContainerLines("IPCHost") PROVE text[i].value # "truthy"
  BY <1>1, <1>5, LineNotDenied DEF Denied, Permissions
<1>6. ASSUME NEW k \in {"Volume", "Mount"}, NEW i \in ContainerLines(k)
      PROVE  text[i].value # "host_path"
  BY <1>1, <1>6, LineNotDenied DEF Denied, Permissions
<1>7. ASSUME NEW k \in {"Device", "AddDevice", "Rootfs"}, NEW i \in ContainerLines(k)
      PROVE  text[i].value = "empty"
  BY <1>1, <1>7, LineNotDenied DEF Denied, Permissions
<1> QED
  BY <1>2, <1>3, <1>4, <1>5, <1>6, <1>7 DEF NothingOfTheHost

\* What an argument asks for is denied without the permission.
LEMMA AskedDenied ==
    ASSUME NEW args, NEW f \in Permissions, NEW p, AskedByArgument(args, f), f \notin p
    PROVE  DeniedArgs(args, p)
<1>1. PICK o \in Arguments[f], i \in 1..Len(args) :
          IF f \in OfTheHost THEN NamesHost(args, i, o) ELSE IsOption(args[i], o)
  BY DEF AskedByArgument
<1>2. CASE f \in OfTheHost
  BY <1>1, <1>2 DEF DeniedArgs, Arguments, OfTheHost
<1>3. CASE f \in {"allow_privileged", "allow_devices", "allow_root_mount"}
  BY <1>1, <1>3 DEF DeniedArgs, Arguments, OfTheHost
<1>4. CASE f = "allow_podman_args"
  BY <1>1, <1>4 DEF Arguments
<1> QED
  BY <1>2, <1>3, <1>4 DEF Permissions, OfTheHost

\* The keys for what p permits are not denied by p.
LEMMA KeyNotDenied ==
    ASSUME NEW f \in Permissions, NEW p, f \in p, NEW k \in Keys[f]
    PROVE  ~Denied([key |-> k[1], value |-> k[2]], p)
<1>1. CASE f \in OfTheHost
  BY <1>1 DEF Keys, OfTheHost, Denied
<1>2. CASE f = "allow_devices"
  BY <1>2 DEF Keys, Denied
<1>3. CASE f = "allow_root_mount"
  BY <1>3 DEF Keys, Denied
<1>4. CASE f \in {"allow_privileged", "allow_podman_args"}
  BY <1>4 DEF Keys
<1> QED
  BY <1>1, <1>2, <1>3, <1>4 DEF Permissions, OfTheHost

LEMMA ArgumentsChecked == IInv => ArgumentsFollowKeys
<1> SUFFICES ASSUME IInv, NEW p \in Policies, Accepts(p), NEW i \in ContainerLines("PodmanArgs"),
                    NEW f \in Permissions, AskedByArgument(Split(text[i].value), f)
             PROVE  f \in p /\ \A k \in Keys[f] : ~Denied([key |-> k[1], value |-> k[2]], p)
  BY DEF ArgumentsFollowKeys
<1>1. ~DeniedArgs(Split(text[i].value), p)
  <2>1. PICK e \in entries : e.key = "PodmanArgs" /\ e.value = text[i].value /\ ~Denied(e, p)
    BY LineNotDenied
  <2> QED
    BY <2>1 DEF Denied
<1>2. f \in p
  BY <1>1, AskedDenied
<1> QED
  BY <1>2, KeyNotDenied

\* What a key asks for is permitted.
LEMMA KeyPermitted ==
    ASSUME IInv, NEW p, Accepts(p), NEW f \in Permissions, AskedByKey(f)
    PROVE  f \in p
<1>1. CASE \E k \in Keys[f] : \E i \in ContainerLines(k[1]) : text[i].value = k[2]
  <2>1. PICK k \in Keys[f] : \E i \in ContainerLines(k[1]) : text[i].value = k[2]
    BY <1>1
  <2>2. PICK e \in entries : e.key = k[1] /\ e.value = k[2] /\ ~Denied(e, p)
    BY <2>1, LineNotDenied
  <2>3. CASE f \in OfTheHost
    BY <2>2, <2>3 DEF Keys, OfTheHost, Denied
  <2>4. CASE f = "allow_devices"
    BY <2>2, <2>4 DEF Keys, Denied
  <2>5. CASE f = "allow_root_mount"
    BY <2>2, <2>5 DEF Keys, Denied
  <2>6. CASE f \in {"allow_privileged", "allow_podman_args"}
    BY <2>6 DEF Keys
  <2> QED
    BY <2>3, <2>4, <2>5, <2>6 DEF Permissions, OfTheHost
<1>2. CASE f = "allow_podman_args" /\ ContainerLines("PodmanArgs") # {}
  <2>1. PICK i : i \in ContainerLines("PodmanArgs")
    BY <1>2
  <2>2. PICK e \in entries : e.key = "PodmanArgs" /\ ~Denied(e, p)
    BY <2>1, LineNotDenied
  <2> QED
    BY <1>2, <2>2 DEF Denied
<1> QED
  BY <1>1, <1>2 DEF AskedByKey

\* An argument that DeniedArgs minds begins with one of the options of a permission
\* that is missing.
LEMMA DeniedNames ==
    ASSUME NEW args, NEW q, DeniedArgs(args, q)
    PROVE  \E f \in Permissions : /\ f \notin q
                                  /\ AskedByArgument(args, f)
                                  /\ \E i \in 1..Len(args) : args[i][1] \in Arguments[f]
<1>1. \A i \in 1..Len(args), o \in Options : NamesHost(args, i, o) => args[i][1] = o
  BY DEF NamesHost
<1>2. \A i \in 1..Len(args), o \in Options : IsOption(args[i], o) => args[i][1] = o
  BY DEF IsOption
<1>3. ASSUME NEW f \in OfTheHost, f \notin q, NEW i \in 1..Len(args),
             \E o \in Arguments[f] : NamesHost(args, i, o)
      PROVE  /\ f \in Permissions
             /\ AskedByArgument(args, f) /\ args[i][1] \in Arguments[f]
  <2>1. f \in Permissions /\ Arguments[f] \subseteq Options
    BY DEF OfTheHost, Permissions, Arguments, Options
  <2> QED
    BY <1>1, <1>3, <2>1 DEF AskedByArgument
<1>4. ASSUME NEW f \in {"allow_privileged", "allow_devices", "allow_root_mount"}, f \notin q,
             NEW i \in 1..Len(args), \E o \in Arguments[f] : IsOption(args[i], o)
      PROVE  /\ f \in Permissions
             /\ AskedByArgument(args, f) /\ args[i][1] \in Arguments[f]
  <2>1. f \in Permissions /\ f \notin OfTheHost /\ Arguments[f] \subseteq Options
    BY DEF OfTheHost, Permissions, Arguments, Options
  <2> QED
    BY <1>2, <1>4, <2>1 DEF AskedByArgument
<1>5. PICK i \in 1..Len(args) :
          \/ \E f \in OfTheHost : f \notin q /\ \E o \in Arguments[f] : NamesHost(args, i, o)
          \/ \E f \in {"allow_privileged", "allow_devices", "allow_root_mount"} :
                f \notin q /\ \E o \in Arguments[f] : IsOption(args[i], o)
  BY DEF DeniedArgs, OfTheHost, Arguments
<1> QED
  BY <1>3, <1>4, <1>5

\* A line that q denies and p does not has its permission from p, and it names it.
LEMMA DeniedForLack ==
    ASSUME IInv, NEW p, NEW q, \A f \in (p \cap Permissions) \ q : ~Names(f),
           NEW e \in entries, e.section = "Container", Denied(e, q)
    PROVE  Denied(e, p)
<1>1. e.line \in ContainerLines(e.key) /\ text[e.line].value = e.value
  BY EntryIsLine DEF ContainerLines
<1>2. \A f \in Permissions : f \notin q /\ (\E k \in Keys[f] : k[1] = e.key) => f \notin p
  BY <1>1 DEF Names
<1>3. CASE e.key = "PodmanArgs"
  <2>1. CASE "allow_podman_args" \notin q
    <3>1. "allow_podman_args" \in Permissions /\ Names("allow_podman_args")
      BY <1>1, <1>3 DEF Names, Permissions
    <3> QED
      BY <1>3, <2>1, <3>1 DEF Denied
  <2>2. CASE DeniedArgs(Split(e.value), q)
    <3>1. PICK f \in Permissions : /\ f \notin q
                                   /\ AskedByArgument(Split(e.value), f)
                                   /\ \E i \in 1..Len(Split(e.value)) :
                                         Split(e.value)[i][1] \in Arguments[f]
      BY <2>2, DeniedNames
    <3>2. Names(f)
      BY <1>1, <1>3, <3>1 DEF Names
    <3>3. f \notin p
      BY <3>1, <3>2
    <3> QED
      BY <1>3, <3>1, <3>3, AskedDenied DEF Denied
  <2> QED
    BY <1>3, <2>1, <2>2 DEF Denied
<1>4. CASE e.key # "PodmanArgs"
  <2>1. CASE \E f \in OfTheHost : f \notin q /\ <<e.key, e.value>> \in Keys[f]
    BY <1>2, <2>1 DEF OfTheHost, Permissions, Keys, Denied
  <2>2. CASE /\ "allow_devices" \notin q
             /\ e.key \in {"Device", "AddDevice"} /\ e.value # "empty"
    <3>1. <<e.key, "plain">> \in Keys["allow_devices"] /\ "allow_devices" \in Permissions
      BY <2>2 DEF Keys, Permissions, ValueClasses
    <3>2. \E k \in Keys["allow_devices"] : k[1] = e.key
      BY <3>1
    <3> QED
      BY <1>2, <2>2, <3>1, <3>2 DEF Denied
  <2>3. CASE /\ "allow_root_mount" \notin q
             /\ \/ e.key \in {"Volume", "Mount"} /\ e.value = "host_path"
                \/ e.key = "Rootfs" /\ e.value # "empty"
    <3>1. /\ \E v \in ValueClasses : <<e.key, v>> \in Keys["allow_root_mount"]
          /\ "allow_root_mount" \in Permissions
      BY <2>3 DEF Keys, Permissions, ValueClasses
    <3>2. \E k \in Keys["allow_root_mount"] : k[1] = e.key
      BY <3>1
    <3> QED
      BY <1>2, <2>3, <3>1, <3>2 DEF Denied
  <2> QED
    BY <1>4, <2>1, <2>2, <2>3 DEF Denied, OfTheHost, Keys
<1> QED
  BY <1>3, <1>4

LEMMA Separate == IInv => PermissionsAreSeparate
<1> SUFFICES ASSUME IInv, NEW p \in Policies, Accepts(p)
             PROVE  /\ \A f \in Permissions : AskedByKey(f) => f \in p
                    /\ \A q \in Policies :
                          /\ q \cap Requirements \subseteq p
                          /\ \A f \in (p \cap Permissions) \ q : ~Names(f)
                          => Accepts(q)
  BY DEF PermissionsAreSeparate
<1>1. \A f \in Permissions : AskedByKey(f) => f \in p
  BY KeyPermitted
<1>2. ASSUME NEW q \in Policies, q \cap Requirements \subseteq p,
             \A f \in (p \cap Permissions) \ q : ~Names(f)
      PROVE  Accepts(q)
  <2>1. \A f \in Requirements : f \in q => f \in p
    BY <1>2
  <2>2. \A e \in entries : e.section = "Container" => (Denied(e, q) => Denied(e, p))
    BY <1>2, DeniedForLack
  <2> QED
    BY <2>1, <2>2 DEF Accepts, Requirements
<1> QED
  BY <1>1, <1>2
-----------------------------------------------------------------------------
\* The invariant that the properties follow from.
THEOREM Invariant == Spec => []IInv
<1> QED
  BY InitInv, NextInv, PTL DEF Spec

\* The machine of parse_quadlet records lines of the text, with their keys and values.
THEOREM TypeCorrect == Spec => []TypeOK
<1>1. IInv => TypeOK
  BY DEF IInv
<1> QED
  BY Invariant, <1>1, PTL

\* validate_allowed_keys: an accepted text has only keys allowed in their section,
\* however sections are split and repeated and under any policy.
THEOREM OnlyAllowed == Spec => []OnlyAllowedKeys
<1> QED
  BY Invariant, KeysAllowed, PTL

\* validate_managed_label: exactly one managed label in an accepted text.
THEOREM LabelIsManaged == Spec => []OneManagedLabel
<1> QED
  BY Invariant, LabelManaged, PTL

\* validate_quadlet_policy with QuadletPolicy as constructed: nothing of the host.
THEOREM NothingOfHost == Spec => []NothingOfTheHost
<1> QED
  BY Invariant, HostUntouched, PTL

\* denied_podman_arg: an argument of PodmanArgs= that it knows, in one word or two and
\* however quoted, is refused where the key for the same is.
THEOREM ArgumentsAsKeys == Spec => []ArgumentsFollowKeys
<1> QED
  BY Invariant, ArgumentsChecked, PTL

\* validate_quadlet_policy: each permission decides about what it names and about
\* nothing else, whatever else the policy permits and the text says.
THEOREM PermissionsSeparate == Spec => []PermissionsAreSeparate
<1> QED
  BY Invariant, Separate, PTL
===============================================================================
