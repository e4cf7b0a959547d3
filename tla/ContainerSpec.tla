----------------------------- MODULE ContainerSpec -----------------------------
(***************************************************************************)
(* validate_container_spec and to_podman_create_json                       *)
(* (src/src/container_spec.cpp), and what Podman makes of the body.        *)
(*                                                                         *)
(* A specification is a record; its limits are a function on the limits    *)
(* that are set, so that an absent ResourceLimits and one with nothing set *)
(* are the same.  A JSON object is a function on the fields it has.        *)
(***************************************************************************)
EXTENDS TextCodecs, Functions

Numbers == {"cpu.period", "cpu.quota", "cpu.shares", "memory.limit", "memory.swap", "pids.limit"}

Limits == Numbers \cup {"cpu.cpus"}

Control == 0..31

Has(text, bytes) == \E k \in DOMAIN text : text[k] \in bytes

ValidName(name) ==
    /\ Len(name) \in 1..128
    /\ name[1] \in Alnum
    /\ ~Has(Tail(name), Byte \ (Alnum \cup {95, 46, 45}))

ValidKey(key) == key # <<>> /\ ~Has(key, Control)

ValidCpuset(text) == text # <<>> /\ ~Has(text, Byte \ (Digit \cup {44, 45}))

\* The types of ContainerSpec and ResourceLimits.
IsMap(map) == DOMAIN map \subseteq Seq(Byte) /\ map \in [DOMAIN map -> Seq(Byte)]

IsLimits(limits) ==
    /\ DOMAIN limits \subseteq Limits /\ limits = [f \in DOMAIN limits |-> limits[f]]
    /\ \A f \in DOMAIN limits : IF f \in Numbers THEN limits[f] \in Int ELSE limits[f] \in Seq(Byte)

IsSpec(spec) ==
    /\ spec \in [name : Seq(Byte), image : Seq(Byte), command : Seq(Seq(Byte)),
                 env : {spec.env}, labels : {spec.labels}, read_only_filesystem : BOOLEAN,
                 cap_drop : Seq(Seq(Byte)), security_opt : Seq(Seq(Byte)), limits : {spec.limits}]
    /\ IsMap(spec.env) /\ IsMap(spec.labels) /\ IsLimits(spec.limits)

\* validate_container_spec
ValidSpec(spec) ==
    /\ ValidName(spec.name)
    /\ ValidKey(spec.image)
    /\ \A key \in DOMAIN spec.env \cup DOMAIN spec.labels : ValidKey(key)
    /\ \A f \in DOMAIN spec.limits :
          IF f \in Numbers THEN spec.limits[f] > 0 ELSE ValidCpuset(spec.limits[f])

JsonMap(map) == [key \in {JsonString(k) : k \in DOMAIN map} |->
                    JsonString(map[CHOOSE k \in DOMAIN map : JsonString(k) = key])]

JsonArray(texts) == [k \in DOMAIN texts |-> JsonString(texts[k])]

\* Fields that are left out when there is nothing in them.
Optional == {"command", "env", "labels", "cap_drop", "security_opt", "resource_limits"}

Empty(value) == DOMAIN value = {}

LimitsJson(limits) ==
    [f \in DOMAIN limits |-> IF f \in Numbers THEN limits[f] ELSE JsonString(limits[f])]

Present(json) == Restrict(json, {f \in DOMAIN json : f \in Optional => ~Empty(json[f])})

\* Mutant: the swap limit is written only if there is no memory limit.
CreateJson_OneMemoryLimit(spec) ==
    Present([name |-> JsonString(spec.name), image |-> JsonString(spec.image),
             command |-> JsonArray(spec.command),
             env |-> JsonMap(spec.env), labels |-> JsonMap(spec.labels),
             read_only_filesystem |-> spec.read_only_filesystem,
             cap_drop |-> JsonArray(spec.cap_drop), security_opt |-> JsonArray(spec.security_opt),
             resource_limits |->
                LimitsJson(Restrict(spec.limits,
                    IF "memory.limit" \in DOMAIN spec.limits
                    THEN DOMAIN spec.limits \ {"memory.swap"} ELSE DOMAIN spec.limits))])

\* to_podman_create_json
CreateJson(spec) ==
    Present([name |-> JsonString(spec.name), image |-> JsonString(spec.image),
             command |-> JsonArray(spec.command),
             env |-> JsonMap(spec.env), labels |-> JsonMap(spec.labels),
             read_only_filesystem |-> spec.read_only_filesystem,
             cap_drop |-> JsonArray(spec.cap_drop), security_opt |-> JsonArray(spec.security_opt),
             resource_limits |-> LimitsJson(spec.limits)])

\* Podman's side: a field that is not there has nothing in it.
Field(json, f) == IF f \in DOMAIN json THEN json[f] ELSE <<>>

Texts(array) == [k \in DOMAIN array |-> JsonDecode(array[k])]

Map(object) == [key \in {JsonDecode(k) : k \in DOMAIN object} |->
                   JsonDecode(object[CHOOSE k \in DOMAIN object : JsonDecode(k) = key])]

\* The fields of Podman's SpecGenerator and of the resource limits in it, of those
\* that are ever written.  The decoder drops what it has no field for, without an
\* error: among the fields of CreateJson that is security_opt.
SpecOf(json) ==
    [name |-> JsonDecode(json.name), image |-> JsonDecode(json.image),
     command |-> Texts(Field(json, "command")),
     env |-> Map(Field(json, "env")), labels |-> Map(Field(json, "labels")),
     read_only_filesystem |-> json.read_only_filesystem,
     cap_drop |-> Texts(Field(json, "cap_drop")),
     limits |-> LET limits == Field(json, "resource_limits")
                IN  [f \in DOMAIN limits \cap {"cpu.period", "cpu.quota", "cpu.shares", "cpu.cpus",
                                               "memory.limit", "memory.swap", "pids.limit"} |->
                        IF f = "cpu.cpus" THEN JsonDecode(limits[f]) ELSE limits[f]]]
===============================================================================
