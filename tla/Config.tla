-------------------------------- MODULE Config --------------------------------
(***************************************************************************)
(* Config.from_file() of tr_bridge/config.py: what a configuration file is *)
(* parsed into, or refused.  A file is what yaml.safe_load() makes of it; a *)
(* string is its text and whether white space surrounds it; a mapping is a *)
(* function from the keys it has.                                          *)
(***************************************************************************)
EXTENDS Integers, Sequences

CONSTANT Slugs   \* the texts that match _INSTANCE_NAME_RE

\* The values of a file.  True and False are integers to Python.
Str(text) == [type |-> "str", text |-> text, padded |-> FALSE]
Padded(text) == [type |-> "str", text |-> text, padded |-> TRUE]
Number(n) == [type |-> "int", value |-> n]
Truth(b) == [type |-> "bool", value |-> IF b THEN 1 ELSE 0]
Null == [type |-> "null"]
List(entries) == [type |-> "list", items |-> entries]
Mapping(fields) == [type |-> "dict", of |-> fields]

\* What is no YAML document: no such file, or not a well-formed one.
Unreadable == [type |-> "OSError"]
Malformed == [type |-> "YAMLError"]

\* dict.get(key, default)
Get(mapping, key, default) ==
    IF key \in DOMAIN mapping.of THEN mapping.of[key] ELSE default

IsInt(value) == value.type \in {"int", "bool"}

\* str.strip()
Strip(value) == value.text

\* _require_str() and _require_instance_field() accept the field.
HasText(mapping, key) ==
    LET value == Get(mapping, key, Str("")) IN value.type = "str" /\ Strip(value) # ""

\* _parse_instance() accepts the entry.
IsInstance(item) ==
    /\ \A key \in {"name", "phone", "pin"} : HasText(item, key)
    /\ Strip(item.of["name"]) \in Slugs

\* [inst.name for inst in instances]
ParsedNames(items) == [i \in DOMAIN items |-> Strip(items[i].of["name"])]

\* Mutant of AreDistinct: the names are compared as they are written.
WrittenDistinct(items) ==
    \A i, j \in DOMAIN items : items[i].of["name"] = items[j].of["name"] => i = j

\* No name is met twice.
AreDistinct(items) ==
    LET names == ParsedNames(items)
    IN  \A i, j \in DOMAIN names : names[i] = names[j] => i = j

\* _parse_instances() accepts the list.
HasInstances(raw) ==
    LET value == Get(raw, "instances", Null)
    IN  /\ value.type = "list" /\ value.items # <<>>
        /\ \A i \in DOMAIN value.items : value.items[i].type = "dict"
        /\ \A i \in DOMAIN value.items : IsInstance(value.items[i])
        /\ AreDistinct(value.items)

\* _parse_tfa_timeout() accepts the value.
IsTimeout(value) == value.type # "bool" /\ IsInt(value) /\ value.value > 0

TfaTimeout(raw) == Get(raw, "tfa_timeout", Number(120))

\* from_file() returns; otherwise it raises ConfigError.
Loads(file) ==
    /\ file.type = "dict"
    /\ HasText(file, "api_key")
    /\ HasInstances(file)
    /\ IsTimeout(TfaTimeout(file))

\* The Config that from_file() returns; phones and pins go to pytr as they are.
FromFile(file) ==
    [api_key     |-> Strip(file.of["api_key"]),
     names       |-> ParsedNames(file.of["instances"].items),
     tfa_timeout |-> TfaTimeout(file)]

\* The names of a configuration: the keys of the registry, and of the
\* directories session_dir() names.
InstanceNames(config) == {config.names[i] : i \in DOMAIN config.names}
==============================================================================
