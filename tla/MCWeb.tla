--------------------------------- MODULE MCWeb ---------------------------------
(* Model checking of Web: the files that may be at the configuration's path, *)
(* the requests, and a calendar.                                             *)
EXTENDS Web, SequencesExt

Entry(name) == Mapping([name |-> name, phone |-> Str("phone"), pin |-> Str("pin")])

FileOf(key, timeout, items) ==
    Mapping([api_key |-> key, tfa_timeout |-> timeout, instances |-> List(items)])

Pair == <<Entry(Str("a")), Entry(Str("b"))>>

\* Names as they may be written: with and without white space, no slug, no text.
WrittenNames == {Str("a"), Padded("a"), Str("b"), Str("a/b"), Str(""), Number(1), Null}

\* Entries that lack a field, or are no mapping.
OddEntries ==
    {Null, Mapping([name |-> Str("a"), phone |-> Str("phone")]),
     Mapping([phone |-> Str("phone"), pin |-> Str("pin")]),
     Mapping([name |-> Str("a"), phone |-> Number(49), pin |-> Str("pin")])}

\* Every list of up to two entries, every key, every timeout, with the rest of
\* the file as it should be; three instances; no document, and no mapping.
MCFiles ==
    {FileOf(Str("key"), Number(120), items) :
        items \in SeqOf({Entry(name) : name \in WrittenNames} \cup OddEntries, 2)}
    \cup {FileOf(key, Number(120), Pair) :
        key \in {Str("key"), Padded("key"), Str("nonascii"), Str(""), Number(1), Null}}
    \cup {FileOf(Str("key"), timeout, Pair) :
        timeout \in {Number(1), Number(0), Number(-1), Truth(TRUE), Truth(FALSE), Str("120"), Null}}
    \cup {Mapping([api_key |-> Str("key"), instances |-> List(Pair)]),
          Mapping([api_key |-> Str("key")]), Mapping([instances |-> List(Pair)]),
          FileOf(Str("key"), Number(120), Append(Pair, Entry(Str("c")))),
          Unreadable, Malformed, Null, List(Pair)}

\* A float for every two instants: 1 and 2 have the same one.
MCFloat == [i \in Instants |-> IF i % 2 = 0 THEN i - 1 ELSE i]

\* Every pair of timestamps with any offsets, an until that is missing at any
\* time of the clock, and values that are no timestamps.
Aware == [form : {"aware"}, wall : Wall, offset : Offset]
Written(form) == [form |-> form, wall |-> 0, offset |-> 0]
MCQueries ==
    [since : Aware, until : Aware, now : {0}]
    \cup [since : Aware, until : {Written("missing")}, now : Wall]
    \cup [since : {Written("naive")}, until : [form : {"naive"}, wall : Wall, offset : {0}], now : {0}]
    \cup [since : {Written(form) : form \in {"missing", "garbage", "date_only"}},
          until : {Written("missing")}, now : {1}]
    \cup [since : {Written("naive")}, now : {1},
          until : {Written(form) : form \in {"garbage", "date_only"}}]

\* Every path, method and header; an instance that is configured and one that is
\* not; a body and a window that are right and wrong.
Good == [since |-> Written("naive"), until |-> Written("missing"), now |-> 1]
Bad == [since |-> Written("missing"), until |-> Written("missing"), now |-> 1]

Base == [slash : BOOLEAN, method : {"GET", "POST"}, key : {NoHeader, "key", "other", "nonascii"}]
With(S, fields) == {fields @@ s : s \in S}

MCRequests ==
    UNION {With(Base, [path |-> path, name |-> "a"]) :
              path \in (Routes \cup {Unrouted}) \ (InstanceRoutes \cup {"/"})}
    \cup {req \in With(Base, [path |-> "/", name |-> "a"]) : ~req.slash}
    \cup UNION {With(Base, [path |-> path, name |-> name]) :
              path \in {"status", "login"}, name \in {"a", "c"}}
    \cup UNION {With(Base, [path |-> "2fa", name |-> name, hasCode |-> hasCode]) :
              name \in {"a", "c"}, hasCode \in BOOLEAN}
    \cup UNION {With(Base, [path |-> "timeline", name |-> name, query |-> query]) :
              name \in {"a", "c"}, query \in {Good, Bad}}
    \cup {[path |-> "timeline", name |-> "a", slash |-> FALSE, method |-> "GET", key |-> "key",
           query |-> query] : query \in MCQueries}
==============================================================================
