------------------------------ MODULE Sources ------------------------------
(***************************************************************************)
(* Source containers and the keys that lie under them: the checks on        *)
(* path_prefix in config::validate (src/config.rs), the source that         *)
(* pipeline.rs reads a file under, and the files that execute_job gives to  *)
(* a mapping.  A path prefix and a key are strings in the sense of Text.    *)
(***************************************************************************)
EXTENDS Text

\* A segment ".." of path p.
HasParent(p) ==
    \E i \in 1..(Len(p) - 1) :
        /\ p[i] = "." /\ p[i + 1] = "."
        /\ i = 1 \/ p[i - 1] = "/"
        /\ i + 1 = Len(p) \/ p[i + 2] = "/"

WellFormed(p) ==
    /\ p # <<>>
    /\ p[1] # "/"
    /\ p[Len(p)] = "/"
    /\ ~HasParent(p)

\* Looks at each pair of sources one way only.
NestedLater(prefixes) ==
    \E i, j \in DOMAIN prefixes :
        i < j /\ prefixes[i] # <<>> /\ StartsWith(prefixes[j], prefixes[i])

\* Some source's prefix starts with another's.
Nested(prefixes) ==
    \E i, j \in DOMAIN prefixes :
        i # j /\ prefixes[i] # <<>> /\ StartsWith(prefixes[j], prefixes[i])

PrefixesValid(prefixes) ==
    /\ \A i \in DOMAIN prefixes : WellFormed(prefixes[i])
    /\ ~Nested(prefixes)

\* The sources a key lies under.
Matching(prefixes, key) == {i \in DOMAIN prefixes : StartsWith(key, prefixes[i])}

\* resolve_source_container: the first in declaration order, 0 for none.
ResolveSource(prefixes, key) ==
    IF Matching(prefixes, key) = {} THEN 0
    ELSE CHOOSE i \in Matching(prefixes, key) :
            \A j \in Matching(prefixes, key) : i <= j

=============================================================================
