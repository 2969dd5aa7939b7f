------------------------------- MODULE StdMap -------------------------------
(***************************************************************************)
(* std::unordered_map as a function whose domain is the set of keys        *)
(* present.  The names are those of the C++ member functions.              *)
(***************************************************************************)

\* An empty map.
EmptyMap == [k \in {} |-> k]

\* m.emplace(k, v), m.insert({k, v}): a key that is present keeps its value.
Emplace(m, k, v) ==
    [x \in DOMAIN m \cup {k} |-> IF x \in DOMAIN m THEN m[x] ELSE v]

\* m[k] = v: a key that is present gets the new value.
Assign(m, k, v) ==
    [x \in DOMAIN m \cup {k} |-> IF x = k THEN v ELSE m[x]]

\* m.erase(k)
Erase(m, k) == [x \in DOMAIN m \ {k} |-> m[x]]

=============================================================================
