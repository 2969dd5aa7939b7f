-------------------------------- MODULE Paths --------------------------------
(***************************************************************************)
(* The path functions of util/util.cc: UnifyDir, FindCommonRoot, Relative  *)
(* (scans and synchronisations name a directory by its path relative to    *)
(* the root they began at) and SimplifyPath.  A path is a sequence of      *)
(* characters, as these functions compare prefixes and count characters.   *)
(***************************************************************************)
EXTENDS SequencesExt, Integers

CONSTANT PathInputs     \* pairs of a path and a base

VARIABLES
    path, base,         \* the arguments
    relative            \* what Relative makes of them

pathVars == <<path, base, relative>>

Slash == <<"/">>

-----------------------------------------------------------------------------
(* External: boost::replace_all of "//" by "/", std::getline at "/" without *)
(* the empty tokens, and std::filesystem::path::parent_path.               *)

ReplaceSlashes(s) ==
    LET Next1(acc, c) ==
            IF c # "/" THEN [out |-> Append(acc.out, c), open |-> FALSE]
            ELSE IF acc.open THEN [acc EXCEPT !.open = FALSE]
            ELSE [out |-> Append(acc.out, c), open |-> TRUE]
    IN  FoldLeft(Next1, [out |-> <<>>, open |-> FALSE], s).out

Tokens(s) ==
    LET Next1(acc, c) == IF c = "/" THEN Append(acc, <<>>)
                                    ELSE [acc EXCEPT ![Len(acc)] = Append(@, c)]
    IN  SelectSeq(FoldLeft(Next1, <<<<>>>>, s), LAMBDA t : t # <<>>)

parent_path(s) ==
    LET cut == {i \in 1 .. Len(s) : s[i] = "/"}
        last == CHOOSE i \in cut : \A j \in cut : j <= i
    IN  IF cut = {} THEN <<>>
        ELSE IF last = 1 THEN Slash
        ELSE SubSeq(s, 1, last - 1)

-----------------------------------------------------------------------------

\* One trailing slash goes, and every double slash becomes one.
UnifyDir(s) ==
    ReplaceSlashes(IF Len(s) > 1 /\ Last(s) = "/" THEN Front(s) ELSE s)

\* Mutant: ".." at the top stays there.
SimplifyPathAtTop(s) ==
    LET Next1(acc, token) ==
            IF token = <<".", ".">>
              THEN IF acc # <<>> THEN Front(acc) ELSE acc
              ELSE IF token = <<".">> THEN acc ELSE Append(acc, token)
        Join(acc, dir) == acc \o dir \o Slash
        start == IF s # <<>> /\ Head(s) = "/" THEN Slash ELSE <<>>
    IN  [ok |-> TRUE,
         out |-> UnifyDir(FoldLeft(Join, start,
                                   FoldLeft(Next1, <<>>, Tokens(s))))]

SimplifyPath(s) ==
    LET Next1(acc, token) ==
            IF token = <<".", ".">>
              THEN IF acc.dirs # <<>> THEN [acc EXCEPT !.dirs = Front(@)]
                                      ELSE [acc EXCEPT !.ok = FALSE]
              ELSE IF token = <<".">> THEN acc
              ELSE [acc EXCEPT !.dirs = Append(@, token)]
        end == FoldLeft(Next1, [ok |-> TRUE, dirs |-> <<>>], Tokens(s))
        start == IF s # <<>> /\ Head(s) = "/" THEN Slash ELSE <<>>
        Join(acc, dir) == acc \o dir \o Slash
    IN  [ok |-> end.ok,
         out |-> IF end.ok THEN UnifyDir(FoldLeft(Join, start, end.dirs))
                           ELSE <<>>]

\* Mutant: the base itself is not tried.
RECURSIVE FindCommonRootAbove(_, _)
FindCommonRootAbove(p, b) ==
    LET t == parent_path(b)
    IN  IF b = Slash \/ t = <<>> THEN <<>>
        ELSE IF IsPrefix(t, p) THEN t
        ELSE FindCommonRootAbove(p, t)

\* The first of the base and the directories above it that the path starts
\* with, character by character; the empty path if there is none.
RECURSIVE FindCommonRoot(_, _)
FindCommonRoot(p, t) ==
    IF IsPrefix(t, p) THEN t
    ELSE IF t = Slash \/ parent_path(t) = <<>> THEN <<>>
    ELSE FindCommonRoot(p, parent_path(t))

RECURSIVE Ups(_, _)
Ups(t, common) ==
    IF t = common THEN <<>> ELSE <<".", ".", "/">> \o Ups(parent_path(t), common)

Relative(p, b) ==
    LET u_path == UnifyDir(p)
        u_base == UnifyDir(b)
        common == FindCommonRoot(u_path, u_base)
    IN  [ok |-> common # <<>>,
         out |-> IF common = <<>> THEN <<>>
                 ELSE UnifyDir(Ups(u_base, common)
                               \o SubSeq(u_path, Len(common) + 2, Len(u_path)))]

-----------------------------------------------------------------------------

NotCalled == [ok |-> FALSE, out |-> <<>>]

PathInit ==
    /\ \E i \in PathInputs : path = i[1] /\ base = i[2]
    /\ relative = NotCalled

CallRelative ==
    /\ relative = NotCalled
    /\ relative' = Relative(path, base)
    /\ UNCHANGED <<path, base>>

PathNext == CallRelative

-----------------------------------------------------------------------------

Unified(s) == UnifyDir(UnifyDir(s)) = UnifyDir(s)

\* The result of Relative leads from the base back to the path exactly when the
\* two have a directory below "/" in common (or the path is "/") and the name at
\* which they part is not, in the base, the beginning of the path's: of "/ab"
\* from "/a" Relative says "", and of "/ab" from "/" it says "b".  A path below
\* the root of a scan is always named right unless that root is "/".  (Of a path
\* that ends in two slashes, or has three in a row, UnifyDir leaves one too many.)
RelativeLeadsBack ==
    relative.ok /\ Unified(path) /\ Unified(base) =>
        LET p == Tokens(path)
            b == Tokens(base)
            common == Len(LongestCommonPrefix({p, b}))
            part == common + 1
        IN  SimplifyPath(base \o Slash \o relative.out) = SimplifyPath(path)
            <=> /\ common > 0 \/ p = <<>>
                /\ part \in DOMAIN p \cap DOMAIN b => ~IsPrefix(b[part], p[part])

\* SimplifyPath keeps exactly the names that no ".." behind them takes away: a
\* ".." takes the last name before it that is not taken, and it is an error if
\* there is none.
SimplifyPathRight ==
    LET t == SelectSeq(Tokens(path), LAMBDA x : x # <<".">>)
        Up(i) == t[i] = <<".", ".">>
        Names(i, j) == Cardinality({k \in i .. j : ~Up(k)})
        Balanced(i, j) == 2 * Names(i, j) = j - i + 1
        Taken(i) == \E j \in i + 1 .. Len(t) : Up(j) /\ Balanced(i, j)
        kept == {i \in 1 .. Len(t) : ~Up(i) /\ ~Taken(i)}
        result == SimplifyPath(path)
    IN  /\ result.ok <=> \A j \in 1 .. Len(t) : 2 * Names(1, j) >= j
        /\ result.ok =>
              /\ Tokens(result.out) = [n \in 1 .. Cardinality(kept) |->
                    t[CHOOSE i \in kept :
                        Cardinality({k \in kept : k <= i}) = n]]
              /\ (path # <<>> /\ Head(path) = "/")
                    <=> (result.out # <<>> /\ Head(result.out) = "/")

==============================================================================
