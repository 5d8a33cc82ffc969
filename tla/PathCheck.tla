------------------------------ MODULE PathCheck ------------------------------
(***************************************************************************)
(* Which paths peridot_client_fs.c lets the host open: the lists of paths  *)
(* given at configuration time, taken apart by add_list, and the walk over *)
(* the resulting entries in validate_path.  An entry there is no memory    *)
(* for is left out, and nobody is told.  A string is a sequence of         *)
(* characters, and one past its end is NUL.                                *)
(***************************************************************************)
EXTENDS Integers, Sequences, SequencesExt, FiniteSetsExt

CONSTANTS Names,      \* the characters of names
          MaxList,    \* bound: the length of the lists together
          MaxPath     \* bound: the length of a path

ASSUME PathAssumption ==
    Names \cap {"/", ":", "NUL"} = {} /\ MaxList \in Nat /\ MaxPath \in Nat

\* No name is empty: "//" occurs in no list and no path.
Tidy(s) == \A i \in 2..Len(s) : s[i - 1] # "/" \/ s[i] # "/"
Lists == {s \in SeqOf(Names \cup {"/", ":"}, MaxList) : Tidy(s)}
Paths == {s \in SeqOf(Names \cup {"/"}, MaxPath) : Tidy(s)}
Modes == {"RDWR", "RDONLY", "WRONLY"}

\* The bits of (flags & O_ACCMODE) + 1.
Access(mode) == CASE mode = "RDWR"   -> {"read", "write"}
                  [] mode = "RDONLY" -> {"read"}
                  [] mode = "WRONLY" -> {"write"}

VARIABLES entries,    \* the list that starts at ll_first
          rw, ro, wo, \* arguments of init
          lost,       \* history: the entries that malloc failed for
          path, mode, \* arguments of validate_path
          result      \* "init", then "none", then what validate_path returned

lists == <<rw, ro, wo>>
pathVars == <<entries, lists, lost, path, mode, result>>

------------------------------------------------------------------------------
(* add_list                                                                *)

NUL == "NUL"
Char(s, i) == IF i < Len(s) THEN s[i + 1] ELSE NUL    \* s[i] of the C code

\* add_path: a name with its slash removed is a directory.
Entry(name, m) ==
    IF Last(name) = "/" THEN [name |-> Front(name), dir |-> TRUE, mode |-> m]
                        ELSE [name |-> name, dir |-> FALSE, mode |-> m]

\* What has been found of a list, and the name that has been begun.  A colon
\* ends it; an empty name is skipped.
Begun == [name |-> << >>, found |-> << >>]
Scan(d, c, m) ==
    IF c # ":" THEN [d EXCEPT !.name = Append(@, c)]
    ELSE [name |-> << >>,
          found |-> IF d.name = << >> THEN d.found ELSE Append(d.found, Entry(d.name, m))]

AddList(list, m) ==
    FoldLeft(LAMBDA d, c : Scan(d, c, m), Begun, Append(list, ":")).found

------------------------------------------------------------------------------
(* validate_path                                                           *)

\* The length of the path without a slash at its end.
Length(p) == IF Last(p) = "/" THEN Len(p) - 1 ELSE Len(p)

\* "path forward match": the entry's name starts the path.
Matches(e, p) == Len(e.name) <= Length(p) /\ IsPrefix(e.name, p)

Grants(e, m) == Access(m) \subseteq Access(e.mode)

\* Mutant: where the name ends in the path is not looked at.
EndsAnywhere(e, p) == TRUE

\* The entry's name ends where a name of the path does.
EndsName(e, p) ==
    \/ Char(p, Len(e.name)) = NUL
    \/ e.dir /\ Char(p, Len(e.name)) = "/"

\* Mutant: an entry that does not grant the access refuses every path.
ValidateAny(es, p, m) ==
    /\ p # << >> /\ es # << >>
    /\ \A i \in DOMAIN es : Grants(es[i], m)
    /\ \E i \in DOMAIN es : Matches(es[i], p) /\ EndsName(es[i], p)

\* The walk stops at the first entry that matches and either does not grant
\* the access or matches up to the end of a name.
Validate(es, p, m) ==
    /\ p # << >>
    /\ LET deciding == {i \in DOMAIN es :
                          Matches(es[i], p) /\ (~ Grants(es[i], m) \/ EndsName(es[i], p))}
       IN deciding # {} /\ Grants(es[Min(deciding)], m)

------------------------------------------------------------------------------
PathInit ==
    /\ rw \in Lists /\ ro \in Lists /\ Len(rw) + Len(ro) <= MaxList
    /\ wo \in Lists /\ Len(rw) + Len(ro) + Len(wo) <= MaxList
    /\ entries = << >> /\ lost = {}
    /\ path \in Paths /\ mode \in Modes
    /\ result = "init"

\* The calls of add_path, in their order.
AllEntries == AddList(rw, "RDWR") \o AddList(ro, "RDONLY") \o AddList(wo, "WRONLY")

\* peridot_client_fs_init: add_path returns without a word where malloc fails.
AddLists ==
    /\ result = "init" /\ result' = "none"
    /\ \E n \in 0..Len(AllEntries) : \E kept \in [1..n -> DOMAIN AllEntries] :
         /\ \A i, j \in 1..n : i < j => kept[i] < kept[j]
         /\ entries' = [i \in 1..n |-> AllEntries[kept[i]]]
    /\ lost' = Range(AllEntries) \ Range(entries')
    /\ UNCHANGED <<lists, path, mode>>

ValidatePath ==
    /\ result = "none"
    /\ result' = IF Validate(entries, path, mode) THEN "allowed" ELSE "refused"
    /\ UNCHANGED <<entries, lists, lost, path, mode>>

PathNext == AddLists \/ ValidatePath

PathSpec == PathInit /\ [][PathNext]_pathVars

------------------------------------------------------------------------------
(* What the lists mean: a file may be accessed if it is listed, or lies in *)
(* a listed directory, with that access.                                   *)

\* The names in a list, each between two colons or ends.
NamesIn(list) ==
    LET Cut(i) == i \in {0, Len(list) + 1} \/ list[i] = ":"
        Spans == {s \in (1..Len(list)) \X (1..Len(list)) :
                    /\ Cut(s[1] - 1) /\ Cut(s[2] + 1)
                    /\ s[1] <= s[2] /\ \A k \in s[1]..s[2] : list[k] # ":"}
    IN {SubSeq(list, s[1], s[2]) : s \in Spans}

Covers(name, p) ==
    \/ p = name
    \/ Last(name) = "/" /\ (p = Front(name) \/ IsPrefix(name, p))

ListedIn(list, p) == \E name \in NamesIn(list) : Covers(name, p)

\* The lists, with the access each gives.
Given == {<<rw, "RDWR">>, <<ro, "RDONLY">>, <<wo, "WRONLY">>}
Gives(g) == Access(mode) \subseteq Access(g[2])

------------------------------------------------------------------------------
PathTypeOK ==
    /\ entries \in Seq([name : Seq(Names \cup {"/"}), dir : BOOLEAN, mode : Modes])
    /\ lost \subseteq Range(AllEntries)
    /\ path \in Paths /\ mode \in Modes
    /\ result \in {"init", "none", "allowed", "refused"}

\* A path that is allowed is listed, as itself or by a directory above it, in a
\* list that gives the access: a name that only starts like a listed one is
\* not, and neither is a directory's name with the file's entry.
AllowedIsListed ==
    result = "allowed" => \E g \in Given : Gives(g) /\ ListedIn(g[1], path)

\* A listed path is refused only if a list without that access has a name that
\* the path starts with, or if there was no memory for any of the entries that
\* allow it.
Starts(name, p) == IsPrefix(IF Last(name) = "/" THEN Front(name) ELSE name, p)
NoneAllows(g) ==
    \A name \in NamesIn(g[1]) : Covers(name, path) => Entry(name, g[2]) \in lost
RefusedForAName ==
    result = "refused" /\ path # << >> =>
        \/ \A g \in Given : Gives(g) => NoneAllows(g)
        \/ \E g \in Given : ~ Gives(g) /\ \E name \in NamesIn(g[1]) : Starts(name, path)

\* "A list of one or more write-only files": a file that is listed with the
\* access, and not without it, may be opened, if there was memory for the lists.
ListedIsAllowed ==
    result = "refused" /\ path # << >> /\ lost = {} =>
        \/ \A g \in Given : Gives(g) => ~ ListedIn(g[1], path)
        \/ \E g \in Given : ~ Gives(g) /\ ListedIn(g[1], path)
==============================================================================
