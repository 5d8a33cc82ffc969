------------------------------ MODULE BootJson ------------------------------
(***************************************************************************)
(* What parse_boot_json of rubic_agent.c makes of the file boot.json.  A   *)
(* character is one of those that the parser looks for, a space, or a      *)
(* name, which stands for its letters.                                     *)
(*                                                                         *)
(* The parser has no other end than the NUL behind its buffer, and steps   *)
(* over it if a file that fills the buffer is cut off at the wrong place.  *)
(* What it finds, and overwrites, in the memory behind is undefined.       *)
(***************************************************************************)
EXTENDS Integers, Sequences
LOCAL INSTANCE FiniteSetsExt
LOCAL INSTANCE SequencesExt

CONSTANTS BootRuntimes, \* the names of the registered runtimes, in their order
          BootPath,     \* the path of the storage "internal"
          BOOT_BUFFER,  \* sizeof(buffer) - 1
          BootObjects   \* the objects that boot.json may hold

ASSUME BootAssumption == BOOT_BUFFER \in Nat /\ BootRuntimes \in Seq(STRING)

NUL == "NUL"
MISSING == 0        \* a pointer that is NULL; characters are numbered from 1
NoName == <<NUL>>   \* a name that is NULL
BootNothing == [runtime |-> MISSING, file |-> NoName]    \* parse_boot_json returns NULL
Astray == [runtime |-> -1, file |-> NoName]              \* it has left its buffer

\* The index of a runtime's name; without a name, the first.
FindRuntime(name) ==
    LET found == {i \in DOMAIN BootRuntimes : name = NoName \/ <<BootRuntimes[i]>> = name}
    IN IF found = {} THEN MISSING ELSE Min(found)

\* The file is read over its own path, and no NUL is put behind it.
Buffer(text) ==
    LET path == BootPath \o <<"/", "boot.json">>
    IN [i \in 1..BOOT_BUFFER |-> CASE i <= Len(text) -> text[i]
                                   [] i \in DOMAIN path /\ i > Len(text) -> path[i]
                                   [] OTHER -> NUL]

\* The buffer ends with one NUL.  A place behind it is read only where Outside says
\* so; it has no character.
Outside(b, i) == i > Len(b) + 1
CharAt(b, i) == IF i \in DOMAIN b THEN b[i] ELSE NUL

\* strpbrk(b + i, chars)
OUTSIDE == -1
FirstOf(b, i, chars) ==
    IF Outside(b, i) THEN OUTSIDE ELSE
    LET j == CHOOSE j \in i..(i + Len(b)) :
                 /\ CharAt(b, j) \in chars \cup {NUL}
                 /\ \A k \in i..(j - 1) : CharAt(b, k) \notin chars \cup {NUL}
    IN IF CharAt(b, j) = NUL THEN MISSING ELSE j

SkipSpaces(b, i) ==
    CHOOSE j \in i..(i + Len(b)) : CharAt(b, j) # " " /\ \A k \in i..(j - 1) : CharAt(b, k) = " "

\* Mutant: only the backslash is stepped over.
AfterEscapeShort(i) == i + 1

AfterEscape(i) == i + 2

\* Where the string that starts at i ends.
StringEnd(b, start) ==
    LET end[i \in Nat] ==
          LET j == FirstOf(b, i, {"\\", "\""})
          IN IF j # MISSING /\ CharAt(b, j) = "\\" THEN end[AfterEscape(j)] ELSE j
    IN end[start]

\* The two characters that may follow a value: any but "}" is taken for the first.
AfterValue(b, i) ==
    IF CharAt(b, i) = "}" THEN "end"
    ELSE CASE Outside(b, i + 1) -> "astray"
           [] ~ Outside(b, i + 1) /\ CharAt(b, i + 1) = "," -> "more"
           [] OTHER -> "error"

\* Where the value that starts at val ends.
ValueEnd(b, val) ==
    IF CharAt(b, val) = "\"" THEN StringEnd(b, val + 1)
                             ELSE FirstOf(b, val + 1, {"{", "}", "[", "]", ","})

\* The value of the key "name", from val to val_end, is taken: only strings count.
TakeValue(b, s, name, val, val_end) ==
    LET is_string == CharAt(b, val) = "\""
        string == SubSeq(b, val + 1, val_end - 1)
        next == IF is_string THEN SkipSpaces(b, val_end + 1) ELSE val_end
        after == CASE val_end = MISSING -> "error"
                   [] val_end = OUTSIDE -> "astray"
                   [] OTHER -> AfterValue(b, next)
    IN IF after \in {"error", "astray"} THEN [s EXCEPT !.state = after]
       ELSE [s EXCEPT
               !.runtime = IF is_string /\ name = <<"runtime">> THEN FindRuntime(string) ELSE @,
               !.file = IF is_string /\ name = <<"file">> THEN string ELSE @,
               !.at = next + 2,
               !.state = after]

ParseValue(b, s, name, val) == TakeValue(b, s, name, val, ValueEnd(b, val))

\* A key, from key to key_end, and its value are read.
ParseKey(b, s, key, key_end) ==
    LET colon == SkipSpaces(b, key_end + 1)
    IN IF CharAt(b, key) = "\"" /\ key_end # MISSING /\ CharAt(b, colon) = ":"
       THEN ParseValue(b, s, SubSeq(b, key + 1, key_end - 1), SkipSpaces(b, colon + 1))
       ELSE [s EXCEPT !.state = "error"]

\* One pass of the loop: a member is read at s.at.
ParseMember(b, s) ==
    LET key == SkipSpaces(b, s.at) IN ParseKey(b, s, key, FirstOf(b, key + 1, {"\""}))

\* What comes of the last pass.
FullPath(file) == IF CharAt(file, 1) = "/" THEN file ELSE BootPath \o <<"/">> \o file
Result(last) ==
    CASE last.state = "astray" -> Astray
      [] last.state = "end" /\ last.file # NoName -> [runtime |-> last.runtime, file |-> FullPath(last.file)]
      [] OTHER -> BootNothing

\* parse_boot_json
ParseBootJson(text) ==
    LET b == Buffer(text)
        open == SkipSpaces(b, 1)
        start == [at |-> open + 1, runtime |-> FindRuntime(NoName), file |-> NoName,
                  state |-> IF CharAt(b, open) = "{" THEN "more" ELSE "error"]
        pass[n \in Nat] ==
          IF n = 0 THEN start
          ELSE LET s == pass[n - 1] IN IF s.state = "more" THEN ParseMember(b, s) ELSE s
    IN Result(pass[Len(b)])

------------------------------------------------------------------------------
\* An object is a sequence of members; a value that is no string has its text.
\* (With one comma it is JSON; of two, the parser skips the first.)
Quoted(s) == <<"\"">> \o s \o <<"\"">>
Opening(m, space) == space \o Quoted(m.key) \o space \o <<":">>
Shown(v) == IF v.string THEN Quoted(v.text) ELSE v.text
Opened(object, space, comma) ==
    space \o <<"{">> \o FlattenSeq([i \in DOMAIN object |->
        (IF i = 1 THEN << >> ELSE comma)
          \o Opening(object[i], space) \o space \o Shown(object[i].value) \o space])
Written(object, space, comma) == Opened(object, space, comma) \o <<"}">> \o space
Spaces == {<< >>, <<" ">>}
Comma == <<",">>
Commas == {Comma, <<",", ",">>}

\* What the object asks for.
Asked(object) ==
    LET strings(key) == {i \in DOMAIN object : object[i].key = <<key>> /\ object[i].value.string}
        last(key) == object[Max(strings(key))].value.text
        file == last("file")
    IN IF strings("file") = {} THEN BootNothing
       ELSE [runtime |-> FindRuntime(IF strings("runtime") = {} THEN NoName ELSE last("runtime")),
             file |-> FullPath(file)]

\* Where an object may be cut off so that the parser steps over the NUL: before the
\* value of a member, right behind it if it is a string, or behind a backslash in it.
Brinks(object, space, comma) ==
    UNION {LET m == object[i]
               opening == Opened(SubSeq(object, 1, i - 1), space, comma)
                            \o (IF i = 1 THEN << >> ELSE comma) \o Opening(m, space)
               value == opening \o space \o Shown(m.value)
               escapes == {k \in DOMAIN value : k > Len(opening) /\ value[k] = "\\"}
           IN {opening, opening \o space}
                \cup (IF m.value.string THEN {value, value \o space} ELSE {})
                \cup {SubSeq(value, 1, k) : k \in escapes}
           : i \in DOMAIN object}

OnlyBoots(boot, boots, may_stray) == boot \in boots \/ (boot = Astray /\ may_stray)

\* A boot.json never boots anything but what it asks for; it boots that if it
\* says nothing else; and one that was cut off anywhere boots nothing, unless the
\* buffer is full and what it has of the file ends at such a place.
BootsAsWritten(object) ==
    \A space \in Spaces, comma \in Commas :
       LET text == Written(object, space, comma)
           alone == Len(object) = 1 /\ object[1].key = <<"file">> /\ object[1].value.string
           whole == Len(text) - Len(space)
           must == alone /\ whole <= BOOT_BUFFER
           strays == /\ Len(text) >= BOOT_BUFFER
                     /\ SubSeq(text, 1, BOOT_BUFFER) \in Brinks(object, space, comma)
       IN /\ OnlyBoots(ParseBootJson(text),
                       {Asked(object)} \cup (IF must THEN {} ELSE {BootNothing}), strays)
          /\ comma = Comma =>
               \A n \in 0..(whole - 1) :
                  OnlyBoots(ParseBootJson(SubSeq(text, 1, n)), {BootNothing}, n >= BOOT_BUFFER /\ strays)

AllBootAsWritten == \A object \in BootObjects : BootsAsWritten(object)
=============================================================================
