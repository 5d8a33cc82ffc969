-------------------------------- MODULE Bson --------------------------------
(***************************************************************************)
(* The documents of bson.c, in which requests and replies travel: a length *)
(* of four bytes, elements (type, name, value), and a final zero.  A       *)
(* document is the sequence of its bytes; offsets count from 0 as they do  *)
(* in C.  A setter writes an element at the end of a document; called      *)
(* without one it only says how much the document would grow, which is how *)
(* the callers know what to allocate.  So every setter is two operators    *)
(* here: Set... and Measure...                                             *)
(***************************************************************************)
EXTENDS Integers, Sequences, SequencesExt, FiniteSetsExt

\* The element types that the code names.
Double == 1         String == 2     Document == 3   Array == 4      Binary == 5
Undefined == 6      ObjectId == 7   Boolean == 8    DateTime == 9   Null == 10
Regex == 11         DBPointer == 12 Code == 13      Symbol == 14    CodeScope == 15
Int32 == 16         Timestamp == 17 Int64 == 18     Decimal == 19

INVALID == -1           \* "not valid BSON", or no such element
FirstOffset == 4        \* bson_first_offset
EmptySize == 5          \* bson_empty_size

At(doc, off) == doc[off + 1]
From(doc, off) == SubSeq(doc, off + 1, Len(doc))
CString(s) == Append(s, 0)

\* write_unaligned_int: four bytes, the lowest first.
Int4(n) == <<n % 256, (n \div 256) % 256, (n \div 65536) % 256, (n \div 16777216) % 256>>

\* read_unaligned_int: the sign is in the highest byte.
ReadInt(doc, off) ==
    LET high == At(doc, off + 3)
    IN At(doc, off) + 256 * At(doc, off + 1) + 65536 * At(doc, off + 2)
         + 16777216 * (IF high < 128 THEN high ELSE high - 256)

\* strnlen and the test after it: the place behind the string at off, which must
\* end, and not be the last thing in the document.
AfterString(doc, off, end) ==
    LET next == 1 + Min({i \in off..(end - 1) : At(doc, i) = 0} \cup {end})
    IN IF end <= next THEN INVALID ELSE next

\* measure_value: how long the value is that starts at off.
MeasureValue(type, doc, off, end) ==
    CASE type \in {Double, DateTime, Timestamp, Int64}       -> 8
         [] type \in {String, Code, Symbol, CodeScope, Document, Array, Binary, DBPointer} ->
              LET len == ReadInt(doc, off)
                  beside == CASE type \in {Document, Array}   -> 0
                              [] type = Binary                -> 4 + 1
                              [] type = DBPointer             -> 4 + 12
                              [] OTHER                        -> 4
              IN IF len < 0 THEN INVALID ELSE len + beside
         [] type \in {Undefined, Null}                       -> 0
         [] type = ObjectId                                  -> 12
         [] type = Boolean                                   -> 1
         [] type = Int32                                     -> 4
         [] type = Decimal                                   -> 16
         [] type = Regex ->
              LET flags == AfterString(doc, off, end)
                  next == IF flags = INVALID THEN INVALID ELSE AfterString(doc, flags, end)
              IN IF next = INVALID THEN INVALID ELSE next - off
         [] OTHER                                            -> INVALID

------------------------------------------------------------------------------
(* Reading.                                                                *)

\* The document ends where it says, with a zero, behind the place off.
Ends(doc, off) == LET end == ReadInt(doc, 0) IN end > off /\ At(doc, end - 1) = 0

\* Whether the string at off is the key.
IsKey(doc, off, key) == IsPrefix(CString(key), From(doc, off))

\* The place behind the value at off, if there is one.
AfterValue(type, doc, off, end) ==
    LET len == IF off = INVALID THEN INVALID ELSE MeasureValue(type, doc, off, end)
    IN IF len = INVALID THEN INVALID ELSE off + len

\* The offsets of the elements in the order of the scan; INVALID is last where
\* the scan fails.
Elements(doc) ==
    LET end == ReadInt(doc, 0)
        value(i) == AfterString(doc, i + 1, end)
        scan[i \in {INVALID} \cup Nat] ==
          IF i = INVALID THEN <<INVALID>>
          ELSE IF i >= end \/ At(doc, i) = 0 THEN << >>
          ELSE IF value(i) = INVALID THEN <<INVALID>>
          ELSE <<i>> \o scan[AfterValue(At(doc, i), doc, value(i), end)]
    IN scan[FirstOffset]

\* The elements whose name is the key.
Named(doc, key) ==
    SelectSeq(Elements(doc), LAMBDA i : i # INVALID /\ IsKey(doc, i + 1, key))

\* Mutant: the last element with the name is found.
FindLast(doc, key) == Last(<<INVALID>> \o Named(doc, key))

\* What bson_get_props stores for a key: where the first element of that name is.
Find(doc, key) == Head(Append(Named(doc, key), INVALID))

\* What bson_get_props returns: how many of the keys were found; once all are,
\* the rest of the document is not looked at.
Props(doc, keys) ==
    LET found == {k \in keys : Find(doc, k) # INVALID}
    IN IF ~ Ends(doc, FirstOffset) THEN INVALID
       ELSE IF found # keys /\ INVALID \in ToSet(Elements(doc)) THEN INVALID
       ELSE Cardinality(found)

\* seek_data: where the value of the element at off is, if it has one of the types.
SeekData(doc, off, types) ==
    IF off < FirstOffset \/ ~ Ends(doc, off) \/ At(doc, off) \notin types THEN INVALID
    ELSE AfterString(doc, off + 1, ReadInt(doc, 0))

\* The getters, without the default that they return for INVALID.
GetString(doc, off) ==
    LET data == SeekData(doc, off, {String})
        len == ReadInt(doc, data)
    IN IF data = INVALID THEN INVALID
       ELSE IF len <= 0 \/ ReadInt(doc, 0) - (data + 4) < len THEN INVALID
       ELSE IF At(doc, data + 4 + len - 1) # 0 THEN INVALID
       ELSE data + 4

GetSubdocument(doc, off) == SeekData(doc, off, {Document, Array})

\* The place of the bytes, and how many.
GetBinary(doc, off) ==
    LET data == SeekData(doc, off, {Binary})
        binlen == ReadInt(doc, data)
    IN IF data = INVALID THEN [at |-> INVALID, binlen |-> 0]
       ELSE IF binlen <= 0 \/ ReadInt(doc, 0) - (data + 4 + 1) < binlen
         THEN [at |-> INVALID, binlen |-> 0]
       ELSE [at |-> data + 4 + 1, binlen |-> binlen]

GetBoolean(doc, off, default) ==
    LET data == SeekData(doc, off, {Boolean})
    IN IF data = INVALID THEN default ELSE IF At(doc, data) # 0 THEN 1 ELSE 0

GetInt32(doc, off, default) ==
    LET data == SeekData(doc, off, {Int32})
    IN IF data = INVALID THEN default ELSE ReadInt(doc, data)

\* The eight bytes of a double.
GetDouble(doc, off, default) ==
    LET data == SeekData(doc, off, {Double})
    IN IF data = INVALID THEN default ELSE SubSeq(doc, data + 1, data + 8)

------------------------------------------------------------------------------
(* Writing.  Memory past a document's end is not part of it.               *)

EmptyDocument == <<5, 0, 0, 0, 0>>

WriteLength(doc, n) == Int4(n) \o From(doc, 4)

\* Put type, name and value where the final zero is, and a new zero behind them.
Extend(doc, type, key, value) ==
    LET end == ReadInt(doc, 0)
        body == SubSeq(doc, 1, end - 1) \o <<type>> \o CString(key) \o value \o <<0>>
    IN WriteLength(body, Len(body))

MeasureSubelement(key, len) == 1 + (Len(key) + 1) + len

SetString(doc, key, string) ==
    Extend(doc, String, key, Int4(Len(string) + 1) \o CString(string))
\* Mutant: the length field of the string is not counted.
MeasureStringShort(key, string) == 1 + (Len(key) + 1) + (Len(string) + 1)
MeasureString(key, string) == 1 + (Len(key) + 1) + 4 + (Len(string) + 1)

\* set_subdocument copies as many bytes as the document says it has.
SetSub(doc, type, key, sub) == Extend(doc, type, key, SubSeq(sub, 1, ReadInt(sub, 0)))
MeasureSub(key, sub) == MeasureSubelement(key, ReadInt(sub, 0))

SetBoolean(doc, key, value) == Extend(doc, Boolean, key, <<IF value # 0 THEN 1 ELSE 0>>)
SetInt32(doc, key, value) == Extend(doc, Int32, key, Int4(value))
SetDouble(doc, key, bytes) == Extend(doc, Double, key, bytes)
SetNull(doc, key) == Extend(doc, Null, key, << >>)
MeasureBoolean(key) == MeasureSubelement(key, 1)
MeasureInt32(key) == MeasureSubelement(key, 4)
MeasureDouble(key) == MeasureSubelement(key, 8)
MeasureNull(key) == MeasureSubelement(key, 0)

\* A binary of binlen zeros (the caller writes through *bufptr).
SetBinary(doc, key, binlen) ==
    Extend(doc, Binary, key, Int4(binlen) \o <<0>> \o [i \in 1..binlen |-> 0])
MeasureBinary(key, binlen) ==
    IF binlen < 0 THEN -1 ELSE 1 + (Len(key) + 1) + 4 + 1 + binlen
\* Where *bufptr points.
BufPtr(doc, key) == ReadInt(doc, 0) + (Len(key) + 1) + 4 + 1

\* memcpy to a place in the document.
Poke(doc, off, bytes) ==
    [i \in DOMAIN doc |-> IF i - off \in DOMAIN bytes THEN bytes[i - off] ELSE doc[i]]

\* Mutant: the document keeps its length.
ShrinkBinaryOnly(doc, buf, binlen) ==
    LET cut == SubSeq(doc, 1, buf + binlen) \o <<0>> IN Poke(cut, buf - 5, Int4(binlen))

\* bson_shrink_binary: only the last element, and only to fewer bytes.
ShrinkBinary(doc, buf, binlen) ==
    LET old == ReadInt(doc, buf - 5)
    IN IF At(doc, buf + old) # 0 \/ old <= binlen THEN doc
       ELSE LET cut == SubSeq(doc, 1, buf + binlen) \o <<0>>
            IN WriteLength(Poke(cut, buf - 5, Int4(binlen)), ReadInt(doc, 0) - (old - binlen))

\* bson_set_element: the value of the element of from at off, which is copied
\* under the name key; nothing is, if there is no such element.
ElementValue(from, off) ==
    LET end == ReadInt(from, 0)
        value == AfterString(from, off + 1, end)
        next == AfterValue(At(from, off), from, value, end)
    IN IF off < FirstOffset \/ ~ Ends(from, off + 1) \/ next = INVALID
         THEN [type |-> INVALID, bytes |-> << >>]
         ELSE [type |-> At(from, off), bytes |-> SubSeq(from, value + 1, next)]

SetElement(doc, key, from, off) ==
    LET e == ElementValue(from, off)
    IN IF e.type = INVALID THEN doc ELSE Extend(doc, e.type, key, e.bytes)
MeasureElement(key, from, off) ==
    LET e == ElementValue(from, off)
    IN IF e.type = INVALID THEN 0 ELSE MeasureSubelement(key, Len(e.bytes))
=============================================================================
