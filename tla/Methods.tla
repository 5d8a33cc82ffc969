------------------------------- MODULE Methods -------------------------------
(***************************************************************************)
(* What the RPC methods and the RPC server build: documents that callers   *)
(* measure, allocate and fill element by element (params and results), the *)
(* results of the methods fs.* and rubic.*, and the reply in which         *)
(* send_reply wraps them.  Beside the bytes of the document the model      *)
(* keeps the elements that it should have.                                 *)
(***************************************************************************)
EXTENDS Bson, Digests, TLC

CONSTANTS MaxElements,  \* bound: how many elements a caller sets
          Keys, Strings, Ints, Doubles, Contents,   \* inputs of the setters
          Foreign,      \* elements that only the host makes
          Requests,     \* the elements of requests that are replied to
          Files,        \* contents of files and of blocks of flash memory
          Slack,        \* bound: how much more or less than there is they ask for
          MaxCrc,       \* bound: how many bytes a CRC is computed of
          Threads,      \* values of RUBIC_AGENT_WORKER_THREADS
          Runtimes,     \* runtimes that may be registered, up to the limits:
          MAX_RUNTIMES, Storages, MAX_STORAGES

ASSUME MethodsAssumption ==
    /\ MaxElements \in Nat /\ Slack \in Nat /\ MaxCrc \in Nat
    /\ Threads \subseteq 1..10
    /\ MAX_RUNTIMES \in 1..10 /\ MAX_STORAGES \in Nat \ {0}

VARIABLES
    doc,        \* the document that is being built
    elements,   \* the elements it should have: their types, names and values
    room,       \* how much memory was allocated for it
    temps,      \* the temporary documents: their length and their memory
    buf,        \* where *bufptr points, or INVALID
    phase,      \* "compose", "result" (of a method), "reply", or "undefined": what
                \* memory holds from then on is
    digest,     \* history: what was hashed, and what came of it
    long        \* history: a name of LongNames was put into the information

vars == <<doc, elements, room, temps, buf, phase, digest, long>>
history == <<digest, long>>

Element(type, key, value) == [type |-> type, key |-> key, value |-> value]

\* BSON as its specification has it.
Encode(es) ==
    LET body == FoldLeft(LAMBDA s, e : s \o <<e.type>> \o e.key \o <<0>> \o e.value, << >>, es)
    IN Int4(Len(body) + 5) \o body \o <<0>>
EncodeString(s) == Int4(Len(s) + 1) \o s \o <<0>>
EncodeBinary(b) == Int4(Len(b)) \o <<0>> \o b

NoDigest == [bytes |-> << >>, value |-> << >>]

Init ==
    /\ doc = EmptyDocument /\ elements = << >> /\ room = EmptySize
    /\ temps = {} /\ buf = INVALID /\ phase = "compose"
    /\ digest = NoDigest /\ long = FALSE

------------------------------------------------------------------------------
(* A caller measures an element, makes room for it and sets it.            *)

Compose(new, measure, element) ==
    /\ phase = "compose" /\ Len(elements) < MaxElements
    /\ doc' = new /\ room' = room + measure
    /\ elements' = Append(elements, element)
    /\ UNCHANGED <<temps, phase, history>>

ComposeString(k, s) ==
    /\ Compose(SetString(doc, k, s), MeasureString(k, s), Element(String, k, EncodeString(s)))
    /\ UNCHANGED buf

ComposeSub(type, k, es) ==
    /\ Compose(SetSub(doc, type, k, Encode(es)), MeasureSub(k, Encode(es)),
               Element(type, k, Encode(es)))
    /\ UNCHANGED buf

ComposeBoolean(k, n) ==
    /\ Compose(SetBoolean(doc, k, n), MeasureBoolean(k),
               Element(Boolean, k, IF n = 0 THEN <<0>> ELSE <<1>>))
    /\ UNCHANGED buf

ComposeInt32(k, n) ==
    /\ Compose(SetInt32(doc, k, n), MeasureInt32(k), Element(Int32, k, Int4(n)))
    /\ UNCHANGED buf

ComposeDouble(k, d) ==
    /\ Compose(SetDouble(doc, k, d), MeasureDouble(k), Element(Double, k, d))
    /\ UNCHANGED buf

ComposeNull(k) ==
    /\ Compose(SetNull(doc, k), MeasureNull(k), Element(Null, k, << >>))
    /\ UNCHANGED buf

\* The caller writes its bytes through *bufptr.
ComposeBinary(k, b) ==
    /\ Compose(Poke(SetBinary(doc, k, Len(b)), BufPtr(doc, k), b),
               MeasureBinary(k, Len(b)), Element(Binary, k, EncodeBinary(b)))
    /\ buf' = BufPtr(doc, k)

\* An element of a request is copied, under the same name.
ComposeCopy(es, k) ==
    LET from == Encode(es)
        off == Find(from, k)
        i == CHOOSE i \in DOMAIN es : es[i].key = k /\ \A j \in 1..(i - 1) : es[j].key # k
    IN /\ \E j \in DOMAIN es : es[j].key = k
       /\ Compose(SetElement(doc, k, from, off), MeasureElement(k, from, off), es[i])
       /\ UNCHANGED buf

\* The document is the host's, and has an element that no setter makes.
HostElement(k, f) ==
    /\ Compose(Encode(Append(elements, Element(f.type, k, f.value))), 2 + Len(k) + Len(f.value),
               Element(f.type, k, f.value))
    /\ UNCHANGED buf

\* The binary shrinks if it is the last element.
Shrink(n) ==
    LET last == elements[Len(elements)]
    IN /\ phase = "compose" /\ buf # INVALID
       /\ doc' = ShrinkBinary(doc, buf, n)
       /\ elements' =
            IF last.type = Binary /\ n < Len(last.value) - 5
              THEN [elements EXCEPT ![Len(elements)].value =
                                      EncodeBinary(SubSeq(last.value, 6, 5 + n))]
              ELSE elements
       /\ UNCHANGED <<room, temps, buf, phase, history>>

Composing ==
    \/ \E k \in Keys :
          \/ \E s \in Strings : ComposeString(k, s)
          \/ \E es \in Requests : ComposeCopy(es, k) \/ ComposeSub(Array, k, es)
          \/ ComposeSub(Document, k, << >>)
          \/ \E n \in Ints : ComposeInt32(k, n) \/ ComposeBoolean(k, n)
          \/ \E d \in Doubles : ComposeDouble(k, d)
          \/ ComposeNull(k)
          \/ \E b \in Contents : ComposeBinary(k, b)
          \/ \E f \in Foreign : HostElement(k, f)
    \/ \E n \in 0..2 : Shrink(n)

------------------------------------------------------------------------------
(* The results of methods.  Text is named for what it says.                *)

length == <<108, 101, 110, 103, 116, 104>>
data == <<100, 97, 116, 97>>
hash == <<104, 97, 115, 104>>
response == <<114, 101, 115, 112, 111, 110, 115, 101>>
result == <<114, 101, 115, 117, 108, 116>>
error == <<101, 114, 114, 111, 114>>
code == <<99, 111, 100, 101>>
id == <<105, 100>>
jsonrpc == <<106, 115, 111, 110, 114, 112, 99>>
Version2 == <<50, 46, 48>>
running == <<114, 117, 110, 110, 105, 110, 103>>
threads == <<116, 104, 114, 101, 97, 100, 115>>
name == <<110, 97, 109, 101>>
version == <<118, 101, 114, 115, 105, 111, 110>>
rubicVersion == <<114, 117, 98, 105, 99>> \o version
runtimes == <<114, 117, 110, 116, 105, 109, 101, 115>>
storages == <<115, 116, 111, 114, 97, 103, 101, 115>>

\* A method returns a document in memory for size bytes.
Result(new, size, es) ==
    /\ phase = "compose" /\ elements = << >>
    /\ doc' = new /\ room' = size /\ elements' = es
    /\ phase' = "result"
    /\ UNCHANGED buf

\* Or it has written where it must not.
WritesAstray ==
    /\ phase = "compose" /\ elements = << >>
    /\ phase' = "undefined"
    /\ UNCHANGED <<doc, elements, room, buf>>

\* fs.open, fs.write and fs.lseek: one number.
ReturnInt(key, n) ==
    /\ Result(SetInt32(EmptyDocument, key, n), EmptySize + MeasureInt32(key),
              <<Element(Int32, key, Int4(n))>>)
    /\ UNCHANGED <<temps, history>>

Smaller(a, b) == IF a < b THEN a ELSE b

\* fs.read: the buffer is in the document; at the end of the file it shrinks.
FsRead(file, len) ==
    LET read_len == Smaller(len, Len(file))
        bytes == SubSeq(file, 1, read_len)
        at == BufPtr(EmptyDocument, data)
        filled == Poke(SetBinary(EmptyDocument, data, len), at, bytes)
    IN /\ Result(SetInt32(ShrinkBinary(filled, at, read_len), length, read_len),
                 EmptySize + MeasureBinary(data, len) + MeasureInt32(length),
                 <<Element(Binary, data, EncodeBinary(bytes)), Element(Int32, length, Int4(read_len))>>)
       /\ UNCHANGED <<temps, history>>

\* fs.ioctl: the driver may change the argument; here it does not.
FsIoctl(arg, n) ==
    LET at == BufPtr(EmptyDocument, response)
        some == Poke(SetBinary(EmptyDocument, response, Len(arg)), at, arg)
    IN /\ IF arg # << >>
            THEN Result(SetInt32(some, result, n),
                        EmptySize + MeasureInt32(result) + MeasureBinary(response, Len(arg)),
                        <<Element(Binary, response, EncodeBinary(arg)), Element(Int32, result, Int4(n))>>)
            ELSE Result(SetInt32(SetNull(EmptyDocument, response), result, n),
                        EmptySize + MeasureInt32(result) + MeasureNull(response),
                        <<Element(Null, response, << >>), Element(Int32, result, Int4(n))>>)
       /\ UNCHANGED <<temps, history>>

\* The digest was computed of the bytes.
Hashed(bytes, value) ==
    /\ digest' = [bytes |-> bytes, value |-> value]
    /\ UNCHANGED <<temps, long>>

\* fs.hash: memory for a hash of 32 bytes and the data.  The digest is stored in
\* words right into the document, at a place that is no multiple of four: that is
\* undefined, unless the processor stores words at any address.
FsHash(file, len, method) ==
    LET read_len == Smaller(len, Len(file))
        bytes == SubSeq(file, 1, read_len)
        value == IF method = "md5" THEN Md5(bytes) ELSE Crc32(bytes)
        start == SetInt32(EmptyDocument, length, read_len)
        at == BufPtr(start, hash)
    IN /\ \/ Result(Poke(SetBinary(start, hash, Len(value)), at, value),
                    EmptySize + MeasureInt32(length) + MeasureBinary(hash, 32) + len,
                    <<Element(Int32, length, Int4(read_len)),
                      Element(Binary, hash, EncodeBinary(value))>>)
          \/ at % 4 # 0 /\ WritesAstray
       /\ Hashed(bytes, value)

\* rubic.prog.hash of a block of flash memory: the digest is copied.
ProgHash(block) ==
    LET start == SetBinary(EmptyDocument, hash, 16)
    IN /\ Result(SetInt32(Poke(start, BufPtr(EmptyDocument, hash), Md5(block)), length, Len(block)),
                 EmptySize + MeasureBinary(hash, 16) + MeasureInt32(length),
                 <<Element(Binary, hash, EncodeBinary(Md5(block))),
                   Element(Int32, length, Int4(Len(block)))>>)
       /\ Hashed(block, Md5(block))

\* The documents in a sequence become the elements of an array, under the keys
\* that the code makes of their places.
ArrayOf(key(_), docs) ==
    FoldLeft(LAMBDA d, i : SetSub(d, Document, <<key(i)>>, docs[i]), EmptyDocument,
             [i \in DOMAIN docs |-> i])
ArrayElements(key(_), docs) == [i \in DOMAIN docs |-> Element(Document, <<key(i)>>, docs[i])]

\* '0' + i
DigitKey(i) == 48 + (i - 1)

\* rubic.status: whether each worker is running.
RubicStatus(busy) ==
    LET temp(i) == SetBoolean(EmptyDocument, running, IF busy[i] THEN 1 ELSE 0)
        flag(i) == Encode(<<Element(Boolean, running, IF busy[i] THEN <<1>> ELSE <<0>>)>>)
        subdoc == ArrayOf(DigitKey, [i \in DOMAIN busy |-> temp(i)])
    IN /\ Result(SetSub(EmptyDocument, Array, threads, subdoc), EmptySize + MeasureSub(threads, subdoc),
                 <<Element(Array, threads, Encode(ArrayElements(DigitKey, [i \in DOMAIN busy |-> flag(i)])))>>)
       /\ temps' = {[len |-> Len(temp(1)), room |-> 20],
                    [len |-> Len(subdoc),
                     room |-> EmptySize + (4 + EmptySize + MeasureBoolean(running)) * Len(busy)]}
       /\ UNCHANGED history

\* i - '0', as a char: no digit.
SubscriptKey(i) == ((i - 1) - 48) % 256

NULL == << >>   \* the runtime has no version

\* Names that generate_info may have no room for: it gives each runtime and each
\* storage 64 bytes, and does not ask for more.
LongNames(rs, ss) ==
    \/ \E i \in DOMAIN rs : Len(rs[i].name) + Len(rs[i].version) > 26
    \/ \E i \in DOMAIN ss : Len(ss[i].name) + Len(ss[i].path) > 52

\* generate_info: the runtimes and the storages that are registered.
RubicInfo(rs, ss, requirement) ==
    LET named(r) == SetString(EmptyDocument, name, r.name)
        temp(r) == IF r.version = NULL THEN named(r) ELSE SetString(named(r), version, r.version)
        runtime(r) == Encode(<<Element(String, name, EncodeString(r.name))>>
                               \o IF r.version = NULL THEN << >>
                                  ELSE <<Element(String, version, EncodeString(r.version))>>)
        subdoc1 == ArrayOf(SubscriptKey, [i \in DOMAIN rs |-> temp(rs[i])])
        subdoc2 == FoldLeft(LAMBDA d, s : SetString(d, s.name, s.path), EmptyDocument, ss)
        arrays == {[len |-> Len(temp(rs[i])), room |-> 64] : i \in DOMAIN rs} \cup
                  {[len |-> Len(subdoc1), room |-> 64 * MAX_RUNTIMES],
                   [len |-> Len(subdoc2), room |-> 64 * MAX_STORAGES]}
    IN /\ \/ /\ \A t \in arrays : t.len <= t.room
             /\ Result(SetSub(SetSub(SetString(EmptyDocument, rubicVersion, requirement),
                                     Array, runtimes, subdoc1),
                              Document, storages, subdoc2),
                       EmptySize + MeasureString(rubicVersion, requirement)
                         + MeasureSub(runtimes, subdoc1) + MeasureSub(storages, subdoc2),
                       <<Element(String, rubicVersion, EncodeString(requirement)),
                         Element(Array, runtimes,
                                 Encode(ArrayElements(SubscriptKey, [i \in DOMAIN rs |-> runtime(rs[i])]))),
                         Element(Document, storages,
                                 Encode([i \in DOMAIN ss |->
                                           Element(String, ss[i].name, EncodeString(ss[i].path))]))>>)
          \/ (\E t \in arrays : t.len > t.room) /\ WritesAstray
       /\ temps' = arrays
       /\ long' = LongNames(rs, ss)
       /\ UNCHANGED digest

Methods ==
    \/ \E n \in Ints : \E key \in {length, <<102, 100>>} : ReturnInt(key, n)
    \/ \E file \in Files : \E len \in 0..(Len(file) + Slack) :
          len + Slack >= Len(file) /\
          (\/ FsRead(file, len)
           \/ FsHash(file, len, "md5")
           \/ len <= MaxCrc /\ FsHash(file, len, "crc32"))
    \/ \E file \in Files : ProgHash(file)
    \/ \E arg \in Contents, n \in Ints : FsIoctl(arg, n)
    \/ \E n \in Threads : \E busy \in [1..n -> BOOLEAN] : RubicStatus(busy)
    \/ \E n \in 0..MAX_RUNTIMES, k \in 0..MAX_STORAGES :
          \E rs \in [1..n -> Runtimes], ss \in [1..k -> Storages], s \in Strings : RubicInfo(rs, ss, s)

------------------------------------------------------------------------------
(* send_reply                                                              *)

\* The reply to the request with the elements es: sub is the result or the
\* error, or << >> for null.
Reply(es, key, sub, value) ==
    LET input == Encode(es)
        off_id == Find(input, id)
        ids == {i \in DOMAIN es : es[i].key = id}
        start == SetElement(SetString(EmptyDocument, jsonrpc, Version2), id, input, off_id)
    IN /\ doc' = IF sub = << >> THEN SetNull(start, key) ELSE SetSub(start, Document, key, sub)
       /\ room' = EmptySize + MeasureString(jsonrpc, Version2) + MeasureElement(id, input, off_id)
                    + (IF sub = << >> THEN MeasureNull(key) ELSE MeasureSub(key, sub))
       /\ elements' = <<Element(String, jsonrpc, EncodeString(Version2))>>
                        \o (IF ids = {} THEN << >> ELSE <<es[Min(ids)]>>) \o <<value>>
       /\ buf' = INVALID
       /\ phase' = "reply"
       /\ UNCHANGED history

\* A method returned a document, or null.
ReplyResult(es) ==
    /\ phase = "result"
    /\ Reply(es, result, doc, Element(Document, result, doc))
    /\ UNCHANGED temps

ReplyNull(es) ==
    /\ phase = "compose" /\ elements = << >>
    /\ Reply(es, result, << >>, Element(Null, result, << >>))
    /\ UNCHANGED temps

\* An error number, in a document in error_doc_buffer.
ReplyErrno(es, errno) ==
    LET error_doc == SetInt32(EmptyDocument, code, errno)
    IN /\ phase = "compose" /\ elements = << >>
       /\ Reply(es, error, error_doc,
                Element(Document, error, Encode(<<Element(Int32, code, Int4(errno))>>)))
       /\ temps' = {[len |-> Len(error_doc), room |-> 16]}

\* The error document of an asynchronous method.
ReplyErrorDoc(es) ==
    /\ phase = "compose" /\ elements # << >> /\ Len(elements) < MaxElements
    /\ Reply(es, error, doc, Element(Document, error, doc))
    /\ UNCHANGED temps

Replying ==
    \E es \in Requests :
       ReplyResult(es) \/ ReplyNull(es) \/ ReplyErrorDoc(es) \/ \E n \in Ints : ReplyErrno(es, n)

Next == Composing \/ Methods \/ Replying

Spec == Init /\ [][Next]_vars

------------------------------------------------------------------------------
TypeOK ==
    /\ doc \in Seq(0..255) /\ room \in Nat /\ buf \in Nat \cup {INVALID}
    /\ elements \in Seq([type : 0..255, key : Seq(0..255), value : Seq(0..255)])
    /\ temps \subseteq [len : Nat, room : Nat]
    /\ phase \in {"compose", "result", "reply", "undefined"}
    /\ digest \in [bytes : Seq(0..255), value : Seq(0..255)] /\ long \in BOOLEAN

\* Whatever is set, copied and shrunk in whatever order, the document has just
\* the elements that were put into it, in their order, and its length field is
\* right; a reply has the id of its request.
DocIsElements == doc = Encode(elements)

\* No document outgrows the memory that its caller measured for it, at a time
\* when it did not exist; nor do the temporary ones, which are not measured, as
\* long as the names in the information are short: 26 bytes for a runtime's name
\* and version, 52 for a storage's name and path.
Fits == Len(doc) <= room /\ (long \/ \A t \in temps : t.len <= t.room)

\* The elements that a scan for keys can get to.
Known(type) == type \in 1..19
Seen(i) == \A j \in 1..(i - 1) : Known(elements[j].type)
Places(key) == {i \in DOMAIN elements : elements[i].key = key /\ Seen(i)}

Offset(i) ==
    FoldLeft(LAMBDA n, e : n + 2 + Len(e.key) + Len(e.value), FirstOffset,
             SubSeq(elements, 1, i - 1))

\* The value of an element of type t at off, as the getters return it; those of
\* another type do not.
Reads(t, off, value) ==
    /\ (GetInt32(doc, off, 1) = 1 /\ GetInt32(doc, off, 2) = 2) <=> t # Int32
    /\ (GetBoolean(doc, off, 2) = 2) <=> t # Boolean
    /\ (GetDouble(doc, off, << >>) = << >>) <=> t # Double
    /\ (GetString(doc, off) = INVALID) <=> t # String
    /\ (GetSubdocument(doc, off) = INVALID) <=> t \notin {Document, Array}
    /\ (GetBinary(doc, off).at = INVALID) <=> t # Binary \/ Len(value) = 5
    /\ CASE t = Int32 -> Int4(GetInt32(doc, off, 1)) = value
         [] t = Boolean -> <<GetBoolean(doc, off, 2)>> = value
         [] t = Double -> GetDouble(doc, off, << >>) = value
         [] t = String -> LET at == GetString(doc, off)
                          IN SubSeq(doc, at + 1, at + Len(value) - 4) = SubSeq(value, 5, Len(value))
         [] t \in {Document, Array} ->
              LET at == GetSubdocument(doc, off) IN SubSeq(doc, at + 1, at + ReadInt(doc, at)) = value
         [] t = Binary /\ Len(value) > 5 ->
              LET b == GetBinary(doc, off)
              IN EncodeBinary(SubSeq(doc, b.at + 1, b.at + b.binlen)) = value
         [] OTHER -> TRUE

Names == Keys \cup {id, result, error, hash, length}

\* A reader who asks for names finds the first element with each, is told how
\* many it found, and gets the value that was set, and that only as the type it
\* has; an element of a type that the code does not know ends the search.
ReadBack ==
    /\ \A k \in Names :
          /\ Find(doc, k) = IF Places(k) = {} THEN INVALID ELSE Offset(Min(Places(k)))
          /\ Places(k) # {} =>
                LET e == elements[Min(Places(k))] IN Reads(e.type, Find(doc, k), e.value)
    /\ \A ks \in SUBSET Keys :
          Props(doc, ks) =
            LET n == Cardinality({k \in ks : Places(k) # {}})
            IN IF n < Cardinality(ks) /\ \E i \in DOMAIN elements : ~ Known(elements[i].type)
                 THEN INVALID ELSE n

\* The bitwise definition of the CRC: one bit of the data after the other.
CrcBitwise(bytes) ==
    LET bit(c, b) == IF (0 \in c) # b THEN Xor(Polynomial, ShiftRight(c, 1)) ELSE ShiftRight(c, 1)
        byte(start, n) ==
          LET c[i \in 0..8] == IF i = 0 THEN start ELSE bit(c[i - 1], (i - 1) \in Bits(n)) IN c[8]
        crc[n \in 0..Len(bytes)] == IF n = 0 THEN Ones ELSE byte(crc[n - 1], bytes[n])
    IN WordBytes(Xor(crc[Len(bytes)], Ones))

\* The message that MD5 works on: a one bit, zeros, and the length in 64 bits.
Md5Padded(bytes) ==
    LET zeros == CHOOSE z \in 0..63 : (Len(bytes) + 1 + z + 8) % 64 = 0
        padded == bytes \o <<128>> \o [i \in 1..zeros |-> 0] \o Int4(8 * Len(bytes)) \o <<0, 0, 0, 0>>
        sum[k \in 0..(Len(padded) \div 64)] ==
          IF k = 0 THEN Sum0 ELSE Compress(sum[k - 1], SubSeq(padded, 64 * k - 63, 64 * k))
    IN sum[Len(padded) \div 64]

\* A digest is that of the bytes that were read, by the definition of its method,
\* for data that ends anywhere in a chunk; and the document that the host is sent
\* has it, with the number of the bytes.  (Of fs.hash, where it may be stored there.)
HashIsDigest ==
    LET by == IF Len(digest.value) = 16 THEN Md5Padded(digest.bytes) ELSE CrcBitwise(digest.bytes)
        b == GetBinary(doc, Find(doc, hash))
        sent == [bytes |-> GetInt32(doc, Find(doc, length), -1),
                 value |-> SubSeq(doc, b.at + 1, b.at + b.binlen)]
    IN digest # NoDigest =>
         /\ digest.value = by
         /\ phase = "result" => sent = [digest EXCEPT !.bytes = Len(@)]

\* "rubic_agent.runtimes_max must be equal or smaller than 10": the keys of the
\* array of runtimes are digits.
InfoKeysAreDigits ==
    \A i \in DOMAIN elements : elements[i].key = runtimes =>
        \A off \in {Elements(elements[i].value)[j] : j \in DOMAIN Elements(elements[i].value)} :
            At(elements[i].value, off + 1) \in 48..57
==============================================================================
