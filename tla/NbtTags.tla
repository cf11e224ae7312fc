------------------------------ MODULE NbtTags ------------------------------
(***************************************************************************)
(* NBT, the tree of typed values inside components, registry entries and   *)
(* saved chunks (loadstone-protocol nbt.rs), and the function that finds   *)
(* where an anonymous tag ends without building it (read.rs:               *)
(* anonymous_tag_end), which the packet decoders use.                      *)
(*                                                                         *)
(* A tag is [tag, value].  The value of a number is its bytes; of a list,  *)
(* a sequence of tags; of a compound, a sequence of [name, of].            *)
(***************************************************************************)
EXTENDS Primitives

Id == [byte |-> 1, short |-> 2, int |-> 3, long |-> 4, float |-> 5, double |-> 6,
       bytes |-> 7, string |-> 8, list |-> 9, compound |-> 10, ints |-> 11, longs |-> 12]

\* The bytes of one number.
Fixed == [byte |-> 1, short |-> Width["short"], int |-> Width["int"], float |-> Width["int"],
          long |-> Width["long"], double |-> Width["long"]]

TagOf(id) == CHOOSE t \in DOMAIN Id : Id[t] = id

\* The elements of an array are as wide as these numbers.
Element == [bytes |-> Fixed.byte, ints |-> Fixed.int, longs |-> Fixed.long]

WriteName(name) == Number(Width["short"], Len(name)) \o name
WriteSize(s)    == Number(Width["int"], Len(s))

RECURSIVE WritePayload(_)
WritePayload(t) ==
  CASE t.tag \in DOMAIN Fixed   -> t.value
    [] t.tag \in DOMAIN Element -> WriteSize(t.value) \o FlattenSeq(t.value)
    [] t.tag = "string"         -> WriteName(t.value)
    [] t.tag = "list" ->
         <<Byte(IF t.value = <<>> THEN 0 ELSE Id[t.value[1].tag])>> \o WriteSize(t.value)
           \o FlattenSeq([i \in DOMAIN t.value |-> WritePayload(t.value[i])])
    [] t.tag = "compound" ->
         FlattenSeq([i \in DOMAIN t.value |->
                       <<Byte(Id[t.value[i].of.tag])>> \o WriteName(t.value[i].name)
                         \o WritePayload(t.value[i].of)]) \o <<Byte(0)>>

\* to_anonymous_bytes: only a compound is preceded by its type.
ToAnonymous(t) ==
  IF t.tag = "compound" THEN <<Byte(Id.compound)>> \o WritePayload(t) ELSE WritePayload(t)

ToNamed(name, t) == <<Byte(Id.compound)>> \o WriteName(name) \o WritePayload(t)

-----------------------------------------------------------------------------
(* Reading a tree *)

ReadName(s) == Then(As(Natural, Bytes(Width["short"], s)), Bytes)
ReadSize(s) == As(Integer, Bytes(Width["int"], s))

\* n items, each as wide as w.
RECURSIVE ReadElements(_, _, _)
ReadElements(n, w, s) ==
  IF n < 0 THEN Failed
  ELSE IF n = 0 THEN Got(<<>>, s)
  ELSE Then(Bytes(w, s), LAMBDA item, rest :
         As(LAMBDA items : <<item>> \o items, ReadElements(n - 1, w, rest)))

RECURSIVE ReadPayload(_, _), ReadItems(_, _, _), ReadEntries(_)
ReadPayload(id, s) ==
  LET Made(value) == [tag |-> TagOf(id), value |-> value]
  IN  IF id \notin Range(Id) THEN Failed
      ELSE As(Made,
        CASE TagOf(id) \in DOMAIN Fixed   -> Bytes(Fixed[TagOf(id)], s)
          [] TagOf(id) \in DOMAIN Element ->
               Then(ReadSize(s), LAMBDA n, rest : ReadElements(n, Element[TagOf(id)], rest))
          [] TagOf(id) = "string"         -> ReadName(s)
          [] TagOf(id) = "list" ->
               Then(Bytes(1, s), LAMBDA of, rest :
                 Then(ReadSize(rest), LAMBDA n, items : ReadItems(n, of[1].byte, items)))
          [] TagOf(id) = "compound"       -> ReadEntries(s))

ReadItems(n, id, s) ==
  IF n < 0 THEN Failed
  ELSE IF n = 0 THEN Got(<<>>, s)
  ELSE Then(ReadPayload(id, s), LAMBDA item, rest :
         As(LAMBDA items : <<item>> \o items, ReadItems(n - 1, id, rest)))

ReadEntries(s) ==
  Then(Bytes(1, s), LAMBDA id, named :
    IF id[1].byte = 0 THEN Got(<<>>, named)
    ELSE Then(ReadName(named), LAMBDA name, payload :
           Then(ReadPayload(id[1].byte, payload), LAMBDA of, rest :
             As(LAMBDA entries : <<[name |-> name, of |-> of]>> \o entries, ReadEntries(rest)))))

\* Nbt::read_root: the name of the root, and the tag.
ReadRoot(s) ==
  Then(Bytes(1, s), LAMBDA id, named :
    Then(ReadName(named), LAMBDA name, payload :
      As(LAMBDA of : [name |-> name, of |-> of], ReadPayload(id[1].byte, payload))))

-----------------------------------------------------------------------------
(* Skipping a tag *)

NoEnd == 0

\* The number in the w bytes after the first i of data; negative if they are not there.
NumberAt(w, data, i) == IF Len(data) < i + w THEN -1 ELSE Integer(SubSeq(data, i + 1, i + w))
NameAt(data, i) ==
  IF Len(data) < i + Width["short"] THEN -1
  ELSE Natural(SubSeq(data, i + 1, i + Width["short"]))

\* value_end: how many bytes of data end with the value that begins after i of them.
\* Arrays of ints and longs count as one of them, whatever length they announce.
RECURSIVE ValueEnd(_, _, _), ItemsEnd(_, _, _, _), EntriesEnd(_, _)
ValueEnd(data, id, i) ==
  CASE id \notin Range(Id)       -> NoEnd
    [] id = Id.ints              -> i + Width["int"]
    [] id = Id.longs             -> i + Width["long"]
    [] id \in {Id[t] : t \in DOMAIN Fixed} -> i + Fixed[TagOf(id)]
    [] id = Id.bytes ->
         IF NumberAt(Width["int"], data, i) < 0 THEN NoEnd
         ELSE i + Width["int"] + NumberAt(Width["int"], data, i)
    [] id = Id.string ->
         IF NameAt(data, i) < 0 THEN NoEnd ELSE i + Width["short"] + NameAt(data, i)
    [] id = Id.list ->
         IF Len(data) <= i \/ NumberAt(Width["int"], data, i + 1) < 0 THEN NoEnd
         ELSE ItemsEnd(NumberAt(Width["int"], data, i + 1), data, data[i + 1].byte,
                       i + 1 + Width["int"])
    [] id = Id.compound          -> EntriesEnd(data, i)

ItemsEnd(n, data, id, i) ==
  IF n = 0 \/ i = NoEnd THEN i ELSE ItemsEnd(n - 1, data, id, ValueEnd(data, id, i))

EntriesEnd(data, i) ==
  IF i = NoEnd \/ Len(data) <= i THEN NoEnd
  ELSE IF data[i + 1].byte = 0 THEN i + 1
  ELSE IF NameAt(data, i + 1) < 0 THEN NoEnd
  ELSE EntriesEnd(data, ValueEnd(data, data[i + 1].byte,
                                 i + 1 + Width["short"] + NameAt(data, i + 1)))

\* anonymous_tag_end: the same for a tag that begins with its type, where a short
\* counts as an int.
AnonymousEnd(data) ==
  LET end == IF data[1].byte = Id.short THEN 1 + Width["int"]
             ELSE ValueEnd(data, data[1].byte, 1)
  IN  IF end > Len(data) THEN NoEnd ELSE end

\* PacketReader::read_anonymous_nbt: nothing, or the bytes of one tag.
ReadAnonymous(s) ==
  IF s = <<>> THEN Failed
  ELSE IF s[1].byte = 0 THEN Got(<<>>, Tail(s))
  ELSE IF AnonymousEnd(s) = NoEnd THEN Failed
  ELSE As(LAMBDA tag : <<tag>>, Bytes(AnonymousEnd(s), s))
=============================================================================
