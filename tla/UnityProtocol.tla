---------------------------- MODULE UnityProtocol ----------------------------
(* The wire format: core/UnityProtocol.py, as pure operators.                  *)
(*                                                                            *)
(* A message is a type, a request id and the values of its fields; its bytes   *)
(* are numbers from 0 to 255.  A string stands for its UTF-8 bytes (the        *)
(* conversion loses nothing), in which a character is one byte, or a lead byte *)
(* and a continuation; a JSON value stands for its text.  A decoder that       *)
(* raises ValueError gives an answer whose ok is FALSE.                        *)
EXTENDS Integers, Sequences, SequencesExt

CONSTANTS
    MaxString,  \* MAX_STRING_LENGTH, 256 in the configuration
    MaxImage    \* MAX_IMAGE_SIZE, 10 MB

ASSUME LimitsAssumption == MaxString \in Nat \ {0} /\ MaxImage \in Nat \ {0}

MessageType ==
    [IMAGE |-> 1, RESULT |-> 2, RAG_QUERY |-> 3, RAG_RESPONSE |-> 4,
     STATUS_QUERY |-> 5, STATUS_RESPONSE |-> 6, STEREO_IMAGE |-> 7,
     SEQUENCE_QUERY |-> 8, AUTORT_COMMAND |-> 9, AUTORT_RESPONSE |-> 10]
TypeNames == DOMAIN MessageType

INT_SIZE    == 4
HEADER_SIZE == 1 + INT_SIZE
Huge        == 2147483647   \* bound: larger numbers, all past every limit, are cut

(* struct.pack and unpack of an unsigned 32-bit integer, little-endian.        *)
IntBytes(n) == <<n % 256, (n \div 256) % 256, (n \div 65536) % 256, n \div 16777216>>
Int32(b) == IF b[4] > 127 THEN Huge
            ELSE b[1] + 256 * b[2] + 65536 * b[3] + 16777216 * b[4]

Lead == 195
Continuations == 128..191
Chars(text) == Len(SelectSeq(text, LAMBDA b : b \notin Continuations))
IsUtf8(bytes) == \A i \in DOMAIN bytes :
    /\ bytes[i] \in Continuations => i > 1 /\ bytes[i - 1] = Lead
    /\ bytes[i] = Lead => i < Len(bytes) /\ bytes[i + 1] \in Continuations
    /\ bytes[i] < 128 \/ bytes[i] = Lead \/ bytes[i] \in Continuations
IsJson(text) == text # <<>> /\ Head(text) = 123 /\ Last(text) = 125   \* { ... }

------------------------------------------------------------------------------
(* What the fields of a message are.  A name is a string that is not empty, a  *)
(* text one that may be; params is a JSON text that is read back as a string,  *)
(* json one that is read back without a limit.                                 *)
ImageFamily  == [IMAGE |-> <<"name", "text", "blob">>]
ResultFamily == [RESULT |-> <<"json">>]
RagFamily    == [RAG_QUERY |-> <<"name", "top_k", "params">>, RAG_RESPONSE |-> <<"json">>]
StatusFamily == [STATUS_QUERY |-> <<"name", "flag">>, STATUS_RESPONSE |-> <<"json">>]
AutoRTFamily == [AUTORT_COMMAND |-> <<"name", "params">>, AUTORT_RESPONSE |-> <<"json">>]
Layout == ImageFamily @@ ResultFamily @@ RagFamily @@ StatusFamily @@ AutoRTFamily

(* What an encoder accepts: it counts the characters of a string, and sets no  *)
(* limit to a JSON text.                                                       *)
Accepts(kind, v) ==
    CASE kind = "name"  -> Chars(v) \in 1..MaxString
      [] kind = "text"  -> Chars(v) <= MaxString
      [] kind = "blob"  -> Len(v) \in 1..MaxImage
      [] kind = "top_k" -> v \in 1..100
      [] OTHER          -> TRUE
Encodable(t, vals) == \A i \in DOMAIN vals : Accepts(Layout[t][i], vals[i])

Prefixed(bytes) == IntBytes(Len(bytes)) \o bytes
FieldBytes(kind, v) ==
    CASE kind = "top_k" -> IntBytes(v)
      [] kind = "flag"  -> <<IF v THEN 1 ELSE 0>>
      [] OTHER          -> Prefixed(v)
EncodeHeader(t, id) == <<MessageType[t]>> \o IntBytes(id)
Fields(kinds, vals) == FlattenSeq([i \in DOMAIN vals |-> FieldBytes(kinds[i], vals[i])])
Encode(t, id, vals) == EncodeHeader(t, id) \o Fields(Layout[t], vals)

------------------------------------------------------------------------------
(* Decoding keeps an offset into the data: at bytes have been read.            *)
Failed == [ok |-> FALSE, at |-> 0, val |-> <<>>]
Took(v, at) == [ok |-> TRUE, at |-> at, val |-> v]
Slice(data, at, n) == SubSeq(data, at + 1, at + n)

ReadPrefixed(data, at, max) ==
    IF at + INT_SIZE > Len(data) THEN Failed
    ELSE LET n == Int32(Slice(data, at, INT_SIZE)) IN
         IF n > max \/ n > Len(data) - at - INT_SIZE THEN Failed
         ELSE Took(Slice(data, at + INT_SIZE, n), at + INT_SIZE + n)

ReadString(data, at) ==
    LET got == ReadPrefixed(data, at, MaxString)
    IN  IF got.ok /\ IsUtf8(got.val) THEN got ELSE Failed
ReadBytes(data, at) == ReadPrefixed(data, at, MaxImage)
ReadJson(data, at) ==
    LET got == ReadPrefixed(data, at, Huge)
    IN  IF got.ok /\ IsUtf8(got.val) /\ IsJson(got.val) THEN got ELSE Failed
ReadParams(data, at) ==                 \* an empty text is an empty dictionary
    LET got == ReadString(data, at)
    IN  IF got.ok /\ (got.val = <<>> \/ IsJson(got.val)) THEN got ELSE Failed
ReadTopK(data, at) == IF at + INT_SIZE > Len(data) THEN Failed
                      ELSE Took(Int32(Slice(data, at, INT_SIZE)), at + INT_SIZE)
ReadFlag(data, at) == IF at + 1 > Len(data) THEN Failed
                      ELSE Took(data[at + 1] # 0, at + 1)

ReadField(kind, data, at) ==
    CASE kind \in {"name", "text"} -> ReadString(data, at)
      [] kind = "blob"   -> ReadBytes(data, at)
      [] kind = "params" -> ReadParams(data, at)
      [] kind = "json"   -> ReadJson(data, at)
      [] kind = "top_k"  -> ReadTopK(data, at)
      [] kind = "flag"   -> ReadFlag(data, at)

NoMessage == [ok |-> FALSE, id |-> 0, vals |-> <<>>]
DecodeHeader(data) ==
    [ok |-> Len(data) >= HEADER_SIZE /\ \E t \in TypeNames : MessageType[t] = data[1],
     id |-> IF Len(data) >= HEADER_SIZE THEN Int32(Slice(data, 1, INT_SIZE)) ELSE 0]
DecodeFields(kinds, data) ==
    FoldLeft(LAMBDA sofar, kind :
                 IF ~sofar.ok THEN sofar
                 ELSE LET got == ReadField(kind, data, sofar.at) IN
                      [ok |-> got.ok, at |-> got.at, vals |-> Append(sofar.vals, got.val)],
             [ok |-> TRUE, at |-> HEADER_SIZE, vals |-> <<>>], kinds)
Decode(t, data) ==
    LET header == DecodeHeader(data) IN
    IF ~header.ok \/ data[1] # MessageType[t] THEN NoMessage
    ELSE LET body == DecodeFields(Layout[t], data) IN
         IF body.ok THEN [ok |-> TRUE, id |-> header.id, vals |-> body.vals] ELSE NoMessage
=============================================================================
