---------------------------- MODULE GenesisCodec ----------------------------
(***************************************************************************)
(* The protobuf codec of the asset module's GenesisState                   *)
(* (x/asset/types/genesis.pb.go, generated by protoc-gen-gogo).            *)
(*                                                                         *)
(* GenesisState has four repeated message fields (Assets = 1, Pairs = 2,   *)
(* AppData = 3, ExtendedPairVault = 4) and one message field Params = 5.   *)
(* The nested messages' codecs live outside this file: a nested message is *)
(* represented by its own encoding (a byte sequence), so its Marshal      *)
(* writes those bytes and its Unmarshal keeps them.                        *)
(*                                                                         *)
(* Marshal is Size followed by MarshalToSizedBuffer, which writes the      *)
(* buffer backwards from its end.  Unmarshal is the field loop; each       *)
(* iteration is one action of the state machine below.  Byte buffers are   *)
(* 0-indexed as in Go: dAtA[i] is input[i + 1].                            *)
(***************************************************************************)
EXTENDS Integers, Sequences, SequencesExt, Bitwise

CONSTANTS
  Msgs,        \* GenesisStates to encode: records of byte sequences
  Unknown,     \* encodings of fields unknown to GenesisState (tag included)
  Corrupt,     \* byte strings that are no encoding of a GenesisState
  Appended,    \* GenesisStates whose encoding is appended to another's
  CutAt,       \* lengths a valid encoding is truncated to
  Priors       \* GenesisStates a caller unmarshals into

VARIABLES
  orig,        \* the GenesisState that was marshalled (history)
  kind,        \* how the input was derived from Marshal(orig) (history)
  input,       \* dAtA handed to Unmarshal
  iNdEx,       \* Unmarshal's read position
  msg,         \* the GenesisState Unmarshal is filling in
  status,      \* "loop" while in the field loop, then "ok" or an error
  lastRead,    \* the last varint read: [from, to, val]
  entry,       \* "XXX_Unmarshal" or "proto.Unmarshal": how Unmarshal is called
  prior        \* the GenesisState the caller passed in (history)

vars == <<orig, kind, input, iNdEx, msg, status, lastRead, entry, prior>>

RepeatedFields == <<"assets", "pairs", "appData", "extendedPairVault">>

EmptyGenesis == [assets |-> <<>>, pairs |-> <<>>, appData |-> <<>>,
                 extendedPairVault |-> <<>>, params |-> <<>>]

(***************************************************************************)
(* Varints                                                                 *)
(***************************************************************************)
\* x << s; shifting 0 is 0 whatever s (and keeps TLC's integers small)
ShiftL(x, s) == IF x = 0 THEN 0 ELSE x * 2^s

\* math_bits.Len64: the number of bits needed to represent x
RECURSIVE Len64(_)
Len64(x) == IF x = 0 THEN 0 ELSE 1 + Len64(shiftR(x, 1))

sovGenesisNoOr(x) == (Len64(x) + 6) \div 7

\* bytes of the varint encoding of x
sovGenesis(x) == (Len64(x | 1) + 6) \div 7

\* the loop of encodeVarintGenesis writing v from offset on
RECURSIVE PutVarint(_, _, _)
PutVarint(buf, offset, v) ==
  IF v >= 128
  THEN PutVarint([buf EXCEPT ![offset] = (v & 127) | 128], offset + 1,
                 shiftR(v, 7))
  ELSE [buf EXCEPT ![offset] = v]

\* encodeVarintGenesis: v is written to end just before offset; the new
\* offset is returned with the buffer ("panic" when it falls below 0)
encodeVarintGenesis(buf, offset, v) ==
  LET base == offset - sovGenesis(v)
  IN  IF base < 0 THEN [panic |-> TRUE, buf |-> buf, i |-> base]
      ELSE [panic |-> FALSE, buf |-> PutVarint(buf, base, v), i |-> base]

(***************************************************************************)
(* Size and Marshal                                                        *)
(***************************************************************************)
FieldSizeNoTag(payload) == Len(payload) + sovGenesis(Len(payload))

\* bytes of one embedded message field: tag, length varint, payload
FieldSize(payload) == 1 + Len(payload) + sovGenesis(Len(payload))

\* Size: the repeated fields' elements, then Params, always present
Size(m) ==
  LET RECURSIVE SumSizes(_)
      SumSizes(s) == IF s = <<>> THEN 0 ELSE FieldSize(Head(s)) + SumSizes(Tail(s))
  IN  SumSizes(m.assets) + SumSizes(m.pairs) + SumSizes(m.appData)
        + SumSizes(m.extendedPairVault) + FieldSize(m.params)

\* the tag byte of each field: field number << 3 | wire type 2
Tag == [f \in 1..5 |-> f * 8 + 2]

\* mutant: each repeated field's elements written from the first one on
WriteOrderForward(m) ==
  <<<<Tag[5], m.params>>>>
    \o [k \in 1..Len(m.extendedPairVault) |-> <<Tag[4], m.extendedPairVault[k]>>]
    \o [k \in 1..Len(m.appData) |-> <<Tag[3], m.appData[k]>>]
    \o [k \in 1..Len(m.pairs) |-> <<Tag[2], m.pairs[k]>>]
    \o [k \in 1..Len(m.assets) |-> <<Tag[1], m.assets[k]>>]

\* the order MarshalToSizedBuffer writes the fields in: Params first, then
\* each repeated field from its last element back, ExtendedPairVault first
WriteOrder(m) ==
  <<<<Tag[5], m.params>>>>
    \o [k \in 1..Len(m.extendedPairVault) |-> <<Tag[4], Reverse(m.extendedPairVault)[k]>>]
    \o [k \in 1..Len(m.appData) |-> <<Tag[3], Reverse(m.appData)[k]>>]
    \o [k \in 1..Len(m.pairs) |-> <<Tag[2], Reverse(m.pairs)[k]>>]
    \o [k \in 1..Len(m.assets) |-> <<Tag[1], Reverse(m.assets)[k]>>]

\* one field written backwards ending before i: the nested message's
\* MarshalToSizedBuffer(dAtA[:i]), its size as a varint, the tag.  An index
\* below 0 is Go's index-out-of-range panic.
RECURSIVE WriteFields(_, _, _)
WriteFields(buf, i, es) ==
  IF es = <<>> THEN [panic |-> FALSE, buf |-> buf, i |-> i]
  ELSE
    LET tag == Head(es)[1]
        payload == Head(es)[2]
        size == Len(payload)
        i1 == i - size
        nested == [j \in DOMAIN buf |-> IF j >= i1 /\ j < i THEN payload[j - i1 + 1]
                                        ELSE buf[j]]
        v == encodeVarintGenesis(nested, i1, size)
        i3 == v.i - 1
    IN  IF i1 < 0 \/ v.panic \/ i3 < 0
        THEN [panic |-> TRUE, buf |-> buf, i |-> i]
        ELSE WriteFields([v.buf EXCEPT ![i3] = tag], i3, Tail(es))

\* MarshalToSizedBuffer into a buffer of length len: the bytes written and
\* their number len(dAtA) - i
MarshalToSizedBuffer(m, len) ==
  LET w == WriteFields([j \in 0..(len - 1) |-> 0], len, WriteOrder(m))
  IN  [panic |-> w.panic, buf |-> w.buf, n |-> len - w.i]

\* Marshal: a buffer of Size(m) bytes, written, then cut to dAtA[:n]
Marshal(m) ==
  LET r == MarshalToSizedBuffer(m, Size(m))
  IN  [panic |-> r.panic, n |-> r.n,
       bytes |-> IF r.panic THEN <<>> ELSE [k \in 1..r.n |-> r.buf[k - 1]]]

(***************************************************************************)
(* Unmarshal's varint loops                                                *)
(***************************************************************************)
\* the reads of a varint from dAtA[i] on: wire |= uint64(b&0x7F) << shift
\* until a byte below 0x80; a 64th bit or the end of dAtA is an error
RECURSIVE ReadVarintFromShift8(_, _, _, _)
ReadVarintFromShift8(d, i, shift, acc) ==
  IF shift >= 64 THEN [err |-> "ErrIntOverflowGenesis", val |-> acc, next |-> i]
  ELSE IF i >= Len(d) THEN [err |-> "ErrUnexpectedEOF", val |-> acc, next |-> i]
  ELSE LET b == d[i + 1]
           acc2 == acc | ShiftL(b & 127, shift)
       IN  IF b < 128 THEN [err |-> "none", val |-> acc2, next |-> i + 1]
           ELSE ReadVarintFromShift8(d, i + 1, shift + 8, acc2)

\* mutant: the overflow check one bit early (shift >= 63)
RECURSIVE ReadVarintFromEarlyOverflow(_, _, _, _)
ReadVarintFromEarlyOverflow(d, i, shift, acc) ==
  IF shift >= 63 THEN [err |-> "ErrIntOverflowGenesis", val |-> acc, next |-> i]
  ELSE IF i >= Len(d) THEN [err |-> "ErrUnexpectedEOF", val |-> acc, next |-> i]
  ELSE LET b == d[i + 1]
           acc2 == acc | ShiftL(b & 127, shift)
       IN  IF b < 128 THEN [err |-> "none", val |-> acc2, next |-> i + 1]
           ELSE ReadVarintFromEarlyOverflow(d, i + 1, shift + 7, acc2)

RECURSIVE ReadVarintFrom(_, _, _, _)
ReadVarintFrom(d, i, shift, acc) ==
  IF shift >= 64 THEN [err |-> "ErrIntOverflowGenesis", val |-> acc, next |-> i]
  ELSE IF i >= Len(d) THEN [err |-> "ErrUnexpectedEOF", val |-> acc, next |-> i]
  ELSE LET b == d[i + 1]
           acc2 == acc | ShiftL(b & 127, shift)
       IN  IF b < 128 THEN [err |-> "none", val |-> acc2, next |-> i + 1]
           ELSE ReadVarintFrom(d, i + 1, shift + 7, acc2)

ReadVarint(d, i) == ReadVarintFrom(d, i, 0, 0)

\* one field skipped by skipGenesis from position i at group depth depth;
\* the case-0 loop has the same checks as a varint read, its value unused
SkipStep(d, i, depth) ==
  LET t == ReadVarint(d, i)
      j == t.next
      wireType == t.val & 7
      r == ReadVarint(d, j)
  IN  CASE t.err # "none" -> [err |-> t.err, i |-> i, depth |-> depth]
        [] wireType = 0 -> [err |-> r.err, i |-> r.next, depth |-> depth]
        [] wireType = 1 -> [err |-> "none", i |-> j + 8, depth |-> depth]
        [] wireType = 2 -> [err |-> r.err, i |-> r.next + r.val, depth |-> depth]
        [] wireType = 3 -> [err |-> "none", i |-> j, depth |-> depth + 1]
        [] wireType = 4 /\ depth = 0 ->
             [err |-> "ErrUnexpectedEndOfGroupGenesis", i |-> j, depth |-> depth]
        [] wireType = 4 -> [err |-> "none", i |-> j, depth |-> depth - 1]
        [] wireType = 5 -> [err |-> "none", i |-> j + 4, depth |-> depth]
        [] OTHER -> [err |-> "illegal wireType", i |-> j, depth |-> depth]

\* skipGenesis(d): the length of the first field of d, groups included
RECURSIVE SkipFrom(_, _, _)
SkipFrom(d, i, depth) ==
  IF i >= Len(d) THEN [err |-> "ErrUnexpectedEOF", n |-> 0]
  ELSE LET s == SkipStep(d, i, depth)
       IN  CASE s.err # "none" -> [err |-> s.err, n |-> 0]
             [] s.i < 0 -> [err |-> "ErrInvalidLengthGenesis", n |-> 0]
             [] s.depth = 0 -> [err |-> "none", n |-> s.i]
             [] OTHER -> SkipFrom(d, s.i, s.depth)

skipGenesis(d) == SkipFrom(d, 0, 0)

(***************************************************************************)
(* Unmarshal: one action per iteration of its field loop                   *)
(***************************************************************************)
Tag0 == ReadVarint(input, iNdEx)
fieldNum == shiftR(Tag0.val, 3)
wireType == Tag0.val & 7

\* the loop runs while iNdEx < l and the tag read so far is usable
InLoop == status = "loop" /\ iNdEx < Len(input)
GoodTag == Tag0.err = "none" /\ wireType # 4 /\ fieldNum > 0

TagRead == [from |-> iNdEx, to |-> Tag0.next, val |-> Tag0.val]

\* the tag cannot be read, ends a group, or has field number 0
BadTag ==
  /\ InLoop /\ ~GoodTag
  /\ status' = CASE Tag0.err # "none" -> Tag0.err
                 [] wireType = 4 -> "wiretype end group for non-group"
                 [] OTHER -> "illegal tag"
  /\ lastRead' = IF Tag0.err = "none" THEN {TagRead} ELSE {}
  /\ UNCHANGED <<orig, kind, input, iNdEx, msg, entry, prior>>

\* a repeated field appends a new element and unmarshals the payload into it
AppendField(m, f, payload) == [m EXCEPT ![RepeatedFields[f]] = Append(@, payload)]

\* Params.Unmarshal unmarshals into the Params already there, which
\* protobuf defines as the parse of the two encodings concatenated
StoreField(m, f, payload) ==
  IF f = 5 THEN [m EXCEPT !.params = @ \o payload]
  ELSE AppendField(m, f, payload)

ReadFieldFromTag(f) ==
  LET len == ReadVarint(input, Tag0.next)
      postIndex == iNdEx + len.val
      payload == SubSeq(input, len.next + 1, postIndex)
  IN
  /\ InLoop /\ GoodTag /\ fieldNum = f
  /\ \/ /\ wireType # 2
        /\ status' = "wrong wireType"
        /\ lastRead' = {TagRead}
        /\ UNCHANGED <<iNdEx, msg>>
     \/ /\ wireType = 2
        /\ \/ len.err # "none"
           \/ len.err = "none" /\ (len.val < 0 \/ postIndex > Len(input))
        /\ status' = IF len.err # "none" THEN len.err
                     ELSE IF len.val < 0 THEN "ErrInvalidLengthGenesis"
                     ELSE "ErrUnexpectedEOF"
        /\ lastRead' = {TagRead}
        /\ UNCHANGED <<iNdEx, msg>>
     \/ /\ wireType = 2 /\ len.err = "none" /\ len.val >= 0
        /\ postIndex <= Len(input)
        /\ msg' = StoreField(msg, f, payload)
        /\ iNdEx' = postIndex
        /\ lastRead' = {TagRead, [from |-> Tag0.next, to |-> len.next, val |-> len.val]}
        /\ UNCHANGED status
  /\ UNCHANGED <<orig, kind, input, entry, prior>>

\* cases 1 to 5: an embedded message of msglen bytes; repeated fields
\* append it, Params (5) is unmarshalled over the current value
ReadField(f) ==
  LET len == ReadVarint(input, Tag0.next)
      postIndex == len.next + len.val
      payload == SubSeq(input, len.next + 1, postIndex)
  IN
  /\ InLoop /\ GoodTag /\ fieldNum = f
  /\ \/ /\ wireType # 2
        /\ status' = "wrong wireType"
        /\ lastRead' = {TagRead}
        /\ UNCHANGED <<iNdEx, msg>>
     \/ /\ wireType = 2
        /\ \/ len.err # "none"
           \/ len.err = "none" /\ (len.val < 0 \/ postIndex > Len(input))
        /\ status' = IF len.err # "none" THEN len.err
                     ELSE IF len.val < 0 THEN "ErrInvalidLengthGenesis"
                     ELSE "ErrUnexpectedEOF"
        /\ lastRead' = {TagRead}
        /\ UNCHANGED <<iNdEx, msg>>
     \/ /\ wireType = 2 /\ len.err = "none" /\ len.val >= 0
        /\ postIndex <= Len(input)
        /\ msg' = StoreField(msg, f, payload)
        /\ iNdEx' = postIndex
        /\ lastRead' = {TagRead, [from |-> Tag0.next, to |-> len.next, val |-> len.val]}
        /\ UNCHANGED status
  /\ UNCHANGED <<orig, kind, input, entry, prior>>

\* default: an unknown field is skipped by skipGenesis(dAtA[preIndex:])
SkipFieldUnchecked ==
  /\ InLoop /\ GoodTag /\ fieldNum > 5
  /\ \E skippy \in {skipGenesis(SubSeq(input, iNdEx + 1, Len(input)))} :
    /\ \/ /\ skippy.err # "none" \/ skippy.n < 0
          /\ status' = IF skippy.err # "none" THEN skippy.err
                       ELSE "ErrInvalidLengthGenesis"
          /\ UNCHANGED iNdEx
       \/ /\ skippy.err = "none" /\ skippy.n >= 0
          /\ iNdEx' = iNdEx + skippy.n
          /\ UNCHANGED status
    /\ lastRead' = {TagRead}
    /\ UNCHANGED <<orig, kind, input, msg, entry, prior>>

SkipField ==
  /\ InLoop /\ GoodTag /\ fieldNum > 5
  /\ \E skippy \in {skipGenesis(SubSeq(input, iNdEx + 1, Len(input)))} :
    /\ \/ /\ skippy.err # "none" \/ skippy.n < 0 \/ iNdEx + skippy.n > Len(input)
          /\ status' = IF skippy.err # "none" THEN skippy.err
                       ELSE IF skippy.n < 0 THEN "ErrInvalidLengthGenesis"
                       ELSE "ErrUnexpectedEOF"
          /\ UNCHANGED iNdEx
       \/ /\ skippy.err = "none" /\ skippy.n >= 0 /\ iNdEx + skippy.n <= Len(input)
          /\ iNdEx' = iNdEx + skippy.n
          /\ UNCHANGED status
    /\ lastRead' = {TagRead}
    /\ UNCHANGED <<orig, kind, input, msg, entry, prior>>

\* the loop ends: iNdEx > l is io.ErrUnexpectedEOF, otherwise success
Finish ==
  /\ status = "loop" /\ iNdEx >= Len(input)
  /\ status' = IF iNdEx > Len(input) THEN "ErrUnexpectedEOF" ELSE "ok"
  /\ UNCHANGED <<orig, kind, input, iNdEx, msg, lastRead, entry, prior>>

(***************************************************************************)
(* The inputs: Marshal's output, with an unknown field at either end,      *)
(* truncated, or corrupt bytes                                             *)
(***************************************************************************)
Inputs(m) ==
  LET enc == Marshal(m).bytes
  IN  {<<"valid", enc>>}
        \cup {<<"unknown", u \o enc>> : u \in Unknown}
        \cup {<<"unknown", enc \o u>> : u \in Unknown}
        \cup {<<"truncated", SubSeq(enc, 1, c)>> : c \in {c \in CutAt : c < Len(enc)}}

\* protobuf's merge of two GenesisStates: repeated fields concatenated,
\* the Params messages merged (their encodings concatenated)
MergeOf(a, b) == [f \in DOMAIN a |-> a[f] \o b[f]]

\* Reset: *m = GenesisState{}
Reset(m) == EmptyGenesis

(***************************************************************************)
(* The caller hands Unmarshal a GenesisState it may have used before.     *)
(* XXX_Unmarshal is m.Unmarshal(b) and fills that state in place;         *)
(* proto.Unmarshal calls Reset first (ResetGenesis below).                *)
(***************************************************************************)
Init ==
  /\ \/ \E m \in Msgs : \E ki \in Inputs(m) :
          orig = m /\ kind = ki[1] /\ input = ki[2]
     \/ \E m \in Msgs, m2 \in Appended :
          /\ orig = MergeOf(m, m2)
          /\ kind = "merged"
          /\ input = Marshal(m).bytes \o Marshal(m2).bytes
     \/ orig = EmptyGenesis /\ kind = "corrupt" /\ input \in Corrupt
  /\ iNdEx = 0
  /\ entry \in {"XXX_Unmarshal", "proto.Unmarshal"}
  /\ prior \in Priors
  /\ msg = prior
  /\ status = IF entry = "proto.Unmarshal" THEN "reset" ELSE "loop"
  /\ lastRead = {}

\* proto.Unmarshal resets the message before calling XXX_Unmarshal
ResetGenesis ==
  /\ status = "reset"
  /\ msg' = Reset(msg)
  /\ status' = "loop"
  /\ UNCHANGED <<orig, kind, input, iNdEx, lastRead, entry, prior>>

Next ==
  \/ ResetGenesis
  \/ BadTag
  \/ \E f \in 1..5 : ReadField(f)
  \/ SkipField
  \/ Finish

Spec == Init /\ [][Next]_vars

(***************************************************************************)
(* Properties                                                              *)
(***************************************************************************)
Bytes == 0..255
ByteSeq(s) == \A k \in DOMAIN s : s[k] \in Bytes

TypeOK ==
  /\ kind \in {"valid", "unknown", "truncated", "corrupt", "merged"}
  /\ ByteSeq(input)
  /\ iNdEx \in 0..Len(input)
  /\ DOMAIN msg = DOMAIN EmptyGenesis
  /\ \A f \in 1..4 : \A k \in DOMAIN msg[RepeatedFields[f]] :
       ByteSeq(msg[RepeatedFields[f]][k])
  /\ ByteSeq(msg.params)
  /\ status \in STRING
  /\ entry \in {"XXX_Unmarshal", "proto.Unmarshal"}
  /\ DOMAIN prior = DOMAIN EmptyGenesis
  /\ \A r \in lastRead : r.from \in Nat /\ r.to \in Nat /\ r.val \in Nat

\* the protobuf definition of a base-128 varint: little-endian groups of
\* seven bits, the high bit of every byte but the last set
RECURSIVE RefVarint(_)
RefVarint(bs) == IF bs = <<>> THEN 0 ELSE (Head(bs) % 128) + 128 * RefVarint(Tail(bs))

\* Every tag and length Unmarshal reads with its shift-and-or loop is the
\* value the protobuf varint definition gives the bytes it consumed.
ReadsMatchReference ==
  \A r \in lastRead :
    /\ r.from < r.to
    /\ \A k \in (r.from + 1)..(r.to - 1) : input[k] >= 128
    /\ input[r.to] < 128
    /\ r.val = RefVarint(SubSeq(input, r.from + 1, r.to))

\* Marshal never writes outside the buffer Size allotted and fills it
\* exactly: MarshalToSizedBuffer returns n = Size(m), so dAtA[:n] is the
\* whole encoding (a Size that is too small panics, one that is too large
\* returns the buffer's leading bytes instead of the encoding).
MarshalFitsSize ==
  LET r == Marshal(orig) IN ~r.panic /\ r.n = Size(orig)

\* what Unmarshal fills in on top of: nothing after proto.Unmarshal's
\* Reset, the caller's state for XXX_Unmarshal
Start == IF entry = "proto.Unmarshal" THEN EmptyGenesis ELSE prior

\* the state a successful parse of orig's encoding must leave: orig itself
\* after a Reset, orig merged into the caller's state otherwise
Expected == MergeOf(Start, orig)

\* Unmarshal of what Marshal produced, with or without a field of an
\* unknown number before or after it, succeeds and gives back the
\* GenesisState that was marshalled (the unknown field skipped whole):
\* proto.Unmarshal returns exactly it, whatever the state it was handed
\* held before, and XXX_Unmarshal merges it into that state.  Two
\* encodings one after the other (the binary form of a state received in
\* two parts) give protobuf's merge of the two states: each
\* repeated field holds the elements of both, in order, and the second
\* Params is merged into the first (line 439), never replacing it.
DecodesWhatWasEncoded ==
  kind \in {"valid", "unknown", "merged"} /\ status \notin {"loop", "reset"} =>
    status = "ok" /\ msg = Expected

\* Unmarshal's field loop ends on every input, valid or not: each iteration
\* either returns or moves iNdEx forward, and never past len(dAtA) while it
\* keeps looping, so len(dAtA) - iNdEx is a variant of the loop.
LoopAdvances ==
  [][status = "loop" /\ status' = "loop" =>
       iNdEx < iNdEx' /\ iNdEx' <= Len(input)]_vars

\* Unmarshal never invents data: at every point of the loop, on the
\* encoding of a GenesisState whole, cut short, or with an unknown field
\* added, each repeated field holds what it held when the loop began
\* (nothing after proto.Unmarshal's Reset) followed by a prefix of the
\* marshalled one, and Params is the starting Params or that merged with
\* the marshalled one, never replaced by it.  (A cut at a field boundary
\* parses successfully, so this is all a truncated file gives.)
NeverInventsFields ==
  kind \in {"valid", "unknown", "truncated"} /\ status # "reset" =>
    /\ \A f \in 1..4 :
         IsPrefix(msg[RepeatedFields[f]], Expected[RepeatedFields[f]])
    /\ \A f \in 1..4 :
         IsPrefix(Start[RepeatedFields[f]], msg[RepeatedFields[f]])
    /\ msg.params \in {Start.params, Expected.params}

\* ten bytes with the continuation bit starting at position i of d
TenContinuationBytes(d, i) == i + 10 <= Len(d) /\ \A k \in 1..10 : d[i + k] >= 128

\* The varint loops give up with ErrIntOverflowGenesis only on a varint
\* that has not ended after ten bytes (shift reached 70 > 64 bits), never
\* on a shorter one: the loop bound shift >= 64 and the step of 7 agree.
OverflowOnlyAfterTenBytes ==
  status = "ErrIntOverflowGenesis" =>
    \E i \in 0..Len(input) : TenContinuationBytes(input, i)
====
