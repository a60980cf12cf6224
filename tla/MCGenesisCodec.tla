--------------------------- MODULE MCGenesisCodec ---------------------------
(***************************************************************************)
(* Model-checking instance of GenesisCodec.  Nested messages are short    *)
(* byte strings and one of 128 bytes, whose length takes a two-byte varint *)
(* (the boundary of encodeVarintGenesis and sovGenesis).                   *)
(***************************************************************************)
EXTENDS GenesisCodec

\* a nested message of two bytes, and one of 128 bytes
MCSmall == <<8, 1>>
MCBig == [k \in 1..128 |-> 0]

MCMsgs ==
  [assets : {<<>>, <<MCSmall>>, <<MCBig>>, <<MCSmall, <<>>>>},
   pairs : {<<>>, <<MCSmall>>},
   appData : {<<>>, <<<<>>>>},
   extendedPairVault : {<<>>, <<MCSmall>>},
   params : {<<>>, MCSmall, MCBig}]

\* fields 6 and 20, one of each wire type that skipGenesis skips:
\* varint (two bytes), fixed64, length-delimited, fixed32, a group, and a
\* two-byte tag
MCUnknown ==
  {<<48, 150, 1>>, <<49, 1, 2, 3, 4, 5, 6, 7, 8>>, <<50, 2, 7, 7>>,
   <<53, 1, 2, 3, 4>>, <<51, 8, 5, 52>>, <<160, 1, 0>>}

\* states appended to an encoding: each repeats Params, one adds an asset
MCAppended ==
  {[EmptyGenesis EXCEPT !.params = MCSmall],
   [EmptyGenesis EXCEPT !.assets = <<MCSmall>>, !.params = MCSmall]}

\* states a caller unmarshals into: a fresh one, and one already holding an
\* asset and Params
MCPriors ==
  {EmptyGenesis, [EmptyGenesis EXCEPT !.assets = <<MCSmall>>, !.params = MCSmall]}

\* no GenesisState encodes to these: a length or tag cut short, field 1 as
\* a varint, an end-group tag, field 0, a length past the end, a tag of
\* more than 64 bits, a ten-byte tag of value 0, wire type 7, an unknown
\* fixed64, group or length cut short
MCCorrupt ==
  {<<10>>, <<8, 1>>, <<12>>, <<2, 0>>, <<10, 5, 1>>, <<128>>,
   [k \in 1..11 |-> IF k = 11 THEN 1 ELSE 128],
   [k \in 1..10 |-> IF k = 10 THEN 0 ELSE 128], <<55>>, <<49, 1, 2>>,
   <<51>>, <<50>>}
====
