------------------------------- MODULE MCParts -------------------------------
(***************************************************************************)
(* The parts LevelDB is built from, and nanopb, each on its own: they      *)
(* share no state, and in a behaviour only one of them moves.              *)
(***************************************************************************)
EXTENDS LRUCache, SkipList, LogFormat, Iterators, Table, TLC

VARIABLES part,                                    \* the part that moves
          sent, input, stack, status               \* Protobuf

\* A run of 0xff, of which the key before is a prefix, and two keys that the index may
\* separate with one between them.
FourUserKeys == {<<0, 1>>, <<1>>, <<2>>, <<2, 2>>}

\* A message with numbers of one and two bytes and negative ones, packed and not, strings,
\* a union, and submessages with a field of each kind.
PbField(tag, ltype, htype, width) ==
  [tag |-> tag, ltype |-> ltype, htype |-> htype, size |-> width, max |-> 2,
   header |-> IF ltype = "bytes" THEN 4 ELSE 1, sub |-> <<>>]

PbSub ==
  <<PbField(1, "uvarint", "required", 8), PbField(2, "string", "singular", 3),
    PbField(3, "varint", "repeated", 16)>>

PbType ==
  <<PbField(1, "varint", "required", 32), PbField(2, "svarint", "repeated", 32),
    [PbField(3, "submessage", "optional", 0) EXCEPT !.sub = PbSub],
    [PbField(4, "submessage", "repeated", 0) EXCEPT !.sub = PbSub],
    PbField(5, "fixed32", "oneof", 32),
    [PbField(6, "submessage", "oneof", 0) EXCEPT !.sub = PbSub],
    PbField(16, "bytes", "optional", 6)>>

\* The same type, an older one, one with less room, and two newer ones with a required
\* field more, in the message and in a submessage.
PbReaders ==
  {PbType,
   <<[PbType[3] EXCEPT !.sub = <<PbSub[1]>>], PbType[7]>>,
   [PbType EXCEPT ![1].size = 8, ![2].max = 1, ![7].size = 5],
   Append(PbType, PbField(7, "varint", "required", 32)),
   [PbType EXCEPT ![3].sub = Append(PbSub, PbField(9, "fixed32", "required", 32))]}

PbInner(n, s, r) == (1 :> <<n>>) @@ (2 :> <<s>>) @@ (3 :> r)
PbOuter(a, b, c, d, e, f, g) ==
  (1 :> <<a>>) @@ (2 :> b) @@ (3 :> c) @@ (4 :> d) @@ (5 :> e) @@ (6 :> f) @@ (16 :> g)

PbMessages ==
  {PbOuter(0, <<>>, <<>>, <<>>, <<>>, <<>>, <<>>),
   PbOuter(-1, <<-3>>, <<PbInner(1, <<{0}>>, <<>>)>>, <<>>, <<7>>, <<>>, <<>>),
   PbOuter(300, <<>>, <<PbInner(0, <<>>, <<5>>)>>, <<PbInner(200, <<>>, <<-1>>)>>, <<>>,
           <<PbInner(1, <<>>, <<1>>)>>, <<<<{1}, {7}>>>>),
   PbOuter(127, <<64, -65>>, <<>>, <<>>, <<>>, <<PbInner(0, <<{6}, {1}>>, <<>>)>>, <<<<>>>>)}

Pb == INSTANCE Protobuf WITH
  WriterType <- PbType, ReaderTypes <- PbReaders, Messages <- PbMessages

pbVars == <<sent, input, stack, status>>

\* The iterators begin with any entries when it is they that move, else with none; of
\* messages there are some when they are decoded.
PartsInit ==
  /\ part \in {"cache", "list", "log", "iterators", "table", "messages"}
  /\ IF part = "messages" THEN Pb!Init
     ELSE sent = <<>> /\ input = <<>> /\ stack = <<>> /\ status = "none"
  /\ CacheInit /\ ListInit /\ LogInit /\ Init /\ TableInit
  /\ part # "iterators" => sequence = 0 /\ Entries = {}

PartsNext ==
  /\ UNCHANGED part
  /\ \/ part = "cache" /\ CacheNext /\ UNCHANGED <<skipVars, logVars, iterVars, tableVars, pbVars>>
     \/ part = "list" /\ ListNext /\ UNCHANGED <<cacheVars, logVars, iterVars, tableVars, pbVars>>
     \/ part = "log" /\ LogNext /\ UNCHANGED <<cacheVars, skipVars, iterVars, tableVars, pbVars>>
     \/ part = "iterators" /\ Move /\ UNCHANGED <<cacheVars, skipVars, logVars, tableVars, pbVars>>
     \/ part = "table" /\ TableStep /\ UNCHANGED <<cacheVars, skipVars, logVars, iterVars, pbVars>>
     \/ part = "messages" /\ Pb!Next /\ UNCHANGED <<cacheVars, skipVars, logVars, iterVars, tableVars>>

PartsSpec ==
  PartsInit /\ [][PartsNext]_<<part, cacheVars, skipVars, logVars, iterVars, tableVars, pbVars>>

\* Encoded messages decode, one after the other, as the later merged into the earlier, unless both
\* have the same submessage in a union (Protobuf).
DecodesAsMerge == part = "messages" => Pb!DecodesAsMerge
=============================================================================
