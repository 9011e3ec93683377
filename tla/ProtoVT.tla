------------------------------ MODULE ProtoVT ------------------------------
(***************************************************************************)
(* The generated binary codec, for the two messages the program stores:    *)
(* Record of api/log/log.pb.go and LogEntry of api/raft/raft.pb.go.  Both  *)
(* have a field 1 of bytes and a field 2 with an unsigned integer, so one  *)
(* codec serves both: a message is [bytes, num], and bytes are sequences   *)
(* over 0..255.  Fields at their zero value are not written.               *)
(***************************************************************************)
EXTENDS ProtoSize, SequencesExt

\* A field's key is its number and wire type: 1 and 2 (length-delimited), 2 and
\* 0 (varint).
BytesKey == 10
NumKey == 16

EncodeVarint[n \in Nat] ==
  IF n < 128 THEN <<n>> ELSE <<128 + (n % 128)>> \o EncodeVarint[n \div 128]

MarshalVT(m) ==
  (IF m.bytes = <<>> THEN <<>> ELSE <<BytesKey>> \o EncodeVarint[Len(m.bytes)] \o m.bytes)
    \o (IF m.num = 0 THEN <<>> ELSE <<NumKey>> \o EncodeVarint[m.num])

-----------------------------------------------------------------------------
(* UnmarshalVT into a fresh message.  The loop state is the message so far *)
(* and the bytes left, or an error; a field read twice keeps its last      *)
(* value, and fields other than these two, which nothing writes, are       *)
(* an error here.                                                          *)

UnexpectedEOF == [bytes |-> <<>>, num |-> 0, left |-> <<>>, err |-> TRUE]

\* The bytes of the varint b starts with, and their value.
VarintWidth(b) == SelectInSeq(b, LAMBDA x : x < 128)
VarintValue(b) == FoldRight(LAMBDA x, v : v * 128 + (x % 128), SubSeq(b, 1, VarintWidth(b)), 0)

ReadField(s) ==
  LET body == Tail(s.left)
      width == VarintWidth(body)
      value == VarintValue(body)
      rest == SubSeq(body, width + 1, Len(body))
  IN  IF width = 0 THEN UnexpectedEOF
      ELSE IF Head(s.left) = NumKey THEN [s EXCEPT !.num = value, !.left = rest]
      ELSE IF Head(s.left) # BytesKey \/ value > Len(rest) THEN UnexpectedEOF
      ELSE [s EXCEPT !.bytes = SubSeq(rest, 1, value),
                     !.left = SubSeq(rest, value + 1, Len(rest))]

UnmarshalVT(b) ==
  LET run[k \in 0..Len(b)] ==
        IF k = 0 THEN [bytes |-> <<>>, num |-> 0, left |-> b, err |-> FALSE]
        ELSE LET s == run[k - 1] IN IF s.left = <<>> THEN s ELSE ReadField(s)
  IN  run[Len(b)]

-----------------------------------------------------------------------------
(* LogEntry, what the Raft node stores as the value of a record.           *)

LogEntryMarshalVT(e) == MarshalVT([bytes |-> e.command, num |-> e.term])

LogEntryUnmarshalVT(b) ==
  LET m == UnmarshalVT(b)
  IN  [command |-> m.bytes, term |-> m.num, err |-> m.err]
=============================================================================
