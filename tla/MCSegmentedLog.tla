--------------------------- MODULE MCSegmentedLog ---------------------------
(***************************************************************************)
(* The instance of the segmented log that TLC checks.  Its values are      *)
(* encoded log entries, so that the codec is checked on what is stored.    *)
(***************************************************************************)
EXTENDS SegmentedLogProperties, ProtoVT

\* MarshalVT, SizeVT, UnmarshalVT: the record stored last and the log entry in it
\* decode from exactly the bytes that were written, and from no part of them.
StoredRecordDecodes ==
  phase = "open" /\ active.store # <<>> =>
    LET rec == active.store[Len(active.store)]
        b == MarshalVT([bytes |-> rec.value, num |-> rec.offset])
        Gives(c) == LET m == UnmarshalVT(c)
                    IN  ~m.err /\ m.bytes = rec.value /\ m.num = rec.offset
        entry == LogEntryUnmarshalVT(rec.value)
    IN  /\ Len(b) = rec.len /\ Gives(b)
        /\ \A n \in 0..(Len(b) - 1) : ~Gives(SubSeq(b, 1, n))
        /\ ~entry.err /\ LogEntryMarshalVT(entry) = rec.value

-----------------------------------------------------------------------------
(* Log entries of three sizes: one that leaves room for others, one that   *)
(* fills a store exactly except at offset 0, whose record is shorter, and  *)
(* one that fills it exactly there and is too large everywhere else.       *)
Command(n) == [i \in 1..n |-> 7]
MCValue == {LogEntryMarshalVT([command |-> Command(n), term |-> 1]) : n \in {0, 16, 18}}
=============================================================================
