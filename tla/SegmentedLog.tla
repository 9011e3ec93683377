---------------------------- MODULE SegmentedLog ----------------------------
(***************************************************************************)
(* The log of internal/log on the file system of internal/filesys: a       *)
(* sequence of segments, each with a store of records and an index of      *)
(* positions.  Both are buffered in memory and written to their files only *)
(* by Sync and Close.  The operations of a Log run one at a time, under    *)
(* its lock or that of the Raft node that owns it; the file operations of  *)
(* Close and Remove are steps of their own, so that the machine may stop   *)
(* between any two of them.                                                *)
(*                                                                         *)
(* A file changes durably when it is synced or closed, and its name when   *)
(* it is created or removed, as littlefs has it.  The buffers hold whole   *)
(* records, [pos, len, value, offset]: the 8 bytes of their length and the *)
(* len bytes of the Record start at pos.                                   *)
(***************************************************************************)
EXTENDS ProtoSize, FiniteSets, Functions

CONSTANTS
  Value,          \* the byte sequences that are appended
  MaxStoreBytes, MaxIndexBytes, InitialOffset,   \* Config
  MaxRecords,     \* bound: how many records are appended
  MaxCrashes,     \* bound: how often the machine stops
  MaxFaults       \* bound: how often a file cannot be opened

lenWidth == 8
entWidth == 12

\* An index has room for an entry: without, no record would get an offset.
ASSUME ConfigAssumption ==
  /\ MaxStoreBytes \in Nat \ {0} /\ MaxIndexBytes \in Nat /\ MaxIndexBytes >= entWidth
  /\ InitialOffset \in Nat
ASSUME ValueAssumption == \A v \in Value : v \in Seq(0..255)
ASSUME LogBounds == MaxRecords \in Nat /\ MaxCrashes \in Nat /\ MaxFaults \in Nat

VARIABLES
  phase,    \* "down", "open", "closing", "removing", "removed", "panicked"
  segs,     \* the segments in memory, the active one last
  todo,     \* the file operations Close or Remove still has to do
  stores, indexes,   \* the files, by base offset
  mounted,  \* the file system can open files
  crashes, faults,
  written,  \* history: written[o], the last value acknowledged at offset o
  kept,     \* history: the offsets that could be read when Close last finished
  torn,     \* history: a crash left an index that points past its store
  orphan    \* history: a failed roll-over left a store without an index

memVars  == <<phase, segs, todo>>
diskVars == <<stores, indexes, mounted>>
histVars == <<written, kept, torn, orphan>>
vars == <<memVars, diskVars, crashes, faults, histVars>>

Without(f, b) == [x \in DOMAIN f \ {b} |-> f[x]]
With(f, b, v) == [x \in DOMAIN f \cup {b} |-> IF x = b THEN v ELSE f[x]]
FileOf(f, b) == IF b \in DOMAIN f THEN f[b] ELSE <<>>

-----------------------------------------------------------------------------
(* store, index and segment.                                               *)

StoreSize(recs) ==
  LET end == recs[Len(recs)]
  IN  IF recs = <<>> THEN 0 ELSE end.pos + lenWidth + end.len

\* Mutant of IndexIsMaxed: an entry too many.
IndexIsMaxedLate(idx) == MaxIndexBytes < Len(idx) * entWidth

IndexIsMaxed(idx) == MaxIndexBytes < (Len(idx) + 1) * entWidth

RecordLen(v, off) == SizeVT([bytes |-> v, num |-> off])

\* Mutants of OpenSegment: the next offset is the last one of the index; the
\* store is not read.
OpenSegmentOnLast(b, st, ix) ==
  [base |-> b, next |-> IF ix = <<>> THEN b ELSE b + ix[Len(ix)].off,
   store |-> st, index |-> ix, storeSynced |-> Len(st), indexSynced |-> Len(ix)]

OpenSegmentNoStore(b, st, ix) ==
  [base |-> b, next |-> IF ix = <<>> THEN b ELSE b + ix[Len(ix)].off + 1,
   store |-> <<>>, index |-> ix, storeSynced |-> 0, indexSynced |-> Len(ix)]

\* newSegment: what the files hold is read into the buffers, and the next
\* offset follows the last entry of the index.
OpenSegment(b, st, ix) ==
  [base |-> b, next |-> IF ix = <<>> THEN b ELSE b + ix[Len(ix)].off + 1,
   store |-> st, index |-> ix, storeSynced |-> Len(st), indexSynced |-> Len(ix)]

\* Mutant of ToBeMaxed: the length prefix is not counted.
ToBeMaxedNoPrefix(s, v) ==
  \/ StoreSize(s.store) + RecordLen(v, s.next) >= MaxStoreBytes
  \/ IndexIsMaxed(s.index)

ToBeMaxed(s, v) ==
  \/ StoreSize(s.store) + lenWidth + RecordLen(v, s.next) >= MaxStoreBytes
  \/ IndexIsMaxed(s.index)

\* The record does not fit in the buffer of the store: slicing it panics.
Overflows(s, v) ==
  StoreSize(s.store) + lenWidth + RecordLen(v, s.next) > MaxStoreBytes

\* segment.Append: the store takes the record, then the index its position,
\* unless the index is full.
SegmentAppend(s, v) ==
  LET pos == StoreSize(s.store)
      rec == [pos |-> pos, len |-> RecordLen(v, s.next), value |-> v, offset |-> s.next]
      stored == [s EXCEPT !.store = Append(@, rec)]
  IN  IF IndexIsMaxed(s.index) THEN stored
      ELSE [stored EXCEPT !.index = Append(@, [off |-> s.next - s.base, pos |-> pos]),
                          !.next = @ + 1]

\* segment.Read: a record, an error, or whatever the bytes at a position where
\* no record starts decode to.
Error == [value |-> <<>>, offset |-> 0, kind |-> "error"]
Garbage == [value |-> <<>>, offset |-> 0, kind |-> "garbage"]

SegmentRead(s, off) ==
  IF off - s.base >= Len(s.index) THEN Error
  ELSE LET pos == s.index[off - s.base + 1].pos
           here == {i \in DOMAIN s.store : s.store[i].pos = pos}
       IN  IF pos + lenWidth > StoreSize(s.store) THEN Error
           ELSE IF here = {} THEN Garbage
           ELSE LET rec == s.store[CHOOSE i \in here : TRUE]
                IN  [value |-> rec.value, offset |-> rec.offset, kind |-> "record"]

-----------------------------------------------------------------------------
(* Log: lookups.  They change nothing.                                     *)

active == segs[Len(segs)]
lowestOffset == segs[1].base
nextOffset == active.next
NextIndex == nextOffset - lowestOffset

\* readAtOffset searches the segments from the first one.
readAtOffset(off) ==
  LET holds == {k \in DOMAIN segs : segs[k].base <= off /\ off < segs[k].next}
  IN  IF holds = {} THEN Error ELSE SegmentRead(segs[CHOOSE k \in holds : \A j \in holds : k <= j], off)

Read(index) == IF index >= NextIndex THEN Error ELSE readAtOffset(lowestOffset + index)

\* ReadFrom fails when one of its reads does.
ReadFrom(index) ==
  LET recs == [i \in 1..(NextIndex - index) |-> Read(index + i - 1)]
  IN  IF index >= NextIndex \/ \E i \in DOMAIN recs : recs[i].kind = "error"
      THEN <<Error>> ELSE recs

-----------------------------------------------------------------------------
Init ==
  /\ phase = "down" /\ segs = <<>> /\ todo = <<>>
  /\ stores = <<>> /\ indexes = <<>> /\ mounted = FALSE
  /\ crashes = 0 /\ faults = 0
  /\ written = <<>> /\ kept = {} /\ torn = FALSE /\ orphan = FALSE

\* filesys.NewFileSystem formats a fresh memory device.
NewFileSystem ==
  /\ phase = "down" /\ ~mounted /\ mounted' = TRUE
  /\ stores' = <<>> /\ indexes' = <<>>
  /\ written' = <<>> /\ kept' = {} /\ torn' = FALSE /\ orphan' = FALSE
  /\ UNCHANGED <<memVars, crashes, faults>>

\* setupLog of pkg/app unmounts the file system when it returns the log.
Unmount ==
  /\ phase = "open" /\ mounted /\ mounted' = FALSE
  /\ UNCHANGED <<memVars, stores, indexes, crashes, faults, histVars>>

\* The files of base offsets below b, and the base offset of the p-th file.
Before(T, b) == Cardinality({x \in T : x < b})
Below(b) == Before(DOMAIN stores, b) + Before(DOMAIN indexes, b)
FileAt(p) ==
  CHOOSE b \in DOMAIN stores \cup DOMAIN indexes : Below(b) < p /\ p <= Below(b + 1)

\* setup: the base offsets of all files are sorted and every second one opened,
\* for each segment should have two files; with no file a segment is created.
BaseOffsets ==
  LET n == Cardinality(DOMAIN stores) + Cardinality(DOMAIN indexes)
  IN  IF n = 0 THEN <<InitialOffset>> ELSE [i \in 1..((n + 1) \div 2) |-> FileAt(2 * i - 1)]

NewLog ==
  /\ phase \in {"down", "removed"} /\ mounted
  /\ LET bases == BaseOffsets IN
       /\ segs' = [i \in DOMAIN bases |->
                     OpenSegment(bases[i], FileOf(stores, bases[i]), FileOf(indexes, bases[i]))]
       /\ stores' = [b \in DOMAIN stores \cup Range(bases) |-> FileOf(stores, b)]
       /\ indexes' = [b \in DOMAIN indexes \cup Range(bases) |-> FileOf(indexes, b)]
  /\ phase' = "open"
  /\ UNCHANGED <<todo, mounted, crashes, faults, histVars>>

-----------------------------------------------------------------------------
(* Append.  Rolling over opens the files of the next offset; when the      *)
(* active segment is empty these are its own, and two segments share them. *)

Fresh == OpenSegment(nextOffset, FileOf(stores, nextOffset), FileOf(indexes, nextOffset))

AppendValue(v) ==
  LET rolls == ToBeMaxed(active, v)
      target == IF rolls THEN Fresh ELSE active
  IN
  /\ phase = "open" /\ nextOffset < InitialOffset + MaxRecords
  /\ IF rolls
     THEN /\ mounted
          /\ stores' = With(stores, nextOffset, FileOf(stores, nextOffset))
          /\ indexes' = With(indexes, nextOffset, FileOf(indexes, nextOffset))
     ELSE UNCHANGED <<stores, indexes>>
  /\ IF Overflows(target, v)
     THEN phase' = "panicked" /\ UNCHANGED <<segs, written>>
     ELSE /\ segs' = Append(IF rolls THEN segs ELSE SubSeq(segs, 1, Len(segs) - 1),
                           SegmentAppend(target, v))
          /\ written' = IF IndexIsMaxed(target.index) THEN written
                        ELSE With(written, target.next, v)
          /\ UNCHANGED phase
  /\ UNCHANGED <<todo, mounted, crashes, faults, kept, torn, orphan>>

\* A file of the next segment cannot be opened, and Append returns the error:
\* the file system is not mounted, or fails before or after the store's file.
FailAppend(v) ==
  /\ phase = "open" /\ ToBeMaxed(active, v)
  /\ \/ ~mounted /\ UNCHANGED <<stores, faults, orphan>>
     \/ /\ mounted /\ faults < MaxFaults /\ faults' = faults + 1
        /\ \/ UNCHANGED <<stores, orphan>>
           \/ /\ nextOffset \notin DOMAIN stores
              /\ stores' = With(stores, nextOffset, <<>>) /\ orphan' = TRUE
  /\ UNCHANGED <<memVars, indexes, mounted, crashes, written, kept, torn>>

-----------------------------------------------------------------------------
(* Close and Remove, one file operation at a time.                         *)

\* The operations ops, on one segment after the other.
EachSegment(ops) ==
  [i \in 1..(Len(ops) * Len(segs)) |->
     <<ops[1 + ((i - 1) % Len(ops))], 1 + ((i - 1) \div Len(ops))>>]

\* Mutant of CloseOps: only the active segment is closed.
CloseActive == <<<<"index", Len(segs)>>, <<"store", Len(segs)>>>>

CloseOps == EachSegment(<<"index", "store">>)

\* Mutant of RemoveOps: only the file of the index is removed.
RemoveIndexes == EachSegment(<<"index", "store", "rmIndex">>)

RemoveOps ==
  <<<<"store", Len(segs)>>, <<"index", Len(segs)>>>> \o
  EachSegment(<<"index", "store", "rmIndex", "rmStore">>)

CloseLog ==
  /\ phase = "open" /\ mounted
  /\ phase' = "closing" /\ todo' = CloseOps
  /\ UNCHANGED <<segs, diskVars, crashes, faults, histVars>>

RemoveLog ==
  /\ phase = "open" /\ mounted
  /\ phase' = "removing" /\ todo' = RemoveOps
  /\ written' = <<>> /\ kept' = {}
  /\ UNCHANGED <<segs, diskVars, crashes, faults, torn, orphan>>

\* sync: what the buffer got since the last sync is added to the file, which
\* is gone when another segment with the same base offset was removed.
SyncStore(k) ==
  LET s == segs[k]
      new == SubSeq(s.store, s.storeSynced + 1, Len(s.store))
  IN  /\ stores' = IF s.base \in DOMAIN stores
                   THEN [stores EXCEPT ![s.base] = @ \o new] ELSE stores
      /\ segs' = [segs EXCEPT ![k].storeSynced = Len(s.store)]
      /\ UNCHANGED indexes

SyncIndex(k) ==
  LET s == segs[k]
      new == SubSeq(s.index, s.indexSynced + 1, Len(s.index))
  IN  /\ indexes' = IF s.base \in DOMAIN indexes
                    THEN [indexes EXCEPT ![s.base] = @ \o new] ELSE indexes
      /\ segs' = [segs EXCEPT ![k].indexSynced = Len(s.index)]
      /\ UNCHANGED stores

RemoveFile(op, b) ==
  /\ stores' = IF op = "rmStore" THEN Without(stores, b) ELSE stores
  /\ indexes' = IF op = "rmIndex" THEN Without(indexes, b) ELSE indexes
  /\ UNCHANGED segs

\* Removing a file that is not there ends Remove with an error.
Missing(op, b) ==
  \/ op = "rmStore" /\ b \notin DOMAIN stores
  \/ op = "rmIndex" /\ b \notin DOMAIN indexes

Readable(off) ==
  /\ off \in DOMAIN written
  /\ readAtOffset(off) = [value |-> written[off], offset |-> off, kind |-> "record"]

FileStep ==
  /\ todo # <<>>
  /\ LET op == Head(todo)[1]
         k == Head(todo)[2]
         b == segs[k].base
     IN  /\ IF op = "store" THEN SyncStore(k)
            ELSE IF op = "index" THEN SyncIndex(k)
            ELSE RemoveFile(op, b)
         /\ todo' = IF Missing(op, b) THEN <<>> ELSE Tail(todo)
  /\ phase' = IF todo' # <<>> THEN phase ELSE IF phase = "closing" THEN "down" ELSE "removed"
  /\ kept' = IF phase' = "down" THEN {o \in DOMAIN written : Readable(o)} ELSE kept
  /\ UNCHANGED <<mounted, crashes, faults, written, torn, orphan>>

\* An entry of an index file points past the end of the store file.
Dangling ==
  \E b \in DOMAIN indexes : \E i \in DOMAIN indexes[b] :
    indexes[b][i].pos + lenWidth > StoreSize(FileOf(stores, b))

\* The machine stops, or the program after a panic or a failed Close: what was
\* not written to the files is lost.
Crash ==
  /\ phase # "down" /\ crashes < MaxCrashes
  /\ crashes' = crashes + 1
  /\ phase' = "down" /\ segs' = <<>> /\ todo' = <<>>
  /\ torn' = (torn \/ Dangling)
  /\ UNCHANGED <<diskVars, faults, written, kept, orphan>>

Next ==
  \/ NewFileSystem \/ Unmount \/ NewLog
  \/ \E v \in Value : AppendValue(v) \/ FailAppend(v)
  \/ CloseLog \/ RemoveLog \/ FileStep \/ Crash

Spec == Init /\ [][Next]_vars
=============================================================================
