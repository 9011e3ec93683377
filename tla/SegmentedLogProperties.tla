----------------------- MODULE SegmentedLogProperties -----------------------
(***************************************************************************)
(* What the segmented log guarantees.                                      *)
(***************************************************************************)
EXTENDS SegmentedLog

\* The buffers of a segment hold no more than their arrays, and the shapes of
\* the state are as declared.
TypeOK ==
  /\ phase \in {"down", "open", "closing", "removing", "removed", "panicked"}
  /\ phase \in {"open", "closing", "removing"} => segs # <<>>
  /\ phase \in {"closing", "removing"} <=> todo # <<>>
  /\ \A k \in DOMAIN segs :
       /\ StoreSize(segs[k].store) <= MaxStoreBytes
       /\ Len(segs[k].index) * entWidth <= MaxIndexBytes
       /\ segs[k].storeSynced <= Len(segs[k].store)
       /\ segs[k].indexSynced <= Len(segs[k].index)
  /\ mounted \in BOOLEAN /\ torn \in BOOLEAN /\ orphan \in BOOLEAN
  /\ crashes \in 0..MaxCrashes /\ faults \in 0..MaxFaults

\* Append, Read, ReadFrom, Close, NewLog: as long as the machine does not stop,
\* every record that was acknowledged is read back under its index, across
\* roll-overs, segments that share their files, roll-overs that fail and leave no
\* file, and reopening.
ReadsWhatWasAppended ==
  phase = "open" /\ crashes = 0 /\ ~orphan =>
    \A o \in DOMAIN written :
      /\ Readable(o) /\ Read(o - lowestOffset) = readAtOffset(o)
      /\ ReadFrom(o - lowestOffset) = [i \in 1..(nextOffset - o) |-> readAtOffset(o + i - 1)]

\* segment.Read, newSegment: whatever a crash loses, a read fails or returns the
\* record of that very offset with the value last acknowledged there, unless a
\* crash hit Close after it wrote an index and before it wrote the store, or a
\* roll-over failed after it created the store's file.
ReadIsNeverAnothers ==
  phase = "open" /\ ~torn /\ ~orphan =>
    \A o \in lowestOffset..(nextOffset - 1) :
      LET r == readAtOffset(o)
      IN  \/ r.kind = "error"
          \/ r.kind = "record" /\ r.offset = o /\ (o \in DOMAIN written => r.value = written[o])

\* Close, setup: what was there when Close finished survives every later crash,
\* also one that tears a later Close apart.
ClosedRecordsSurvive == phase = "open" /\ ~orphan => \A o \in kept : Readable(o)

\* Log.Remove removes every file of the log, unless two of its segments share
\* their files, when removing them a second time fails, or a failed roll-over
\* left a file that belongs to no segment.
RemoveLeavesNothing ==
  /\ phase = "removed" /\ ~orphan
  /\ \A j \in DOMAIN segs, k \in DOMAIN segs : segs[j].base = segs[k].base => j = k
  => DOMAIN stores = {} /\ DOMAIN indexes = {}

\* store.Append slices its buffer unchecked and relies on ToBeMaxed: it panics
\* only for a record that no segment can hold, or when the store file of the next
\* offset already has bytes that a crash left without an index.
PanicNeedsOversizeRecord ==
  [][\A v \in Value :
       AppendValue(v) /\ phase' = "panicked" =>
         \/ lenWidth + RecordLen(v, nextOffset) > MaxStoreBytes
         \/ FileOf(stores, nextOffset) # <<>>]_vars
=============================================================================
