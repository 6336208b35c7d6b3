------------------------------ MODULE LogFormat -----------------------------
(* The format of the logs: log::Writer cuts records into physical records  *)
(* that stay inside blocks (db/log_writer.cc), log::Reader puts them       *)
(* together again (db/log_reader.cc), also from a file that ends in the    *)
(* middle of a record or in what an older log left in a recycled file.     *)
(* RecoverLogFiles reads the file after a crash, and a                     *)
(* TransactionLogIterator follows it while it is written                   *)
(* (db/transaction_log_impl.cc). A file is a sequence of bytes <<c, i>>,   *)
(* byte i of physical record c; <<0, 0>> is a byte of a trailer. Byte 1 is *)
(* the checksum and the length, byte kHeaderSize the type, and the next    *)
(* one, in recyclable records, the log number. The checksum is perfect.    *)
EXTENDS Integers, Sequences, SequencesExt, FiniteSetsExt

CONSTANTS
  kBlockSize, kHeaderSize, kRecyclableHeaderSize, \* 1 < header < recyclable < block
  Lengths,      \* lengths of the records
  MaxRecords,   \* records of a log
  Jobs          \* [recyclable, mode, tail]: the log, and how it is read

VARIABLES
  job,
  file, chunks, \* the bytes, and the physical records they are of
  log_number,   \* 2 when the file is recycled
  writer,       \* [pos, left, parts, phase]: log::Writer and its current record
  records,      \* the records of this log, as sequences of physical records
  last_sequence,\* VersionSet::LastSequence, one number for every record
  reader,       \* log::Reader and the local variables of ReadRecord
  out,          \* the records that recovery has replayed
  tail          \* the TransactionLogIterator

vars == <<job, file, chunks, log_number, writer, records, last_sequence, reader,
          out, tail>>
writerVars == <<file, chunks, log_number, writer, records, last_sequence>>

-----------------------------------------------------------------------------
(* The writer.                                                             *)

HeaderSize == IF job.recyclable THEN kRecyclableHeaderSize ELSE kHeaderSize
BlockOffset == writer.pos % kBlockSize

\* The trailer of the block, if no header fits in any more
Trailer ==
  LET leftover == kBlockSize - BlockOffset
  IN  IF leftover < HeaderSize THEN leftover ELSE 0

FragmentLength(left) ==
  Min({left, kBlockSize - ((BlockOffset + Trailer) % kBlockSize) - HeaderSize})

RecordType(begin, end) ==
  CASE begin /\ end -> "FULL" [] begin /\ ~end -> "FIRST"
    [] ~begin /\ end -> "LAST" [] ~begin /\ ~end -> "MIDDLE"

\* What EmitPhysicalRecord appends for the rest of a record
Chunk(left, parts) ==
  LET n == FragmentLength(left)
  IN  [log |-> log_number, type |-> RecordType(parts = <<>>, n = left), n |-> n,
       id |-> IF writer.phase = "writing" THEN Len(chunks) ELSE Len(chunks) + 1]
Bytes(c) ==
  [i \in 1..Trailer |-> <<0, 0>>] \o [i \in 1..(HeaderSize + c.n) |-> <<c.id, i>>]

\* The file after bytes were written at the position of the writer
Overwrite(bytes) ==
  LET pos == writer.pos
  IN  SubSeq(file, 1, pos) \o bytes \o SubSeq(file, pos + Len(bytes) + 1, Len(file))

AddRecord(n) ==
  /\ writer.phase = "open" /\ Len(records) < MaxRecords
  /\ writer' = [writer EXCEPT !.phase = "adding", !.left = n, !.parts = <<>>]
  /\ UNCHANGED <<job, file, chunks, log_number, records, last_sequence, reader, out, tail>>

\* write(2) has written only a part (PosixWritableFile::Append), where the
\* iterator may see it.
WriteSome ==
  /\ job.tail /\ writer.phase = "adding"
  /\ LET c == Chunk(writer.left, writer.parts)
     IN  /\ \E n \in 1..(Len(Bytes(c)) - 1) : file' = Overwrite(SubSeq(Bytes(c), 1, n))
         /\ chunks' = Append(chunks, c)
  /\ writer' = [writer EXCEPT !.phase = "writing"]
  /\ UNCHANGED <<job, log_number, records, last_sequence, reader, out, tail>>

\* One round of AddRecord
EmitPhysicalRecord ==
  /\ writer.phase \in {"adding", "writing"}
  /\ LET c == Chunk(writer.left, writer.parts)
         done == c.n = writer.left
         parts == Append(writer.parts, c)
     IN  /\ file' = Overwrite(Bytes(c))
         /\ chunks' = IF writer.phase = "adding" THEN Append(chunks, c) ELSE chunks
         /\ writer' = [pos |-> writer.pos + Len(Bytes(c)), left |-> writer.left - c.n,
                       parts |-> parts, phase |-> IF done THEN "added" ELSE "adding"]
         /\ records' = IF done THEN Append(records, parts) ELSE records
  /\ UNCHANGED <<job, log_number, last_sequence, reader, out, tail>>

\* The write group of the record is in the memtable.
SetLastSequence ==
  /\ writer.phase = "added"
  /\ last_sequence' = Len(records) /\ writer' = [writer EXCEPT !.phase = "open"]
  /\ UNCHANGED <<job, file, chunks, log_number, records, reader, out, tail>>

\* DBImpl takes the file for the next log (SwitchMemtable, ReuseWritableFile).
Recycle ==
  /\ writer.phase = "open" /\ job.recyclable /\ log_number = 1
  /\ log_number' = 2 /\ writer' = [writer EXCEPT !.pos = 0]
  /\ records' = <<>> /\ last_sequence' = 0
  /\ UNCHANGED <<job, file, chunks, reader, out, tail>>

\* The machine stops: of the physical record being written only the first bytes
\* are in the file.
Crash ==
  /\ ~job.tail /\ writer.phase \in {"open", "adding"}
  /\ IF writer.phase = "open" THEN UNCHANGED <<file, chunks>>
     ELSE LET c == Chunk(writer.left, writer.parts)
          IN  \E n \in 0..(Len(Bytes(c)) - 1) :
                /\ file' = Overwrite(SubSeq(Bytes(c), 1, n))
                /\ chunks' = Append(chunks, c)
  /\ writer' = [writer EXCEPT !.phase = "crashed"]
  /\ reader' = [reader EXCEPT !.ret = "reading"]
  /\ UNCHANGED <<job, log_number, records, last_sequence, out, tail>>

-----------------------------------------------------------------------------
(* The reader. buffer_ has the bytes behind start up to end.               *)

Size(r) == r.end - r.start

\* Reader::ReadMore, if it can
Refilled(r) ==
  LET end == Min({r.end + kBlockSize, Len(file)})
      short == end - r.end < kBlockSize
  IN  [r EXCEPT !.start = r.end, !.end = end, !.eof = short,
                !.eof_offset = IF short THEN end - r.end ELSE @]

\* Reader::UnmarkEOF
UnmarkedEOF(r) ==
  LET remaining == kBlockSize - r.eof_offset
      added == Min({remaining, Len(file) - r.end})
  IN  IF r.eof_offset = 0 THEN [r EXCEPT !.eof = FALSE]
      ELSE [r EXCEPT !.end = @ + added, !.eof = added < remaining,
                     !.eof_offset = IF added < remaining THEN @ + added ELSE 0]

\* The fields of a header at start: what they were written as, or, in bytes
\* that are something else, anything
Whole == {"FULL", "FIRST", "MIDDLE", "LAST"}
TypesOf(r) ==
  LET b == file[r.start + kHeaderSize]
  IN  CASE b[1] = 0 -> {"ZERO"}
        [] b[1] # 0 /\ b[2] = kHeaderSize -> {chunks[b[1]].type}
        [] OTHER -> {"ZERO", "LEGACY", "FULL"}
LengthsOf(r) ==
  LET b == file[r.start + 1]
  IN  CASE b[1] = 0 -> {0} [] b[1] # 0 /\ b[2] = 1 -> {chunks[b[1]].n}
        [] OTHER -> {0, 1, kBlockSize}
LogNumbers(r) ==
  LET b == file[r.start + kHeaderSize + 1]
  IN  IF b[1] # 0 /\ b[2] = kHeaderSize + 1 THEN {chunks[b[1]].log} ELSE {1, 2}

\* The physical record whose bytes are all there, if there is one; else 0
Checked(r, size) ==
  LET c == file[r.start + 1][1]
  IN  IF /\ c # 0 /\ HeaderSize + chunks[c].n = size
         /\ \A i \in 1..size : file[r.start + i] = <<c, i>>
      THEN c ELSE 0

Result(kind, r) == [kind |-> kind, reader |-> r, chunk |-> 0]
Cleared(r) == [r EXCEPT !.start = r.end]

\* Mutant: a record of the older log is taken for one of this log.
IsOldTrusted(number) == FALSE

IsOld(number) == number # log_number

\* ReadPhysicalRecord without the rounds of ReadMore: what it may return
ReadPhysicalRecord(r) ==
  LET recyclable(t) == job.recyclable /\ t \in Whole
      marked(t) == [r EXCEPT !.recycled = @ \/ (recyclable(t) /\ r.start = 0)]
      parsed(s, hs, n) ==
        IF hs + n > Size(s)
        THEN Result(IF s.eof THEN "bad header" ELSE "bad length", Cleared(s))
        ELSE IF Checked(s, hs + n) = 0 THEN Result("bad checksum", Cleared(s))
        ELSE [kind |-> chunks[Checked(s, hs + n)].type, chunk |-> Checked(s, hs + n),
              reader |-> [s EXCEPT !.start = @ + hs + n]]
      more(s) == IF ~s.eof THEN Result("again", Refilled(s))
                 ELSE Result(IF Size(s) > 0 THEN "bad header" ELSE "eof", Cleared(s))
  IN  IF Size(r) < kHeaderSize THEN {more(r)}
      ELSE UNION {
        IF recyclable(t) /\ Size(r) < kRecyclableHeaderSize THEN {more(marked(t))}
        ELSE IF recyclable(t)
        THEN {IF IsOld(number) THEN Result("old", marked(t))
              ELSE parsed(marked(t), kRecyclableHeaderSize, n) :
                number \in LogNumbers(r), n \in LengthsOf(r)}
        ELSE {IF t = "ZERO" /\ n = 0 /\ Size(r) >= kHeaderSize
              THEN Result("bad record", Cleared(r))
              ELSE parsed(r, kHeaderSize, n) : n \in LengthsOf(r)} :
        t \in TypesOf(r)}

PayloadOf(parts) == FoldLeft(LAMBDA n, c : n + c.n, 0, parts)

\* A round of ReadRecord with a result of ReadPhysicalRecord. scratch has the
\* physical records of a record that has begun; frag is in_fragmented_record.
ReadRecord(x) ==
  LET r == x.reader
      c == chunks[x.chunk]
      report(s, b) == [s EXCEPT !.reported = @ \/ b]
      unended == r.frag /\ PayloadOf(r.scratch) > 0
      absolute == job.mode = "AbsoluteConsistency"
      dropped == [report(r, r.frag) EXCEPT !.frag = FALSE, !.scratch = <<>>]
      none(s) == [s EXCEPT !.ret = "none", !.scratch = <<>>]
  IN  CASE x.kind = "again" -> r
        [] x.kind = "FULL" ->
             [report(r, unended) EXCEPT !.ret = "record", !.scratch = <<c>>]
        [] x.kind = "FIRST" ->
             [report(r, unended) EXCEPT !.frag = TRUE, !.scratch = <<c>>]
        [] x.kind = "MIDDLE" ->
             IF r.frag THEN [r EXCEPT !.scratch = Append(@, c)] ELSE report(r, TRUE)
        [] x.kind = "LAST" ->
             IF r.frag THEN [r EXCEPT !.ret = "record", !.scratch = Append(@, c)]
             ELSE report(r, TRUE)
        [] x.kind = "bad header" -> none(report(r, absolute))
        [] x.kind = "eof" -> none(report(r, r.frag /\ absolute))
        [] x.kind = "old" /\ job.mode # "SkipAnyCorruptedRecords" ->
             none(report(r, r.frag /\ absolute))
        [] x.kind = "bad record" \/ (x.kind = "old" /\ job.mode = "SkipAnyCorruptedRecords") ->
             dropped
        [] x.kind \in {"bad length", "bad checksum"} ->
             IF r.recycled /\ job.mode = "TolerateCorruptedTailRecords" THEN none(r)
             ELSE report(dropped, TRUE)

Called(r) == [r EXCEPT !.ret = "reading", !.frag = FALSE, !.scratch = <<>>]

-----------------------------------------------------------------------------
(* RecoverLogFiles.                                                        *)

Round ==
  \E x \in ReadPhysicalRecord(reader) : reader' = ReadRecord(x)

Recover ==
  /\ writer.phase = "crashed" /\ reader.ret = "reading"
  /\ Round
  /\ UNCHANGED <<job, writerVars, out, tail>>

\* The batch is replayed, unless a corruption was reported before.
Replay ==
  /\ writer.phase = "crashed" /\ reader.ret = "record"
  /\ IF reader.reported /\ job.mode # "SkipAnyCorruptedRecords"
     THEN reader' = [reader EXCEPT !.ret = "none"] /\ UNCHANGED out
     ELSE reader' = Called(reader) /\ out' = Append(out, reader.scratch)
  /\ UNCHANGED <<job, writerVars, tail>>

-----------------------------------------------------------------------------
(* TransactionLogIterator over this file.                                  *)

NewReader ==
  [start |-> 0, end |-> 0, eof |-> FALSE, eof_offset |-> 0, recycled |-> FALSE,
   frag |-> FALSE, scratch |-> <<>>, ret |-> "none", reported |-> FALSE]

At(pc) == job.tail /\ tail.pc = pc /\ UNCHANGED <<job, writerVars, out>>

\* NextImpl or SeekToStartSequence, up to the first read
TailNext ==
  /\ At("idle") /\ tail.calls < MaxRecords + 2
  /\ tail' = [tail EXCEPT !.pc = IF tail.started THEN "unmark" ELSE "check",
                          !.seeking = ~tail.started, !.strict = FALSE,
                          !.valid = FALSE, !.calls = @ + 1]
  /\ reader' = IF tail.started THEN reader ELSE NewReader

TailUnmark ==
  /\ At("unmark")
  /\ reader' = IF reader.eof THEN UnmarkedEOF(reader) ELSE reader
  /\ tail' = [tail EXCEPT !.pc = "check"]

RestrictedRead ==
  /\ At("check")
  /\ IF tail.last >= last_sequence
     THEN tail' = [tail EXCEPT !.pc = "no more"] /\ UNCHANGED reader
     ELSE tail' = [tail EXCEPT !.pc = "read"] /\ reader' = Called(reader)

TailRead ==
  /\ At("read")
  /\ \/ reader.ret = "reading" /\ Round /\ UNCHANGED tail
     \/ reader.ret = "none" /\ tail' = [tail EXCEPT !.pc = "no more"] /\ UNCHANGED reader

\* The number of the record that was read; 0 if there is no such record
BatchSequence == Max({i \in 1..Len(records) : records[i] = reader.scratch} \cup {0})

\* Mutant: NextImpl takes the batch that comes.
IsBatchExpectedAny(seq) == TRUE

IsBatchExpected(seq) == seq = tail.last + 1

\* UpdateCurrentWriteBatch in NextImpl: the batch, or a search for it
TailUpdate ==
  /\ At("read") /\ reader.ret = "record" /\ ~tail.seeking
  /\ IF IsBatchExpected(BatchSequence)
     THEN /\ tail' = [tail EXCEPT !.pc = "idle", !.last = BatchSequence, !.valid = TRUE,
                                  !.status = "OK", !.got = Append(@, BatchSequence)]
          /\ UNCHANGED reader
     ELSE /\ tail' = [tail EXCEPT !.pc = "check", !.seeking = TRUE, !.strict = TRUE,
                                  !.start = tail.last + 1, !.started = FALSE,
                                  !.valid = FALSE]
          /\ reader' = NewReader

\* A record of SeekToStartSequence
TailSeekUpdate ==
  /\ At("read") /\ reader.ret = "record" /\ tail.seeking /\ UNCHANGED reader
  /\ LET seq == BatchSequence
         found == seq >= tail.start
         gap == found /\ tail.strict /\ seq # tail.start
     IN  tail' = [tail EXCEPT !.last = seq, !.pc = IF found THEN "idle" ELSE "check",
                              !.valid = found /\ ~gap, !.started = found /\ ~gap,
                              !.status = IF gap THEN "Corruption" ELSE "OK",
                              !.got = IF found /\ ~gap THEN Append(@, seq) ELSE @]

\* The end without a record
TailNoMore ==
  /\ At("no more") /\ UNCHANGED reader
  /\ tail' = [tail EXCEPT
       !.pc = "idle",
       !.status = IF tail.seeking THEN (IF tail.strict THEN "Corruption" ELSE @)
                  ELSE IF tail.last = last_sequence THEN "OK" ELSE "Corruption"]

Init ==
  /\ job \in Jobs /\ file = <<>> /\ chunks = <<>> /\ log_number = 1
  /\ writer = [pos |-> 0, left |-> 0, parts |-> <<>>, phase |-> "open"]
  /\ records = <<>> /\ last_sequence = 0 /\ out = <<>>
  /\ reader = NewReader
  /\ tail = [pc |-> "idle", started |-> FALSE, seeking |-> FALSE, strict |-> FALSE,
             valid |-> FALSE, last |-> 0, start |-> 1, status |-> "OK", got |-> <<>>, calls |-> 0]

Follow ==
  \/ TailNext \/ TailUnmark \/ RestrictedRead \/ TailRead
  \/ TailUpdate \/ TailSeekUpdate \/ TailNoMore

Next ==
  \/ \E n \in Lengths : AddRecord(n)
  \/ WriteSome \/ EmitPhysicalRecord \/ SetLastSequence \/ Recycle \/ Crash
  \/ Recover \/ Replay
  \/ Follow

Spec == Init /\ [][Next]_vars
RecoverySpec == Spec /\ WF_vars(Recover) /\ WF_vars(Replay)

-----------------------------------------------------------------------------
\* The bytes behind the last record that was written whole
Rest ==
  LET last == IF records = <<>> THEN 0 ELSE Last(Last(records)).id
      end == Max({i \in 1..Len(file) : file[i][1] = last} \cup {0})
  IN  SubSeq(file, (IF last = 0 THEN 0 ELSE end) + 1, Len(file))

\* Recovery replays exactly the records that were written whole, in order, from
\* a log that ends anywhere inside of a record, and reports no corruption,
\* whatever an older log has left behind in the file; kAbsoluteConsistency
\* reports one if there is a part of a record, and not without
\* (log_reader.cc, ReadRecord, ReadPhysicalRecord; log_writer.cc, AddRecord).
ReplayExact ==
  writer.phase = "crashed" =>
    /\ IsPrefix(out, records)
    /\ reader.reported => job.mode = "AbsoluteConsistency" /\ Rest # <<>>
    /\ reader.ret = "none" =>
         /\ out = records
         /\ job.mode = "AbsoluteConsistency" /\ ~reader.reported =>
              \A i \in DOMAIN Rest : Rest[i] = <<0, 0>>

\* A TransactionLogIterator hands out every record once, in order, without a
\* gap, also when it meets a record that is being written
\* (transaction_log_impl.cc, NextImpl, UpdateCurrentWriteBatch; log_reader.cc,
\* UnmarkEOF).
TailInOrder == tail.got = [i \in 1..Len(tail.got) |-> i]

\* Recovery comes to an end (log_reader.cc, ReadRecord).
RecoveryEnds == (writer.phase = "crashed") ~> (reader.ret = "none")
=============================================================================
